-------------------------- MODULE StructDiff_proofs --------------------------
(***************************************************************************)
(* Proofs about StructDiff, for heaps of any finite number of structs that *)
(* point to each other in any way, for any fields, tags and values.        *)
(*                                                                         *)
(* None of the three invariants is inductive.  Each is a statement about   *)
(* an answer, or an answer so far, and needs to know what the calls still  *)
(* on the stack will add:                                                  *)
(*   - PathsInv: each call is for the value that its path leads to;        *)
(*   - EmptySoFar: while nothing is reported, each pair visited leads, by  *)
(*     every field shown, to a pair with equal texts, to one visited, or   *)
(*     to one that a call is under way for;                                *)
(*   - FieldsInv, ReachInv, TallyInv: a field of a pair is asked for only  *)
(*     after the pair is visited, what a visited pair points to is visited *)
(*     or under way, and the calls and the changes for a field together    *)
(*     are one, or none where the field does not differ.                   *)
(*                                                                         *)
(* Within, Indistinct, At, Met, ShownFields and WorkOf are recursive       *)
(* functions.  What they compute is shown first: that they are the least   *)
(* or the largest sets, or the walks, that their definitions name.         *)
(***************************************************************************)
EXTENDS StructDiff, SequenceTheorems, FiniteSetTheorems, TLAPS
-----------------------------------------------------------------------------
(* Recursion and induction over the natural numbers, for sets and          *)
(* functions given as constants.                                           *)

LEMMA LeastOf ==
    ASSUME NEW S \in SUBSET Nat, S # {}
    PROVE  \E x \in S : \A y \in S : x <= y
<1> DEFINE below == OpToRel(<, Nat)
<1>1. PICK x \in S : \A y \in S : ~(<<y, x>> \in below)
  <2>1. IsWellFoundedOn(below, Nat)
    BY NatLessThanWellFounded
  <2> HIDE DEF below
  <2> QED
    BY <2>1, WFMin
<1>2. ASSUME NEW y \in S PROVE x <= y
  <2>1. CASE y < x
    <3>1. <<y, x>> \in below
      BY <2>1 DEF OpToRel
    <3> QED
      BY <1>1, <3>1
  <2> QED
    BY <2>1
<1> QED
  BY <1>2

\* A set of numbers that has 0 and the successor of each it has, has all of them.
LEMMA AllNumbers ==
    ASSUME NEW S, 0 \in S, \A k \in Nat : k \in S => k + 1 \in S
    PROVE  Nat \subseteq S
<1> DEFINE rest0 == Nat \ S
<1>1. CASE rest0 # {}
  <2>1. PICK k \in rest0 : \A l \in rest0 : k <= l
    BY <1>1, LeastOf
  <2>2. k \in Nat /\ k # 0 /\ k - 1 \in Nat /\ ~(k <= k - 1)
    BY <2>1
  <2>3. k - 1 \in S
    BY <2>1, <2>2
  <2> QED
    BY <2>1, <2>2, <2>3
<1> QED
  BY <1>1

\* g takes the first k steps of the iteration of F from x.
Steps(k, g, T, x, F) ==
    /\ g \in [0..k -> T] /\ g[0] = x
    /\ \A l \in 0..(k - 1) : g[l + 1] = F[g[l]]

LEMMA StepsExist ==
    ASSUME NEW T, NEW x \in T, NEW F \in [T -> T], NEW k \in Nat
    PROVE  \E g : Steps(k, g, T, x, F)
<1> DEFINE S == {l \in Nat : \E g : Steps(l, g, T, x, F)}
<1>1. 0 \in S
  <2> DEFINE g == [l \in 0..0 |-> x]
  <2>1. Steps(0, g, T, x, F)
    BY DEF Steps
  <2> QED
    BY <2>1
<1>2. ASSUME NEW l \in Nat, l \in S PROVE l + 1 \in S
  <2>1. PICK g : Steps(l, g, T, x, F)
    BY <1>2
  <2> DEFINE h == [i \in 0..(l + 1) |-> IF i <= l THEN g[i] ELSE F[g[l]]]
  <2>2. g \in [0..l -> T] /\ g[0] = x /\ \A i \in 0..(l - 1) : g[i + 1] = F[g[i]]
    BY <2>1 DEF Steps
  <2>3. h \in [0..(l + 1) -> T] /\ h[0] = x
    BY <1>2, <2>2
  <2>4. \A i \in 0..l : h[i + 1] = F[h[i]]
    <3> SUFFICES ASSUME NEW i \in 0..l PROVE h[i + 1] = F[h[i]]
      OBVIOUS
    <3>1. h[i] = g[i] /\ i \in Nat
      BY <1>2
    <3>2. CASE i = l
      BY <1>2, <3>1, <3>2
    <3>3. CASE i # l
      <4>1. i \in 0..(l - 1) /\ i + 1 \in 0..l /\ i + 1 \in 0..(l + 1)
        BY <1>2, <3>1, <3>3
      <4> QED
        BY <2>2, <3>1, <4>1
    <3> QED
      BY <3>2, <3>3
  <2>5. Steps(l + 1, h, T, x, F)
    <3>1. (l + 1) - 1 = l
      BY <1>2
    <3> HIDE DEF h
    <3> QED
      BY <2>3, <2>4, <3>1 DEF Steps
  <2> QED
    BY <1>2, <2>5
<1> HIDE DEF S
<1>3. k \in S
  BY <1>1, <1>2, AllNumbers
<1> QED
  BY <1>3 DEF S

LEMMA StepsAgree ==
    ASSUME NEW T, NEW x, NEW F, NEW k \in Nat, NEW l \in Nat, NEW g, NEW h,
           Steps(k, g, T, x, F), Steps(l, h, T, x, F), NEW n \in Nat, n <= k, n <= l
    PROVE  g[n] = h[n]
<1> DEFINE S == {i \in Nat : i <= k /\ i <= l => g[i] = h[i]}
<1>1. 0 \in S
  BY DEF Steps
<1>2. ASSUME NEW i \in Nat, i \in S PROVE i + 1 \in S
  <2>1. CASE i + 1 <= k /\ i + 1 <= l
    <3>1. i \in 0..(k - 1) /\ i \in 0..(l - 1) /\ g[i] = h[i]
      BY <1>2, <2>1
    <3> QED
      BY <1>2, <3>1 DEF Steps
  <2> QED
    BY <1>2, <2>1
<1> HIDE DEF S
<1>3. n \in S
  BY <1>1, <1>2, AllNumbers
<1> QED
  BY <1>3 DEF S

\* The iteration of F from x.
LEMMA IterationExists ==
    ASSUME NEW T, NEW x \in T, NEW F \in [T -> T]
    PROVE  \E f \in [Nat -> T] : f[0] = x /\ \A k \in Nat : f[k + 1] = F[f[k]]
<1> DEFINE g(k) == CHOOSE h : Steps(k, h, T, x, F)
           f == [k \in Nat |-> g(k)[k]]
<1>1. ASSUME NEW k \in Nat PROVE Steps(k, g(k), T, x, F)
  BY StepsExist
<1> HIDE DEF g
<1>2. ASSUME NEW k \in Nat PROVE g(k)[k] \in T
  <2>1. g(k) \in [0..k -> T] /\ k \in 0..k
    BY <1>1 DEF Steps
  <2> QED
    BY <2>1
<1>3. f[0] = x
  BY <1>1 DEF Steps
<1>4. ASSUME NEW k \in Nat PROVE f[k + 1] = F[f[k]]
  <2>1. k + 1 \in Nat /\ k <= k + 1 /\ k \in 0..((k + 1) - 1)
    OBVIOUS
  <2>2. g(k + 1)[k] = g(k)[k]
    BY <1>1, <2>1, StepsAgree
  <2>3. g(k + 1)[k + 1] = F[g(k + 1)[k]]
    BY <1>1, <2>1 DEF Steps
  <2> QED
    BY <2>1, <2>2, <2>3
<1> QED
  BY <1>2, <1>3, <1>4
-----------------------------------------------------------------------------
(* Sets that only grow, or only shrink, settle.                            *)

LEMMA GrowthEnds ==
    ASSUME NEW U, IsFiniteSet(U), NEW f \in [Nat -> SUBSET U],
           \A k \in Nat : f[k] \subseteq f[k + 1],
           \A k \in Nat : f[k + 1] = f[k] => f[(k + 1) + 1] = f[k + 1]
    PROVE  f[Cardinality(U) + 1] = f[Cardinality(U)]
<1> DEFINE S == {k \in Nat : (\E j \in Nat : j < k /\ f[j + 1] = f[j]) \/ Cardinality(f[k]) >= k}
           c == Cardinality(U)
<1>1. c \in Nat
  BY FS_CardinalityType
<1>2. ASSUME NEW k \in Nat PROVE IsFiniteSet(f[k]) /\ Cardinality(f[k]) \in Nat /\ Cardinality(f[k]) <= c
  <2>1. f[k] \in SUBSET U
    OBVIOUS
  <2> QED
    BY <2>1, FS_Subset, FS_CardinalityType
<1> HIDE DEF c
<1>3. 0 \in S
  BY <1>2
<1>4. ASSUME NEW k \in Nat, k \in S PROVE k + 1 \in S
  <2>1. CASE \E j \in Nat : j < k /\ f[j + 1] = f[j]
    <3>1. PICK j \in Nat : j < k /\ f[j + 1] = f[j]
      BY <2>1
    <3>2. j < k + 1
      BY <3>1
    <3> QED
      BY <3>1, <3>2
  <2>2. CASE f[k + 1] = f[k]
    BY <2>2
  <2>3. CASE Cardinality(f[k]) >= k /\ f[k + 1] # f[k]
    <3>1. /\ f[k] \in SUBSET f[k + 1] /\ IsFiniteSet(f[k + 1])
          /\ Cardinality(f[k + 1]) \in Nat /\ Cardinality(f[k]) \in Nat
      BY <1>2
    <3>2. Cardinality(f[k]) <= Cardinality(f[k + 1]) /\ Cardinality(f[k]) # Cardinality(f[k + 1])
      BY <2>3, <3>1, FS_Subset
    <3>3. Cardinality(f[k + 1]) >= k + 1
      BY <2>3, <3>1, <3>2
    <3> QED
      BY <3>3
  <2> QED
    BY <1>4, <2>1, <2>2, <2>3
<1>5. c + 1 \in S
  <2> HIDE DEF S
  <2>1. Nat \subseteq S
    BY <1>3, <1>4, AllNumbers
  <2> QED
    BY <1>1, <2>1
<1>6. PICK j \in Nat : j <= c /\ f[j + 1] = f[j]
  <2>1. Cardinality(f[c + 1]) <= c /\ Cardinality(f[c + 1]) \in Nat
    BY <1>1, <1>2
  <2>2. ~(Cardinality(f[c + 1]) >= c + 1)
    BY <1>1, <2>1
  <2>3. PICK j \in Nat : j < c + 1 /\ f[j + 1] = f[j]
    BY <1>5, <2>2
  <2> QED
    BY <1>1, <2>3
<1> DEFINE R == {i \in Nat : j <= i => f[i + 1] = f[i]}
<1>7. 0 \in R
  BY <1>6
<1>8. ASSUME NEW k \in Nat, k \in R PROVE k + 1 \in R
  <2>1. CASE j <= k
    BY <1>8, <2>1
  <2>2. CASE ~(j <= k) /\ j <= k + 1
    <3>1. j = k + 1
      BY <2>2
    <3> QED
      BY <1>6, <3>1
  <2> QED
    BY <2>1, <2>2
<1> HIDE DEF R
<1>9. c \in R
  BY <1>1, <1>7, <1>8, AllNumbers
<1> QED
  BY <1>6, <1>9 DEF R, c

LEMMA ShrinkingEnds ==
    ASSUME NEW P, IsFiniteSet(P), NEW f \in [Nat -> SUBSET P],
           \A k \in Nat : f[k + 1] \subseteq f[k]
    PROVE  \E k \in 0..Cardinality(P) : f[k + 1] = f[k]
<1> DEFINE S == {k \in Nat : \/ \E j \in Nat : j < k /\ f[j + 1] = f[j]
                             \/ Cardinality(f[k]) + k <= Cardinality(P)}
           c == Cardinality(P)
<1>1. c \in Nat
  BY FS_CardinalityType
<1>2. ASSUME NEW k \in Nat PROVE IsFiniteSet(f[k]) /\ Cardinality(f[k]) \in Nat /\ Cardinality(f[k]) <= c
  <2>1. f[k] \in SUBSET P
    OBVIOUS
  <2> QED
    BY <2>1, FS_Subset, FS_CardinalityType
<1>3. 0 \in S
  BY <1>2
<1>4. ASSUME NEW k \in Nat, k \in S PROVE k + 1 \in S
  <2>1. CASE \E j \in Nat : j < k /\ f[j + 1] = f[j]
    <3>1. PICK j \in Nat : j < k /\ f[j + 1] = f[j]
      BY <2>1
    <3>2. j < k + 1
      BY <3>1
    <3> QED
      BY <3>1, <3>2
  <2>2. CASE f[k + 1] = f[k]
    BY <2>2
  <2>3. CASE Cardinality(f[k]) + k <= c /\ f[k + 1] # f[k]
    <3>1. /\ f[k + 1] \in SUBSET f[k] /\ IsFiniteSet(f[k])
          /\ Cardinality(f[k + 1]) \in Nat /\ Cardinality(f[k]) \in Nat
      BY <1>2
    <3>2. Cardinality(f[k + 1]) <= Cardinality(f[k]) /\ Cardinality(f[k]) # Cardinality(f[k + 1])
      BY <2>3, <3>1, FS_Subset
    <3>3. Cardinality(f[k + 1]) + (k + 1) <= c
      BY <1>1, <2>3, <3>1, <3>2
    <3> QED
      BY <3>3
  <2> QED
    BY <1>4, <2>1, <2>2, <2>3
<1>5. c + 1 \in S
  <2> HIDE DEF S, c
  <2>1. Nat \subseteq S
    BY <1>3, <1>4, AllNumbers
  <2> QED
    BY <1>1, <2>1
<1> HIDE DEF c
<1>6. ~(Cardinality(f[c + 1]) + (c + 1) <= c)
  BY <1>1, <1>2
<1>7. PICK j \in Nat : j < c + 1 /\ f[j + 1] = f[j]
  BY <1>5, <1>6 DEF c
<1>8. j \in 0..c
  BY <1>1, <1>7
<1> QED
  BY <1>7, <1>8 DEF c
-----------------------------------------------------------------------------
(* Indistinct.                                                             *)

\* What a round leaves of R.
Kept(R, fs) == {p \in R : \A f \in fs : Alike(f, heap[p[1]][f], heap[p[2]][f], R)}

LEMMA AlikeGrows ==
    ASSUME NEW f \in FieldSet, NEW x, NEW y, NEW Q, NEW R, Q \subseteq R, Alike(f, x, y, Q)
    PROVE  Alike(f, x, y, R)
<1>1. KindOf[f] \in {"leaf", "pointer", "slice"}
  BY FieldsAssumption
<1> QED
  BY <1>1 DEF Alike

\* Indistinct is the largest relation in P that its fields do not leave.
LEMMA IndistinctIsLargest ==
    ASSUME NEW P, IsFiniteSet(P), NEW fs \in SUBSET FieldSet
    PROVE  /\ Indistinct(P, fs) \subseteq P
           /\ \A p \in Indistinct(P, fs), f \in fs :
                 Alike(f, heap[p[1]][f], heap[p[2]][f], Indistinct(P, fs))
           /\ \A R \in SUBSET P :
                 (\A p \in R, f \in fs : Alike(f, heap[p[1]][f], heap[p[2]][f], R))
                    => R \subseteq Indistinct(P, fs)
<1> DEFINE F == [R \in SUBSET P |-> Kept(R, fs)]
           Round(e) == [k \in Nat |-> IF k = 0 THEN P
                                      ELSE {p \in e[k - 1] : \A f \in fs :
                                             Alike(f, heap[p[1]][f], heap[p[2]][f], e[k - 1])}]
           eq == CHOOSE e : e = Round(e)
           last == CHOOSE k \in 0..Cardinality(P) : eq[k + 1] = eq[k]
<1>1. PICK e \in [Nat -> SUBSET P] : e[0] = P /\ \A k \in Nat : e[k + 1] = F[e[k]]
  <2> DEFINE T == SUBSET P
  <2>1. P \in T /\ F \in [T -> T]
    BY DEF Kept
  <2> HIDE DEF F, T
  <2>2. \E e \in [Nat -> T] : e[0] = P /\ \A k \in Nat : e[k + 1] = F[e[k]]
    BY <2>1, IterationExists
  <2> QED
    BY <2>2 DEF T
<1>2. ASSUME NEW k \in Nat PROVE e[k + 1] = Kept(e[k], fs)
  <2>1. e[k] \in SUBSET P
    OBVIOUS
  <2> QED
    BY <1>1, <2>1
<1>3. e = Round(e)
  <2>1. ASSUME NEW k \in Nat, k # 0 PROVE e[k] = Kept(e[k - 1], fs)
    <3>1. k - 1 \in Nat /\ (k - 1) + 1 = k
      BY <2>1
    <3>2. e[(k - 1) + 1] = Kept(e[k - 1], fs)
      BY <1>2, <3>1
    <3> QED
      BY <3>1, <3>2
  <2> HIDE DEF F
  <2> QED
    BY <1>1, <2>1 DEF Kept
<1>4. eq = Round(eq)
  <2> HIDE DEF Round
  <2> QED
    BY <1>3
<1>5. Indistinct(P, fs) = eq[last]
  BY DEF Indistinct
<1>6. eq[0] = P
  <2> HIDE DEF eq
  <2> QED
    BY <1>4
<1>7. ASSUME NEW k \in Nat PROVE eq[k + 1] = Kept(eq[k], fs)
  <2>1. k + 1 \in Nat /\ k + 1 # 0 /\ (k + 1) - 1 = k
    OBVIOUS
  <2>2. Round(eq)[k + 1] = Kept(eq[(k + 1) - 1], fs)
    <3> HIDE DEF eq
    <3> QED
      BY <2>1 DEF Kept
  <2> HIDE DEF eq, Round
  <2> QED
    BY <1>4, <2>1, <2>2
<1> HIDE DEF eq
<1>8. DOMAIN eq = Nat /\ eq = [k \in Nat |-> eq[k]]
  <2>1. eq = Round(eq) /\ DOMAIN Round(eq) = Nat
    BY <1>4
  <2> QED
    BY <2>1
<1>9. eq \in [Nat -> SUBSET P]
  <2> DEFINE S == {k \in Nat : eq[k] \in SUBSET P}
  <2>1. 0 \in S
    BY <1>6
  <2>2. ASSUME NEW k \in Nat, k \in S PROVE k + 1 \in S
    BY <1>7, <2>2 DEF Kept
  <2> HIDE DEF S
  <2>3. Nat \subseteq S
    BY <2>1, <2>2, AllNumbers
  <2> QED
    BY <1>8, <2>3 DEF S
<1>10. last \in 0..Cardinality(P) /\ eq[last + 1] = eq[last]
  <2>1. \A k \in Nat : eq[k + 1] \subseteq eq[k]
    BY <1>7 DEF Kept
  <2>2. \E k \in 0..Cardinality(P) : eq[k + 1] = eq[k]
    BY <1>9, <2>1, ShrinkingEnds
  <2> QED
    BY <2>2
<1> HIDE DEF last, Round, F
<1>11. last \in Nat
  BY <1>10, FS_CardinalityType
<1>12. eq[last] = Kept(eq[last], fs)
  BY <1>7, <1>10, <1>11
<1>13. ASSUME NEW R \in SUBSET P, \A p \in R, f \in fs : Alike(f, heap[p[1]][f], heap[p[2]][f], R)
       PROVE  R \subseteq eq[last]
  <2> DEFINE S == {k \in Nat : R \subseteq eq[k]}
  <2>1. 0 \in S
    BY <1>6
  <2>2. ASSUME NEW k \in Nat, k \in S PROVE k + 1 \in S
    <3>1. ASSUME NEW p \in R, NEW f \in fs PROVE Alike(f, heap[p[1]][f], heap[p[2]][f], eq[k])
      BY <1>13, <2>2, AlikeGrows
    <3> QED
      BY <1>7, <2>2, <3>1 DEF Kept
  <2> HIDE DEF S
  <2>3. last \in S
    BY <1>11, <2>1, <2>2, AllNumbers
  <2> QED
    BY <2>3 DEF S
<1> QED
  BY <1>5, <1>9, <1>11, <1>12, <1>13 DEF Kept
-----------------------------------------------------------------------------
(* Texts.                                                                  *)

HeapTyped == \A o \in Objects, f \in FieldSet : heap[o][f] \in ValuesOf(KindOf[f])

LEMMA Kinds ==
    ASSUME HeapTyped, NEW o \in Objects, NEW f \in FieldSet
    PROVE  \/ KindOf[f] = "leaf" /\ heap[o][f] \in Vals
           \/ KindOf[f] = "pointer" /\ heap[o][f] \in Pointer
           \/ KindOf[f] = "slice" /\ heap[o][f] \in Seq(Objects)
<1>1. KindOf[f] \in {"leaf", "pointer", "slice"}
  BY FieldsAssumption
<1> QED
  BY <1>1 DEF HeapTyped, ValuesOf

LEMMA PointeesOf ==
    ASSUME HeapTyped, NEW o \in Objects, NEW f \in FieldSet
    PROVE  /\ KindOf[f] = "pointer" /\ heap[o][f] # Nil => heap[o][f] \in Pointees(o)
           /\ KindOf[f] = "slice" => \A k \in 1..Len(heap[o][f]) : heap[o][f][k] \in Pointees(o)
           /\ Pointees(o) \subseteq Objects
<1> DEFINE To(g) == IF KindOf[g] = "pointer" THEN {heap[o][g]} \ {Nil} ELSE ToSet(heap[o][g])
<1>1. ASSUME KindOf[f] = "pointer", heap[o][f] # Nil PROVE heap[o][f] \in Pointees(o)
  <2>1. heap[o][f] \in To(f)
    BY <1>1
  <2>2. Pointees(o) = UNION {To(g) : g \in {h \in FieldSet : KindOf[h] # "leaf"}}
    BY DEF Pointees
  <2> HIDE DEF To
  <2> QED
    BY <1>1, <2>1, <2>2
<1>2. ASSUME KindOf[f] = "slice", NEW k \in 1..Len(heap[o][f]) PROVE heap[o][f][k] \in Pointees(o)
  <2>1. heap[o][f] \in Seq(Objects)
    BY <1>2, Kinds
  <2>2. heap[o][f][k] \in ToSet(heap[o][f])
    BY <1>2, <2>1 DEF ToSet
  <2> QED
    BY <1>2, <2>2 DEF Pointees
<1>3. ASSUME NEW g \in FieldSet, KindOf[g] # "leaf"
      PROVE  (IF KindOf[g] = "pointer" THEN {heap[o][g]} \ {Nil} ELSE ToSet(heap[o][g])) \subseteq Objects
  <2>1. CASE KindOf[g] = "pointer"
    BY <2>1, Kinds DEF Pointer
  <2>2. CASE KindOf[g] = "slice"
    <3>1. heap[o][g] \in Seq(Objects)
      BY <2>2, Kinds
    <3> QED
      BY <2>2, <3>1 DEF ToSet
  <2> QED
    BY <1>3, <2>1, <2>2, Kinds
<1>4. Pointees(o) \subseteq Objects
  BY <1>3 DEF Pointees
<1> QED
  BY <1>1, <1>2, <1>4

\* Within(o) is the least set that holds what o points to, and what its members do.
LEMMA WithinIsLeast ==
    ASSUME HeapTyped, NEW o \in Objects
    PROVE  /\ Within(o) \in SUBSET Objects /\ Pointees(o) \subseteq Within(o)
           /\ \A x \in Within(o) : Pointees(x) \subseteq Within(o)
           /\ \A C \in SUBSET Objects :
                Pointees(o) \subseteq C /\ (\A x \in C : Pointees(x) \subseteq C) => Within(o) \subseteq C
<1> DEFINE More(X) == X \cup UNION {Pointees(x) : x \in X}
           T == SUBSET Objects
           F == [X \in T |-> More(X)]
           Round(e) == [k \in Nat |-> IF k = 0 THEN Pointees(o)
                                      ELSE e[k - 1] \cup UNION {Pointees(x) : x \in e[k - 1]}]
           w == CHOOSE e : e = Round(e)
<1>1. ASSUME NEW x \in Objects PROVE Pointees(x) \subseteq Objects
  <2>1. CASE FieldSet = {}
    BY <2>1 DEF Pointees
  <2>2. CASE FieldSet # {}
    BY <2>2, PointeesOf
  <2> QED
    BY <2>1, <2>2
<1>2. PICK e \in [Nat -> T] : e[0] = Pointees(o) /\ \A k \in Nat : e[k + 1] = F[e[k]]
  <2>1. Pointees(o) \in T /\ F \in [T -> T]
    BY <1>1
  <2> HIDE DEF F, T
  <2> QED
    BY <2>1, IterationExists
<1>3. ASSUME NEW k \in Nat PROVE e[k + 1] = More(e[k])
  <2>1. e[k] \in T
    OBVIOUS
  <2> HIDE DEF T, More
  <2> QED
    BY <1>2, <2>1
<1>4. e = Round(e)
  <2>1. ASSUME NEW k \in Nat, k # 0 PROVE e[k] = More(e[k - 1])
    <3>1. k - 1 \in Nat /\ (k - 1) + 1 = k
      BY <2>1
    <3>2. e[(k - 1) + 1] = More(e[k - 1])
      BY <1>3, <3>1
    <3> QED
      BY <3>1, <3>2
  <2> HIDE DEF F, T
  <2> QED
    BY <1>2, <2>1
<1>5. w = Round(w)
  <2> HIDE DEF Round
  <2> QED
    BY <1>4
<1>6. Within(o) = w[Cardinality(Objects)]
  BY DEF Within
<1> HIDE DEF w
<1>7. w[0] = Pointees(o)
  BY <1>5
<1>8. ASSUME NEW k \in Nat PROVE w[k + 1] = More(w[k])
  <2>1. k + 1 \in Nat /\ k + 1 # 0 /\ (k + 1) - 1 = k
    OBVIOUS
  <2>2. Round(w)[k + 1] = More(w[(k + 1) - 1])
    BY <2>1
  <2> HIDE DEF Round, More
  <2> QED
    BY <1>5, <2>1, <2>2
<1>9. w = [k \in Nat |-> w[k]]
  <2>1. w = Round(w) /\ DOMAIN Round(w) = Nat
    BY <1>5
  <2> QED
    BY <2>1
<1>10. ASSUME NEW C \in SUBSET Objects, Pointees(o) \subseteq C, \A x \in C : Pointees(x) \subseteq C,
              NEW n \in Nat
       PROVE  w[n] \subseteq C
  <2> DEFINE S == {k \in Nat : w[k] \subseteq C}
  <2>1. 0 \in S
    BY <1>7, <1>10
  <2>2. ASSUME NEW k \in Nat, k \in S PROVE k + 1 \in S
    BY <1>8, <1>10, <2>2
  <2> HIDE DEF S
  <2>3. n \in S
    BY <2>1, <2>2, AllNumbers
  <2> QED
    BY <2>3 DEF S
<1>11. w \in [Nat -> SUBSET Objects]
  <2>1. Pointees(o) \subseteq Objects /\ \A x \in Objects : Pointees(x) \subseteq Objects
    BY <1>1
  <2>2. \A k \in Nat : w[k] \in SUBSET Objects
    BY <1>10, <2>1
  <2> QED
    BY <1>9, <2>2
<1> DEFINE c == Cardinality(Objects)
<1>12. c \in Nat
  BY HeapsAssumption, FS_CardinalityType
<1> HIDE DEF Round, F, T
<1>13. w[c + 1] = w[c]
  <2>1. \A k \in Nat : w[k] \subseteq w[k + 1]
    BY <1>8
  <2>2. \A k \in Nat : w[k + 1] = w[k] => w[(k + 1) + 1] = w[k + 1]
    <3> SUFFICES ASSUME NEW k \in Nat, w[k + 1] = w[k] PROVE w[(k + 1) + 1] = w[k + 1]
      OBVIOUS
    <3>1. k + 1 \in Nat
      OBVIOUS
    <3>2. w[(k + 1) + 1] = More(w[k + 1]) /\ w[k + 1] = More(w[k])
      BY <1>8, <3>1
    <3> HIDE DEF More
    <3> QED
      BY <3>2
  <2>3. IsFiniteSet(Objects)
    BY HeapsAssumption
  <2> QED
    BY <1>11, <2>1, <2>2, <2>3, GrowthEnds
<1>14. ASSUME NEW x \in w[c] PROVE Pointees(x) \subseteq w[c]
  BY <1>8, <1>12, <1>13
<1>15. Pointees(o) \subseteq w[c]
  <2> DEFINE S == {k \in Nat : Pointees(o) \subseteq w[k]}
  <2>1. 0 \in S
    BY <1>7
  <2>2. ASSUME NEW k \in Nat, k \in S PROVE k + 1 \in S
    BY <1>8, <2>2
  <2> HIDE DEF S
  <2>3. c \in S
    BY <1>12, <2>1, <2>2, AllNumbers
  <2> QED
    BY <2>3 DEF S
<1>16. w[c] \in SUBSET Objects
  BY <1>11, <1>12
<1> HIDE DEF More, c
<1> QED
  BY <1>6, <1>10, <1>12, <1>14, <1>15, <1>16 DEF c

\* What a struct without a cycle leads to has none.
LEMMA ChildAcyclic ==
    ASSUME HeapTyped, NEW o \in Objects, ~Cyclic(o), NEW c \in Pointees(o)
    PROVE  c \in Objects /\ ~Cyclic(c)
<1>1. /\ Within(o) \in SUBSET Objects /\ Pointees(o) \subseteq Within(o)
      /\ \A x \in Within(o) : Pointees(x) \subseteq Within(o)
  BY WithinIsLeast
<1>2. c \in Objects /\ c \in Within(o)
  BY <1>1
<1>3. Within(c) \subseteq Within(o)
  BY <1>1, <1>2, WithinIsLeast
<1> QED
  BY <1>2, <1>3 DEF Cyclic
-----------------------------------------------------------------------------
LEMMA PairsFinite == IsFiniteSet(Objects \X Objects)
BY HeapsAssumption, FS_Product

LEMMA TextReflexive ==
    ASSUME HeapTyped, NEW x
    PROVE  SameText(x, x)
<1> DEFINE R == {p \in Objects \X Objects : p[1] = p[2]}
           all == Indistinct(Objects \X Objects, FieldSet)
<1>1. CASE x \in Objects
  <2>1. ASSUME NEW p \in R, NEW f \in FieldSet PROVE Alike(f, heap[p[1]][f], heap[p[2]][f], R)
    <3>1. p[1] \in Objects /\ p[2] = p[1]
      OBVIOUS
    <3>2. CASE KindOf[f] = "slice"
      <4>1. heap[p[1]][f] \in Seq(Objects)
        BY <3>1, <3>2, Kinds
      <4> QED
        BY <3>1, <3>2, <4>1 DEF Alike
    <3> QED
      BY <3>1, <3>2, FieldsAssumption DEF Alike
  <2>2. R \in SUBSET (Objects \X Objects)
    OBVIOUS
  <2>3. <<x, x>> \in R
    BY <1>1
  <2> HIDE DEF R
  <2>4. R \subseteq all
    BY <2>1, <2>2, PairsFinite, IndistinctIsLargest
  <2> HIDE DEF all
  <2>5. <<x, x>> \in all
    BY <2>3, <2>4
  <2> QED
    BY <1>1, <2>5 DEF SameText, all
<1> QED
  BY <1>1 DEF SameText

\* The pairs of structs with equal texts.
Texts == {p \in Objects \X Objects : SameText(p[1], p[2])}

\* Of two structs with equal texts, every field has equal texts, and leads from
\* such pairs to such pairs.
LEMMA TextsAgree ==
    ASSUME HeapTyped, NEW p \in Texts, NEW f \in FieldSet
    PROVE  /\ Alike(f, heap[p[1]][f], heap[p[2]][f], Texts)
           /\ SameTexts(KindOf[f], heap[p[1]][f], heap[p[2]][f])
<1> DEFINE x == p[1]
           y == p[2]
           all == Indistinct(Objects \X Objects, FieldSet)
<1>1. x \in Objects /\ y \in Objects /\ SameText(x, y)
  BY DEF Texts
<1> HIDE DEF x, y, all
<1>2. \/ heap[x] = heap[y]
      \/ ~Cyclic(x) /\ ~Cyclic(y) /\ <<x, y>> \in all
  BY <1>1 DEF SameText, all
<1>3. CASE heap[x] = heap[y]
  <2>1. ASSUME KindOf[f] = "slice", NEW k \in 1..Len(heap[x][f])
        PROVE  <<heap[x][f][k], heap[y][f][k]>> \in Texts
    <3>1. heap[x][f] \in Seq(Objects)
      BY <1>1, <2>1, Kinds
    <3>2. heap[x][f][k] \in Objects
      BY <2>1, <3>1
    <3>3. SameText(heap[x][f][k], heap[x][f][k])
      BY TextReflexive
    <3> QED
      BY <1>3, <3>2, <3>3 DEF Texts
  <2>2. Alike(f, heap[x][f], heap[y][f], Texts)
    BY <1>3, <2>1, FieldsAssumption DEF Alike
  <2>3. SameText(heap[x][f], heap[y][f])
    BY <1>3, TextReflexive
  <2>4. SameTexts(KindOf[f], heap[x][f], heap[y][f])
    BY <1>3, <2>3 DEF SameTexts
  <2> QED
    BY <2>2, <2>4 DEF x, y
<1>4. CASE ~Cyclic(x) /\ ~Cyclic(y) /\ <<x, y>> \in all
  <2>1. Alike(f, heap[x][f], heap[y][f], all)
    <3>1. \A q \in all, g \in FieldSet : Alike(g, heap[q[1]][g], heap[q[2]][g], all)
      BY PairsFinite, IndistinctIsLargest DEF all
    <3> QED
      BY <1>4, <3>1
  <2>2. all \subseteq Objects \X Objects
    BY PairsFinite, IndistinctIsLargest DEF all
  <2>3. ASSUME NEW u \in Pointees(x), NEW v \in Pointees(y), <<u, v>> \in all
        PROVE  SameText(u, v) /\ <<u, v>> \in Texts /\ ~Cyclic(u) /\ ~Cyclic(v)
    <3>1. u \in Objects /\ v \in Objects /\ ~Cyclic(u) /\ ~Cyclic(v)
      BY <1>1, <1>4, <2>3, ChildAcyclic
    <3>2. SameText(u, v)
      BY <2>3, <3>1 DEF SameText, all
    <3> QED
      BY <3>1, <3>2 DEF Texts
  <2>4. CASE KindOf[f] = "leaf"
    <3>1. heap[x][f] = heap[y][f]
      BY <2>1, <2>4 DEF Alike
    <3>2. SameText(heap[x][f], heap[y][f])
      BY <3>1, TextReflexive
    <3> QED
      BY <2>4, <3>1, <3>2 DEF Alike, SameTexts, x, y
  <2>5. CASE KindOf[f] = "pointer"
    <3>1. CASE heap[x][f] = heap[y][f]
      <4>1. SameText(heap[x][f], heap[y][f])
        BY <3>1, TextReflexive
      <4> QED
        BY <2>5, <3>1, <4>1 DEF Alike, SameTexts, x, y
    <3>2. CASE <<heap[x][f], heap[y][f]>> \in all
      <4>1. heap[x][f] \in Objects /\ heap[y][f] \in Objects
        BY <2>2, <3>2
      <4>2. heap[x][f] \in Pointees(x) /\ heap[y][f] \in Pointees(y)
        BY <1>1, <2>5, <4>1, PointeesOf, HeapsAssumption
      <4>3. SameText(heap[x][f], heap[y][f]) /\ <<heap[x][f], heap[y][f]>> \in Texts
        BY <2>3, <3>2, <4>2
      <4> QED
        BY <2>5, <4>3 DEF Alike, SameTexts, x, y
    <3> QED
      BY <2>1, <2>5, <3>1, <3>2 DEF Alike
  <2>6. CASE KindOf[f] = "slice"
    <3> DEFINE s == heap[x][f]
               t == heap[y][f]
    <3>1. Len(s) = Len(t) /\ \A k \in 1..Len(s) : <<s[k], t[k]>> \in all
      BY <2>1, <2>6 DEF Alike
    <3>2. s \in Seq(Objects) /\ t \in Seq(Objects)
      BY <1>1, <2>6, Kinds
    <3>3. ASSUME NEW k \in 1..Len(s) PROVE s[k] \in Pointees(x) /\ t[k] \in Pointees(y)
      BY <1>1, <2>6, <3>1, PointeesOf
    <3> HIDE DEF s, t
    <3>4. \A k \in 1..Len(s) : /\ SameText(s[k], t[k]) /\ <<s[k], t[k]>> \in Texts
                               /\ ~Cyclic(s[k]) /\ ~Cyclic(t[k])
      BY <2>3, <3>1, <3>3
    <3>5. Alike(f, s, t, Texts)
      BY <2>6, <3>1, <3>4 DEF Alike
    <3>6. \A u \in ToSet(s) \cup ToSet(t) : ~Cyclic(u)
      <4>1. DOMAIN s = 1..Len(s) /\ DOMAIN t = 1..Len(s)
        BY <3>1, <3>2
      <4>2. ToSet(s) = {s[k] : k \in 1..Len(s)} /\ ToSet(t) = {t[k] : k \in 1..Len(s)}
        BY <4>1 DEF ToSet
      <4> QED
        BY <3>4, <4>2
    <3>7. SameTexts("slice", s, t)
      BY <3>1, <3>4, <3>6 DEF SameTexts
    <3> QED
      BY <2>6, <3>5, <3>7 DEF s, t, x, y
  <2> QED
    BY <2>4, <2>5, <2>6, FieldsAssumption
<1> QED
  BY <1>2, <1>3, <1>4
-----------------------------------------------------------------------------
(* ShownFields.                                                            *)

\* t are the shown fields of the first k, in their order.
ShownTo(k, t) ==
    /\ t \in Seq(Shown)
    /\ \A n \in 1..Len(t) : \E l \in 1..k : t[n] = Fields[l]
    /\ \A l \in 1..k : Fields[l] \in Shown => \E n \in 1..Len(t) : t[n] = Fields[l]
    /\ \A m, n \in 1..Len(t) : t[m] = t[n] => m = n

LEMMA ShownFieldsAre ==
    /\ ShownFields \in Seq(Shown)
    /\ \A f \in Shown : \E n \in 1..Len(ShownFields) : ShownFields[n] = f
    /\ \A m, n \in 1..Len(ShownFields) : ShownFields[m] = ShownFields[n] => m = n
<1> DEFINE len == Len(Fields)
           Longer(t, f) == IF TagOf[f] = "-" THEN t ELSE Append(t, f)
           T == Nat \X Seq(FieldSet)
           F == [x \in T |-> IF x[1] + 1 \in 1..len THEN <<x[1] + 1, Longer(x[2], Fields[x[1] + 1])>>
                             ELSE <<x[1] + 1, x[2]>>]
           Round(s) == [k \in 0..len |-> IF k = 0 THEN <<>>
                                         ELSE IF TagOf[Fields[k]] = "-" THEN s[k - 1]
                                              ELSE Append(s[k - 1], Fields[k])]
           s == CHOOSE e : e = Round(e)
<1>1. len \in Nat /\ \A k \in 1..len : Fields[k] \in FieldSet
  BY FieldsAssumption
<1> DEFINE start == <<0, <<>>>>
<1> HIDE DEF len
<1>13. start[1] = 0 /\ start[2] = <<>>
  OBVIOUS
<1>2. PICK e \in [Nat -> T] : e[0] = start /\ \A k \in Nat : e[k + 1] = F[e[k]]
  <2>1. start \in T
    <3>1. <<>> \in Seq(FieldSet)
      BY EmptySeq
    <3> QED
      BY <3>1
  <2>2. ASSUME NEW x \in T PROVE F[x] \in T
    <3>1. x[1] \in Nat /\ x[1] + 1 \in Nat /\ x[2] \in Seq(FieldSet)
      OBVIOUS
    <3>2. ASSUME x[1] + 1 \in 1..len PROVE Longer(x[2], Fields[x[1] + 1]) \in Seq(FieldSet)
      BY <1>1, <3>1, <3>2
    <3> HIDE DEF Longer
    <3> QED
      BY <3>1, <3>2
  <2>3. F = [x \in T |-> F[x]]
    OBVIOUS
  <2> HIDE DEF F, T, start
  <2>4. F \in [T -> T]
    BY <2>2, <2>3
  <2> QED
    BY <2>1, <2>4, IterationExists
<1> HIDE DEF start
<1>3. \A k \in Nat : e[k][1] = k /\ e[k] \in T
  <2> DEFINE S == {k \in Nat : e[k][1] = k}
  <2>1. 0 \in S
    BY <1>2, <1>13
  <2>2. ASSUME NEW k \in Nat, k \in S PROVE k + 1 \in S
    <3>1. e[k] \in T /\ e[k][1] = k /\ e[k + 1] = F[e[k]]
      BY <1>2, <2>2
    <3>2. F[e[k]][1] = e[k][1] + 1
      BY <3>1
    <3> HIDE DEF F, T
    <3> QED
      BY <2>2, <3>1, <3>2
  <2> HIDE DEF S
  <2>3. Nat \subseteq S
    BY <2>1, <2>2, AllNumbers
  <2> QED
    BY <1>2, <2>3 DEF S
<1>4. \E r : r = Round(r)
  <2> DEFINE r == [k \in 0..len |-> e[k][2]]
  <2>1. ASSUME NEW k \in 0..len, k # 0 PROVE e[k][2] = Longer(e[k - 1][2], Fields[k])
    <3>1. k - 1 \in Nat /\ (k - 1) + 1 = k /\ k \in 1..len
      BY <1>1, <2>1
    <3>2. e[k - 1] \in T /\ e[k - 1][1] = k - 1 /\ e[(k - 1) + 1] = F[e[k - 1]]
      BY <1>2, <1>3, <3>1
    <3>3. e[k] = <<k, Longer(e[k - 1][2], Fields[k])>>
      BY <3>1, <3>2
    <3> QED
      BY <3>3
  <2>2. \A k \in 0..len : r[k] = e[k][2]
    OBVIOUS
  <2>3. e[0][2] = <<>>
    BY <1>2, <1>13
  <2> HIDE DEF r
  <2>4. \A k \in 0..len : k # 0 => k - 1 \in 0..len
    BY <1>1
  <2>5. r = [k \in 0..len |-> IF k = 0 THEN <<>> ELSE Longer(r[k - 1], Fields[k])]
    <3> HIDE DEF Longer
    <3> QED
      BY <2>1, <2>2, <2>3, <2>4 DEF r
  <2>6. r = Round(r)
    BY <2>5
  <2> QED
    BY <2>6
<1>5. s = Round(s)
  <2> HIDE DEF Round
  <2> QED
    BY <1>4
<1>6. ShownFields = s[len]
  BY DEF ShownFields, len
<1> HIDE DEF s, F, T
<1>7. s[0] = <<>> /\ \A k \in 1..len : s[k] = Longer(s[k - 1], Fields[k])
  <2>1. 0 \in 0..len /\ \A k \in 1..len : k \in 0..len /\ k # 0
    BY <1>1
  <2>2. Round(s)[0] = <<>>
    BY <2>1
  <2>3. ASSUME NEW k \in 1..len PROVE Round(s)[k] = Longer(s[k - 1], Fields[k])
    BY <2>1
  <2> HIDE DEF Round, Longer
  <2> QED
    BY <1>5, <2>2, <2>3
<1> HIDE DEF Round
<1> DEFINE S == {k \in Nat : k <= len => ShownTo(k, s[k])}
<1>8. 0 \in S
  <2>1. <<>> \in Seq(Shown) /\ Len(<<>>) = 0
    BY EmptySeq
  <2>2. ShownTo(0, <<>>)
    BY <2>1 DEF ShownTo
  <2> QED
    BY <1>7, <2>2
<1>9. ASSUME NEW k \in Nat, k \in S PROVE k + 1 \in S
  <2> SUFFICES ASSUME k + 1 <= len PROVE ShownTo(k + 1, s[k + 1])
    OBVIOUS
  <2> DEFINE t == s[k]
             f == Fields[k + 1]
  <2>1. k + 1 \in 1..len /\ (k + 1) - 1 = k /\ ShownTo(k, t) /\ f \in FieldSet
    BY <1>1, <1>9
  <2>2. s[k + 1] = Longer(t, f)
    BY <1>7, <2>1
  <2>3. \A l \in 1..(k + 1) : l \in 1..k \/ l = k + 1
    OBVIOUS
  <2>4. 1..k \subseteq 1..(k + 1) /\ k + 1 \in 1..(k + 1)
    OBVIOUS
  <2>5. CASE TagOf[f] = "-"
    <3>1. s[k + 1] = t /\ f \notin Shown
      BY <2>2, <2>5 DEF Shown
    <3> HIDE DEF t
    <3> QED
      BY <2>1, <2>3, <2>4, <3>1 DEF ShownTo
  <2>6. CASE TagOf[f] # "-"
    <3>1. f \in Shown /\ s[k + 1] = Append(t, f)
      BY <2>1, <2>2, <2>6 DEF Shown
    <3>2. ASSUME NEW l \in 1..k PROVE Fields[l] # f
      <4>1. l \in 1..len /\ l # k + 1
        BY <1>1, <2>1
      <4> QED
        BY <2>1, <4>1, FieldsAssumption DEF len
    <3> HIDE DEF t, f
    <3>3. t \in Seq(Shown) /\ Len(t) \in Nat
      BY <2>1 DEF ShownTo
    <3> DEFINE u == Append(t, f)
    <3>4. /\ u \in Seq(Shown) /\ Len(u) = Len(t) + 1 /\ u[Len(t) + 1] = f
          /\ \A n \in 1..Len(t) : u[n] = t[n]
      BY <3>1, <3>3
    <3>5. \A n \in 1..Len(u) : n \in 1..Len(t) \/ n = Len(t) + 1
      BY <3>3, <3>4
    <3>6. \A n \in 1..Len(t) : n \in 1..Len(u)
      BY <3>3, <3>4
    <3>7. Len(t) + 1 \in 1..Len(u)
      BY <3>3, <3>4
    <3> HIDE DEF u
    <3>8. ASSUME NEW n \in 1..Len(u) PROVE \E l \in 1..(k + 1) : u[n] = Fields[l]
      <4>1. CASE n \in 1..Len(t)
        BY <2>1, <2>4, <3>4, <4>1 DEF ShownTo
      <4>2. CASE n = Len(t) + 1
        BY <2>4, <3>4, <4>2 DEF f
      <4> QED
        BY <3>5, <4>1, <4>2
    <3>9. ASSUME NEW l \in 1..(k + 1), Fields[l] \in Shown PROVE \E n \in 1..Len(u) : u[n] = Fields[l]
      <4>1. CASE l \in 1..k
        BY <2>1, <3>4, <3>6, <3>9, <4>1 DEF ShownTo
      <4>2. CASE l = k + 1
        BY <3>4, <3>7, <4>2 DEF f
      <4> QED
        BY <2>3, <4>1, <4>2
    <3>10. ASSUME NEW n \in 1..Len(t) PROVE t[n] # f
      BY <2>1, <3>2 DEF ShownTo
    <3>11. ASSUME NEW m \in 1..Len(u), NEW n \in 1..Len(u), u[m] = u[n] PROVE m = n
      <4>1. CASE m \in 1..Len(t) /\ n \in 1..Len(t)
        BY <2>1, <3>4, <3>11, <4>1 DEF ShownTo
      <4>2. CASE m = Len(t) + 1 /\ n \in 1..Len(t)
        BY <3>4, <3>10, <3>11, <4>2
      <4>3. CASE n = Len(t) + 1 /\ m \in 1..Len(t)
        BY <3>4, <3>10, <3>11, <4>3
      <4> QED
        BY <3>5, <4>1, <4>2, <4>3
    <3>12. ShownTo(k + 1, u)
      BY <3>4, <3>8, <3>9, <3>11 DEF ShownTo
    <3> QED
      BY <3>1, <3>12 DEF u
  <2> QED
    BY <2>5, <2>6
<1> HIDE DEF S
<1>10. len \in S
  BY <1>1, <1>8, <1>9, AllNumbers
<1>11. ShownTo(len, ShownFields)
  BY <1>1, <1>6, <1>10 DEF S
<1>12. ASSUME NEW f \in Shown PROVE \E l \in 1..len : Fields[l] = f
  <2>1. f \in FieldSet
    BY DEF Shown
  <2>2. FieldSet = {Fields[l] : l \in 1..len}
    <3>1. DOMAIN Fields = 1..len
      BY FieldsAssumption DEF len
    <3> QED
      BY <3>1 DEF FieldSet, ToSet
  <2> QED
    BY <2>1, <2>2
<1> QED
  BY <1>11, <1>12 DEF ShownTo
-----------------------------------------------------------------------------
(* At.                                                                     *)

Places == Seq(FieldSet \X Nat)

\* Where one step leads.
Go(x, step) ==
    LET y == heap[x][step[1]] IN IF step[2] = 0 THEN y ELSE y[step[2]]

\* v are the values on the way along the first k steps.
Along(v, o, path, k) ==
    /\ v[0] = o
    /\ \A l \in 1..k : v[l] = Go(v[l - 1], path[l])

LEMMA AtIsAlong ==
    ASSUME NEW o, NEW path \in Places
    PROVE  \E v : Along(v, o, path, Len(path)) /\ At(o, path) = v[Len(path)]
<1> DEFINE len == Len(path)
           Round(s) == [k \in 0..len |-> IF k = 0 THEN o ELSE Go(s[k - 1], path[k])]
           v == CHOOSE e : e = Round(e)
           S == {k \in Nat : k <= len => \E g : DOMAIN g = 0..k /\ Along(g, o, path, k)}
<1>1. len \in Nat
  BY DEF Places
<1> HIDE DEF len
<1>2. 0 \in S
  <2> DEFINE g == [l \in 0..0 |-> o]
  <2>1. DOMAIN g = 0..0 /\ Along(g, o, path, 0)
    BY DEF Along
  <2> QED
    BY <2>1
<1>3. ASSUME NEW k \in Nat, k \in S PROVE k + 1 \in S
  <2> SUFFICES ASSUME k + 1 <= len PROVE \E g : DOMAIN g = 0..(k + 1) /\ Along(g, o, path, k + 1)
    OBVIOUS
  <2>1. PICK g : DOMAIN g = 0..k /\ Along(g, o, path, k)
    BY <1>1, <1>3
  <2> DEFINE h == [l \in 0..(k + 1) |-> IF l = k + 1 THEN Go(g[k], path[k + 1]) ELSE g[l]]
  <2>2. /\ DOMAIN h = 0..(k + 1) /\ h[k + 1] = Go(g[k], path[k + 1])
        /\ \A l \in 0..k : h[l] = g[l]
    BY <1>3
  <2> HIDE DEF h
  <2>3. h[0] = o
    BY <1>3, <2>1, <2>2 DEF Along
  <2>4. ASSUME NEW l \in 1..(k + 1) PROVE h[l] = Go(h[l - 1], path[l])
    <3>1. CASE l = k + 1
      <4>1. l - 1 = k /\ k \in 0..k
        BY <1>3, <3>1
      <4> QED
        BY <2>2, <3>1, <4>1
    <3>2. CASE l # k + 1
      <4>1. l \in 1..k /\ l \in 0..k /\ l - 1 \in 0..k
        BY <1>3, <3>2
      <4> QED
        BY <2>1, <2>2, <4>1 DEF Along
    <3> QED
      BY <3>1, <3>2
  <2> QED
    BY <2>2, <2>3, <2>4 DEF Along
<1> HIDE DEF S
<1>4. len \in S
  BY <1>1, <1>2, <1>3, AllNumbers
<1>5. \E e : e = Round(e)
  <2>1. PICK g : DOMAIN g = 0..len /\ Along(g, o, path, len)
    BY <1>1, <1>4 DEF S
  <2> DEFINE e == [k \in 0..len |-> g[k]]
  <2>2. \A k \in 0..len : e[k] = g[k]
    OBVIOUS
  <2>3. \A k \in 0..len : k # 0 => k \in 1..len /\ k - 1 \in 0..len
    BY <1>1
  <2>4. \A k \in 0..len : g[k] = IF k = 0 THEN o ELSE Go(e[k - 1], path[k])
    BY <2>1, <2>2, <2>3 DEF Along
  <2>5. e = Round(e)
    <3> DEFINE val(k) == IF k = 0 THEN o ELSE Go(e[k - 1], path[k])
    <3>1. e = [k \in 0..len |-> val(k)]
      <4> HIDE DEF val
      <4>1. \A k \in 0..len : g[k] = val(k)
        BY <2>4 DEF val
      <4> QED
        BY <4>1
    <3> QED
      BY <3>1
  <2> QED
    BY <2>5
<1>6. v = Round(v)
  <2> HIDE DEF Round
  <2> QED
    BY <1>5
<1>7. At(o, path) = v[len]
  BY DEF At, Go, len
<1> HIDE DEF v
<1>8. Along(v, o, path, len)
  <2>1. 0 \in 0..len /\ \A k \in 1..len : k \in 0..len /\ k # 0
    BY <1>1
  <2>2. Round(v)[0] = o
    BY <2>1
  <2>3. ASSUME NEW k \in 1..len PROVE Round(v)[k] = Go(v[k - 1], path[k])
    BY <2>1
  <2> HIDE DEF Round
  <2> QED
    BY <1>6, <2>2, <2>3 DEF Along
<1> QED
  BY <1>7, <1>8 DEF len

LEMMA AlongAgree ==
    ASSUME NEW o, NEW p, NEW q, NEW u, NEW v, NEW k \in Nat,
           Along(u, o, p, k), Along(v, o, q, k), \A l \in 1..k : p[l] = q[l]
    PROVE  u[k] = v[k]
<1> DEFINE S == {l \in Nat : l <= k => u[l] = v[l]}
<1>1. 0 \in S
  BY DEF Along
<1>2. ASSUME NEW l \in Nat, l \in S PROVE l + 1 \in S
  <2>1. CASE l + 1 <= k
    <3>1. l + 1 \in 1..k /\ (l + 1) - 1 = l /\ u[l] = v[l]
      BY <1>2, <2>1
    <3> QED
      BY <1>2, <3>1 DEF Along
  <2> QED
    BY <1>2, <2>1
<1> HIDE DEF S
<1>3. k \in S
  BY <1>1, <1>2, AllNumbers
<1> QED
  BY <1>3 DEF S

LEMMA AlongLess ==
    ASSUME NEW o, NEW p, NEW v, NEW k \in Nat, NEW l \in Nat, l <= k, Along(v, o, p, k)
    PROVE  Along(v, o, p, l)
<1>1. 1..l \subseteq 1..k
  OBVIOUS
<1> QED
  BY <1>1 DEF Along

\* The empty path, and one more step.
LEMMA AtNothing == ASSUME NEW o PROVE At(o, <<>>) = o
<1>1. <<>> \in Places /\ Len(<<>>) = 0
  BY EmptySeq DEF Places
<1> QED
  BY <1>1, AtIsAlong DEF Along

LEMMA AtStep ==
    ASSUME NEW o, NEW path \in Places, NEW step \in FieldSet \X Nat
    PROVE  At(o, Append(path, step)) = Go(At(o, path), step)
<1> DEFINE more == Append(path, step)
           len == Len(path)
<1>1. /\ len \in Nat /\ more \in Places /\ Len(more) = len + 1 /\ more[len + 1] = step
      /\ \A l \in 1..len : more[l] = path[l]
  BY DEF Places
<1> HIDE DEF more
<1>2. PICK u : Along(u, o, path, len) /\ At(o, path) = u[len]
  BY AtIsAlong
<1>3. PICK v : Along(v, o, more, len + 1) /\ At(o, more) = v[len + 1]
  BY <1>1, AtIsAlong
<1> HIDE DEF len
<1>4. Along(v, o, more, len)
  BY <1>1, <1>3, AlongLess
<1>5. u[len] = v[len]
  BY <1>1, <1>2, <1>4, AlongAgree
<1>6. v[len + 1] = Go(v[len], step)
  <2>1. len + 1 \in 1..(len + 1) /\ (len + 1) - 1 = len
    BY <1>1
  <2> QED
    BY <1>1, <1>3, <2>1 DEF Along
<1> QED
  BY <1>2, <1>3, <1>5, <1>6 DEF more

\* The k-th element of the slice that a path leads to.
ElementPath(path, k) == [path EXCEPT ![Len(path)] = <<@[1], k>>]

LEMMA AtElement ==
    ASSUME NEW o, NEW path \in Places, path # <<>>, path[Len(path)][2] = 0, NEW k \in Nat \ {0}
    PROVE  /\ ElementPath(path, k) \in Places /\ ElementPath(path, k) # <<>>
           /\ Len(ElementPath(path, k)) = Len(path)
           /\ ElementPath(path, k)[Len(path)] = <<path[Len(path)][1], k>>
           /\ At(o, ElementPath(path, k)) = At(o, path)[k]
<1> DEFINE len == Len(path)
           elem == ElementPath(path, k)
           step == <<path[len][1], k>>
<1>1. len \in Nat \ {0} /\ path[len] \in FieldSet \X Nat
  BY EmptySeq DEF Places
<1>2. step \in FieldSet \X Nat
  BY <1>1
<1>3. elem = [path EXCEPT ![len] = step]
  BY DEF ElementPath
<1> HIDE DEF elem, step
<1>4. /\ elem \in Places /\ Len(elem) = len /\ elem[len] = step
      /\ \A l \in 1..len : l # len => elem[l] = path[l]
  BY <1>1, <1>2, <1>3 DEF Places
<1>5. PICK u : Along(u, o, path, len) /\ At(o, path) = u[len]
  BY AtIsAlong
<1>6. PICK v : Along(v, o, elem, len) /\ At(o, elem) = v[len]
  BY <1>4, AtIsAlong
<1> HIDE DEF len
<1>7. len - 1 \in Nat /\ len - 1 <= len /\ len \in 1..len
  BY <1>1
<1>8. Along(u, o, path, len - 1) /\ Along(v, o, elem, len - 1)
  BY <1>1, <1>5, <1>6, <1>7, AlongLess
<1>9. u[len - 1] = v[len - 1]
  <2>1. \A l \in 1..(len - 1) : path[l] = elem[l]
    BY <1>1, <1>4
  <2> QED
    BY <1>7, <1>8, <2>1, AlongAgree
<1>10. u[len] = Go(u[len - 1], path[len]) /\ v[len] = Go(v[len - 1], step)
  BY <1>4, <1>5, <1>6, <1>7 DEF Along
<1>11. step[1] = path[len][1] /\ step[2] = k /\ k # 0
  BY DEF step
<1>12. path[len][2] = 0
  BY DEF len
<1>13. Go(v[len - 1], step) = Go(u[len - 1], path[len])[k]
  BY <1>9, <1>11, <1>12 DEF Go
<1>14. At(o, elem) = At(o, path)[k]
  BY <1>5, <1>6, <1>10, <1>13
<1>15. elem # <<>>
  BY <1>1, <1>4, EmptySeq
<1> QED
  BY <1>4, <1>14, <1>15 DEF len, elem, step
-----------------------------------------------------------------------------
(* Types.                                                                  *)

Value == Vals \cup Pointer \cup Seq(Objects)

Calls == [path : Places, of : Pointer \X Pointer, kind : {"leaf", "pointer", "slice"},
          masked : BOOLEAN, b : Value, a : Value, i : Nat, j : Nat]

Changes == [path : Places, of : Pointer \X Pointer, from : Value \cup {Mask}, to : Value \cup {Mask}]

\* The values of a call are of its kind; a slice is a field, and the call is inside it.
Fits(c) ==
    /\ c.b \in ValuesOf(c.kind) /\ c.a \in ValuesOf(c.kind)
    /\ c.kind = "slice" => /\ c.i <= Len(c.b) /\ c.j <= Len(c.a)
                           /\ c.path # <<>> /\ c.path[Len(c.path)][2] = 0

CallsIn(s) == {s[k] : k \in 1..Len(s)}

Typing ==
    /\ HeapTyped
    /\ root \in Pointer \X Pointer
    /\ visited \in SUBSET (Objects \X Objects)
    /\ stack \in Seq(Calls) /\ \A c \in CallsIn(stack) : Fits(c)
    /\ out \in Seq(Changes)

LEMMA ValuesAreValues ==
    /\ Objects \subseteq Value /\ Pointer \subseteq Value /\ Nil \in Value /\ Nil \in Pointer
    /\ \A kind \in {"leaf", "pointer", "slice"} : ValuesOf(kind) \subseteq Value
BY DEF Value, Pointer, ValuesOf

\* What a step that replaces the innermost call by others leaves on the stack.
LEMMA Pushed ==
    ASSUME stack \in Seq(Calls), stack # <<>>, NEW new \in Seq(Calls)
    PROVE  /\ call \in Calls /\ rest \in Seq(Calls)
           /\ CallsIn(stack) = {call} \cup CallsIn(rest)
           /\ new \o rest \in Seq(Calls) /\ CallsIn(new \o rest) = CallsIn(new) \cup CallsIn(rest)
<1>1. /\ call \in Calls /\ rest \in Seq(Calls) /\ Len(rest) = Len(stack) - 1
      /\ \A k \in 1..Len(rest) : rest[k] = stack[k + 1]
  BY HeadTailProperties DEF call, rest
<1>2. Len(stack) \in Nat \ {0} /\ call = stack[1] /\ Len(rest) \in Nat
  BY <1>1, EmptySeq DEF call
<1>3. CallsIn(stack) = {call} \cup CallsIn(rest)
  <2>1. ASSUME NEW k \in 1..Len(stack) PROVE stack[k] = call \/ stack[k] \in CallsIn(rest)
    <3>1. CASE k = 1
      BY <1>2, <3>1
    <3>2. CASE k # 1
      <4>1. k - 1 \in 1..Len(rest) /\ (k - 1) + 1 = k
        BY <1>1, <1>2, <3>2
      <4>2. rest[k - 1] = stack[k]
        BY <1>1, <4>1
      <4> QED
        BY <4>1, <4>2 DEF CallsIn
    <3> QED
      BY <3>1, <3>2
  <2>2. ASSUME NEW k \in 1..Len(rest) PROVE rest[k] \in CallsIn(stack)
    <3>1. k + 1 \in 1..Len(stack) /\ rest[k] = stack[k + 1]
      BY <1>1, <1>2
    <3> QED
      BY <3>1 DEF CallsIn
  <2>3. call \in CallsIn(stack)
    BY <1>2 DEF CallsIn
  <2> QED
    BY <2>1, <2>2, <2>3 DEF CallsIn
<1> DEFINE all == new \o rest
<1>4. /\ all \in Seq(Calls) /\ Len(all) = Len(new) + Len(rest) /\ Len(new) \in Nat
      /\ \A k \in 1..(Len(new) + Len(rest)) :
            all[k] = IF k <= Len(new) THEN new[k] ELSE rest[k - Len(new)]
  BY <1>1, ConcatProperties, LenProperties
<1> HIDE DEF all
<1>5. CallsIn(all) = CallsIn(new) \cup CallsIn(rest)
  <2>1. ASSUME NEW k \in 1..Len(all) PROVE all[k] \in CallsIn(new) \/ all[k] \in CallsIn(rest)
    <3>1. CASE k <= Len(new)
      <4>1. k \in 1..Len(new) /\ all[k] = new[k]
        BY <1>2, <1>4, <3>1
      <4> QED
        BY <4>1 DEF CallsIn
    <3>2. CASE ~(k <= Len(new))
      <4>1. k - Len(new) \in 1..Len(rest) /\ all[k] = rest[k - Len(new)]
        BY <1>2, <1>4, <3>2
      <4> QED
        BY <4>1 DEF CallsIn
    <3> QED
      BY <3>1, <3>2
  <2>2. ASSUME NEW k \in 1..Len(new) PROVE new[k] \in CallsIn(all)
    <3>1. k \in 1..Len(all) /\ all[k] = new[k]
      BY <1>2, <1>4
    <3> QED
      BY <3>1 DEF CallsIn
  <2>3. ASSUME NEW k \in 1..Len(rest) PROVE rest[k] \in CallsIn(all)
    <3>1. k + Len(new) \in 1..Len(all) /\ ~(k + Len(new) <= Len(new)) /\ (k + Len(new)) - Len(new) = k
      BY <1>2, <1>4
    <3>2. all[k + Len(new)] = rest[k]
      BY <1>4, <3>1
    <3> QED
      BY <3>1, <3>2 DEF CallsIn
  <2> QED
    BY <2>1, <2>2, <2>3 DEF CallsIn
<1> QED
  BY <1>1, <1>3, <1>4, <1>5 DEF all

LEMMA OneOrTwo ==
    ASSUME NEW x \in Calls, NEW y \in Calls
    PROVE  /\ <<x>> \in Seq(Calls) /\ CallsIn(<<x>>) = {x}
           /\ <<x, y>> \in Seq(Calls) /\ CallsIn(<<x, y>>) = {x, y}
<1>1. Len(<<x>>) = 1 /\ Len(<<x, y>>) = 2 /\ 1..1 = {1} /\ 1..2 = {1, 2}
  OBVIOUS
<1> QED
  BY <1>1 DEF CallsIn

\* The innermost call, and what it is when it is a pair or a slice.
LEMMA InnermostCall ==
    ASSUME Typing, stack # <<>>
    PROVE  /\ call \in Calls /\ Fits(call)
           /\ \A c \in CallsIn(rest) : c \in Calls /\ Fits(c)
           /\ IsPair /\ call.b # Nil => call.b \in Objects /\ call.a \in Objects
           /\ IsPair /\ call.b = Nil => call.a = Nil
           /\ IsSlice => /\ call.b \in Seq(Objects) /\ call.a \in Seq(Objects)
                         /\ call.path # <<>> /\ call.path[Len(call.path)][2] = 0
<1>1. /\ call \in Calls /\ rest \in Seq(Calls)
      /\ CallsIn(stack) = {call} \cup CallsIn(rest)
  <2>1. <<>> \in Seq(Calls)
    BY EmptySeq
  <2> QED
    BY <2>1, Pushed DEF Typing
<1>2. \A c \in CallsIn(rest) : c \in Calls
  BY <1>1 DEF CallsIn
<1>3. call.b \in ValuesOf(call.kind) /\ call.a \in ValuesOf(call.kind)
  BY <1>1 DEF Typing, Fits
<1>4. IsPair => call.b \in Pointer /\ call.a \in Pointer /\ ((call.b = Nil) <=> (call.a = Nil))
  BY <1>3 DEF IsPair, IsLeaf, ValuesOf
<1>5. IsSlice => call.b \in Seq(Objects) /\ call.a \in Seq(Objects)
  BY <1>3 DEF IsSlice, ValuesOf
<1>6. IsSlice => call.path # <<>> /\ call.path[Len(call.path)][2] = 0
  BY <1>1 DEF Typing, Fits, IsSlice
<1> QED
  BY <1>1, <1>2, <1>4, <1>5, <1>6 DEF Typing, Pointer

LEMMA FieldCallType ==
    ASSUME Typing, IsPair, call.b # Nil, NEW f \in FieldSet
    PROVE  /\ FieldCall(f) \in Calls /\ Fits(FieldCall(f))
           /\ FieldCall(f).path # <<>>
           /\ FieldCall(f).path[Len(FieldCall(f).path)] = <<f, 0>>
<1>1. call \in Calls /\ call.b \in Objects /\ call.a \in Objects
  BY InnermostCall DEF IsPair
<1>2. KindOf[f] \in {"leaf", "pointer", "slice"} /\ (TagOf[f] = "mask") \in BOOLEAN
  BY FieldsAssumption
<1>3. heap[call.b][f] \in ValuesOf(KindOf[f]) /\ heap[call.a][f] \in ValuesOf(KindOf[f])
  BY <1>1 DEF Typing, HeapTyped
<1>4. heap[call.b][f] \in Value /\ heap[call.a][f] \in Value
  BY <1>2, <1>3, ValuesAreValues
<1> DEFINE path == Append(call.path, <<f, 0>>)
<1>5. path \in Places /\ path # <<>> /\ path[Len(path)] = <<f, 0>>
  <2>1. call.path \in Seq(FieldSet \X Nat) /\ <<f, 0>> \in FieldSet \X Nat
    BY <1>1 DEF Calls, Places
  <2>2. Len(call.path) \in Nat /\ Len(path) = Len(call.path) + 1 /\ path \in Seq(FieldSet \X Nat)
    BY <2>1
  <2>3. path[Len(call.path) + 1] = <<f, 0>>
    BY <2>1
  <2> HIDE DEF path
  <2>4. Len(path) # 0
    BY <2>2
  <2> QED
    BY <2>2, <2>3, <2>4, EmptySeq DEF Places
<1> HIDE DEF path
<1>6. <<call.b, call.a>> \in Pointer \X Pointer
  BY <1>1 DEF Pointer
<1>7. FieldCall(f) \in Calls
  BY <1>2, <1>4, <1>5, <1>6 DEF FieldCall, Call, Calls, path
<1>8. KindOf[f] = "slice" => Len(heap[call.b][f]) \in Nat /\ Len(heap[call.a][f]) \in Nat
  BY <1>3 DEF ValuesOf
<1>9. FieldCall(f).path = path
  BY DEF FieldCall, Call, path
<1>10. KindOf[f] = "slice" => 0 <= Len(heap[call.b][f]) /\ 0 <= Len(heap[call.a][f])
  BY <1>8
<1>11. Fits(FieldCall(f))
  <2>1. path[Len(path)][2] = 0
    BY <1>5
  <2> QED
    BY <1>3, <1>5, <1>10, <2>1 DEF FieldCall, Call, Fits, path
<1> QED
  BY <1>5, <1>7, <1>9, <1>11

LEMMA FieldCallsAre ==
    ASSUME Typing, IsPair, call.b # Nil
    PROVE  FieldCalls \in Seq(Calls) /\ CallsIn(FieldCalls) = {FieldCall(f) : f \in Shown}
<1> DEFINE len == Len(ShownFields)
<1>1. len \in Nat /\ \A k \in 1..len : ShownFields[k] \in Shown
  BY ShownFieldsAre
<1>2. \A f \in Shown : \E k \in 1..len : ShownFields[k] = f
  BY ShownFieldsAre
<1>3. \A f \in Shown : FieldCall(f) \in Calls
  BY FieldCallType DEF Shown
<1>4. FieldCalls = [k \in 1..len |-> FieldCall(ShownFields[k])]
  BY DEF FieldCalls
<1> HIDE DEF len
<1>5. FieldCalls \in [1..len -> Calls]
  <2>1. \A k \in 1..len : FieldCall(ShownFields[k]) \in Calls
    BY <1>1, <1>3
  <2> QED
    BY <1>4, <2>1
<1>6. FieldCalls \in Seq(Calls) /\ Len(FieldCalls) = len
  BY <1>1, <1>5
<1>7. \A k \in 1..len : FieldCalls[k] = FieldCall(ShownFields[k])
  BY <1>4
<1>8. CallsIn(FieldCalls) = {FieldCalls[k] : k \in 1..len}
  BY <1>6 DEF CallsIn
<1> QED
  BY <1>1, <1>2, <1>6, <1>7, <1>8
\* Going on by one element on one side, or on both.
LEMMA AdvanceType ==
    ASSUME Typing, IsSlice, NEW di \in 0..1, NEW dj \in 0..1,
           call.i + di <= Len(call.b), call.j + dj <= Len(call.a)
    PROVE  LET c == AdvanceBy(di, dj)
           IN  /\ c \in Calls /\ Fits(c)
               /\ c.path = call.path /\ c.of = call.of /\ c.kind = "slice" /\ c.masked = FALSE
               /\ c.b = call.b /\ c.a = call.a /\ c.i = call.i + di /\ c.j = call.j + dj
<1> DEFINE c == AdvanceBy(di, dj)
<1>1. call \in Calls /\ Fits(call) /\ call.kind = "slice" /\ call.masked = FALSE
  BY InnermostCall DEF IsSlice, Calls
<1>2. call.i + di \in Nat /\ call.j + dj \in Nat
  BY <1>1 DEF Calls
<1>3. /\ c.path = call.path /\ c.of = call.of /\ c.kind = call.kind /\ c.masked = call.masked
      /\ c.b = call.b /\ c.a = call.a /\ c.i = call.i + di /\ c.j = call.j + dj
  BY <1>1 DEF AdvanceBy, Calls
<1>4. c \in Calls
  BY <1>1, <1>2 DEF AdvanceBy, Calls
<1> HIDE DEF c
<1>5. Fits(c)
  BY <1>1, <1>3 DEF Fits
<1> QED
  BY <1>1, <1>3, <1>4, <1>5 DEF c

\* The path of an element.
LEMMA ElementType ==
    ASSUME Typing, IsSlice, NEW k \in Nat \ {0}
    PROVE  /\ Element(k) \in Places /\ Element(k) # <<>>
           /\ Element(k)[Len(Element(k))][2] = k
           /\ \A o : At(o, Element(k)) = At(o, call.path)[k]
<1>1. call.path \in Places /\ call.path # <<>> /\ call.path[Len(call.path)][2] = 0
  BY InnermostCall DEF IsSlice, Calls
<1>2. Element(k) = ElementPath(call.path, k)
  BY DEF Element, ElementPath
<1> QED
  BY <1>1, <1>2, AtElement

\* The call for two elements that are paired.
PairCall == PointerCall(Element(PairIndex), call.of, call.b[call.i + 1], call.a[call.j + 1])

LEMMA PairCallType ==
    ASSUME Typing, IsSlice, call.i + 1 <= Len(call.b), call.j + 1 <= Len(call.a)
    PROVE  /\ PairCall \in Calls /\ Fits(PairCall)
           /\ PairCall.b \in Objects /\ PairCall.a \in Objects
<1>1. /\ call \in Calls /\ call.b \in Seq(Objects) /\ call.a \in Seq(Objects)
  BY InnermostCall DEF IsSlice
<1>2. call.i \in Nat /\ call.j \in Nat /\ call.of \in Pointer \X Pointer
  BY <1>1 DEF Calls
<1>3. call.b[call.i + 1] \in Objects /\ call.a[call.j + 1] \in Objects
  BY <1>1, <1>2
<1>4. Element(PairIndex) \in Places
  BY <1>2, ElementType DEF PairIndex
<1>5. PairCall \in Calls
  BY <1>2, <1>3, <1>4, ValuesAreValues DEF PairCall, PointerCall, Calls
<1> QED
  BY <1>3, <1>5 DEF PairCall, PointerCall, Fits, ValuesOf, Pointer
-----------------------------------------------------------------------------
(* What the steps do to the stack.                                         *)

LEMMA PopCalls ==
    ASSUME Typing, stack # <<>>, Pop
    PROVE  /\ stack' \in Seq(Calls) /\ CallsIn(stack') = CallsIn(rest)
           /\ UNCHANGED <<heap, root, visited>>
<1>1. <<>> \in Seq(Calls)
  BY EmptySeq
<1> QED
  BY <1>1, Pushed DEF Typing, Pop

LEMMA EnterCalls ==
    ASSUME Typing, Enter
    PROVE  /\ stack' \in Seq(Calls)
           /\ CallsIn(stack') = {FieldCall(f) : f \in Shown} \cup CallsIn(rest)
           /\ call.b \in Objects /\ call.a \in Objects
           /\ visited' = visited \cup {<<call.b, call.a>>}
           /\ UNCHANGED <<heap, root, out>>
<1>1. IsPair /\ call.b # Nil /\ stack # <<>> /\ stack' = FieldCalls \o rest
  BY DEF Enter, IsPair
<1> QED
  BY <1>1, FieldCallsAre, Pushed, InnermostCall DEF Typing, Enter, Mark

LEMMA KeepCalls ==
    ASSUME Typing, Keep
    PROVE  /\ stack' \in Seq(Calls) /\ CallsIn(stack') = {AdvanceBy(1, 1)} \cup CallsIn(rest)
           /\ AdvanceBy(1, 1) \in Calls /\ Fits(AdvanceBy(1, 1))
           /\ call.i + 1 <= Len(call.b) /\ call.j + 1 <= Len(call.a)
           /\ UNCHANGED <<heap, root, visited, out>>
<1>1. IsSlice /\ stack # <<>> /\ call.i + 1 <= Len(call.b) /\ call.j + 1 <= Len(call.a)
  BY DEF Keep, IsSlice, Cheapest
<1>2. AdvanceBy(1, 1) \in Calls /\ Fits(AdvanceBy(1, 1))
  BY <1>1, AdvanceType
<1>3. stack' = <<AdvanceBy(1, 1)>> \o rest /\ UNCHANGED <<heap, root, visited, out>>
  BY DEF Keep
<1> QED
  BY <1>1, <1>2, <1>3, OneOrTwo, Pushed DEF Typing

LEMMA PairUpCalls ==
    ASSUME Typing, PairUp
    PROVE  /\ stack' \in Seq(Calls)
           /\ CallsIn(stack') = {PairCall, AdvanceBy(1, 1)} \cup CallsIn(rest)
           /\ AdvanceBy(1, 1) \in Calls /\ Fits(AdvanceBy(1, 1))
           /\ PairCall \in Calls /\ Fits(PairCall)
           /\ call.i + 1 <= Len(call.b) /\ call.j + 1 <= Len(call.a)
           /\ UNCHANGED <<heap, root, visited, out>>
<1>1. IsSlice /\ stack # <<>> /\ call \in Calls
  BY InnermostCall DEF PairUp, IsSlice
<1>2. call.i + 1 <= Len(call.b) /\ call.j + 1 <= Len(call.a)
  <2>1. CASE TooLong
    <3>1. call.i < Len(call.b) /\ call.j < Len(call.a)
      BY <2>1 DEF PairUp
    <3>2. call.i \in Nat /\ call.j \in Nat /\ Len(call.b) \in Nat /\ Len(call.a) \in Nat
      BY <1>1, InnermostCall DEF Calls
    <3> QED
      BY <3>1, <3>2
  <2>2. CASE ~TooLong
    BY <2>2 DEF PairUp, Cheapest
  <2> QED
    BY <2>1, <2>2
<1>3. AdvanceBy(1, 1) \in Calls /\ Fits(AdvanceBy(1, 1)) /\ PairCall \in Calls /\ Fits(PairCall)
  BY <1>1, <1>2, AdvanceType, PairCallType
<1>4. stack' = <<PairCall, AdvanceBy(1, 1)>> \o rest /\ UNCHANGED <<heap, root, visited, out>>
  BY DEF PairUp, PairCall
<1> DEFINE new == <<PairCall, AdvanceBy(1, 1)>>
<1>5. new \in Seq(Calls) /\ CallsIn(new) = {PairCall, AdvanceBy(1, 1)}
  BY <1>3, OneOrTwo
<1>6. stack' = new \o rest
  BY <1>4
<1> HIDE DEF new
<1>7. stack' \in Seq(Calls) /\ CallsIn(stack') = CallsIn(new) \cup CallsIn(rest)
  BY <1>1, <1>5, <1>6, Pushed DEF Typing
<1> QED
  BY <1>2, <1>3, <1>4, <1>5, <1>7

LEMMA UnpairedCalls ==
    ASSUME Typing, IsSlice, NEW di \in 0..1, NEW dj \in 0..1, Unpaired(di, dj),
           stack' = <<AdvanceBy(di, dj)>> \o rest
    PROVE  /\ stack' \in Seq(Calls) /\ CallsIn(stack') = {AdvanceBy(di, dj)} \cup CallsIn(rest)
           /\ AdvanceBy(di, dj) \in Calls /\ Fits(AdvanceBy(di, dj))
           /\ call.i + di <= Len(call.b) /\ call.j + dj <= Len(call.a)
<1>1. stack # <<>> /\ call.i + di <= Len(call.b) /\ call.j + dj <= Len(call.a)
  BY DEF Unpaired, IsSlice, Cheapest
<1>2. AdvanceBy(di, dj) \in Calls /\ Fits(AdvanceBy(di, dj))
  BY <1>1, AdvanceType
<1> QED
  BY <1>1, <1>2, OneOrTwo, Pushed DEF Typing
-----------------------------------------------------------------------------
LEMMA TypingInit == Init => Typing
<1> SUFFICES ASSUME Init PROVE Typing
  OBVIOUS
<1> DEFINE first == PointerCall(<<>>, root, root[1], root[2])
<1>1. HeapTyped /\ root \in Pointer \X Pointer
  BY HeapsAssumption DEF Init, HeapTyped
<1>2. <<>> \in Places /\ <<>> \in Seq(Changes)
  BY EmptySeq DEF Places
<1>3. root[1] \in Pointer /\ root[2] \in Pointer
  BY <1>1
<1>4. root[1] \in Value /\ root[2] \in Value
  BY <1>3, ValuesAreValues
<1>5. first \in Calls
  BY <1>1, <1>2, <1>4 DEF PointerCall, Calls
<1>6. Fits(first)
  BY <1>3 DEF PointerCall, Fits, ValuesOf
<1>7. stack = <<first>>
  BY DEF Init
<1> HIDE DEF first
<1>8. stack \in Seq(Calls) /\ CallsIn(stack) = {first}
  BY <1>5, <1>7, OneOrTwo
<1> QED
  BY <1>1, <1>2, <1>6, <1>8 DEF Init, Typing

LEMMA ChangeType ==
    ASSUME NEW path \in Places, NEW of \in Pointer \X Pointer,
           NEW from \in Value \cup {Mask}, NEW to \in Value \cup {Mask}, out \in Seq(Changes),
           out' = Append(out, Change(path, of, from, to))
    PROVE  out' \in Seq(Changes)
BY DEF Change, Changes

LEMMA TypingNext == Typing /\ [Next]_vars => Typing'
<1> SUFFICES ASSUME Typing, [Next]_vars PROVE Typing'
  OBVIOUS
<1>1. ASSUME UNCHANGED <<heap, root>>, visited' \in SUBSET (Objects \X Objects),
             stack' \in Seq(Calls), \A c \in CallsIn(stack') : Fits(c), out' \in Seq(Changes)
      PROVE  Typing'
  <2>1. HeapTyped'
    BY <1>1 DEF Typing, HeapTyped
  <2>2. \A c \in CallsIn(stack)' : Fits(c)'
    BY <1>1 DEF CallsIn, Fits
  <2> QED
    BY <1>1, <2>1, <2>2 DEF Typing
<1>2. stack # <<>> => \A c \in CallsIn(rest) : Fits(c)
  BY InnermostCall
<1>3. ASSUME stack # <<>>, Pop, out' \in Seq(Changes) PROVE Typing'
  BY <1>1, <1>2, <1>3, PopCalls DEF Typing
<1>4. CASE Leaf
  <2>1. stack # <<>> /\ Pop
    BY <1>4 DEF Leaf
  <2>2. call \in Calls
    BY <2>1, InnermostCall
  <2>3. /\ call.path \in Places /\ call.of \in Pointer \X Pointer
        /\ call.b \in Value \cup {Mask} /\ call.a \in Value \cup {Mask}
    BY <2>2 DEF Calls
  <2>4. CASE out' = out
    BY <1>3, <2>1, <2>4 DEF Typing
  <2>5. CASE \E c \in {Change(call.path, call.of, Mask, Mask), Change(call.path, call.of, call.b, call.a)} :
                out' = Append(out, c)
    <3>1. out' \in Seq(Changes)
      BY <2>3, <2>5, ChangeType DEF Typing
    <3> QED
      BY <1>3, <2>1, <3>1
  <2> QED
    BY <1>4, <2>4, <2>5 DEF Leaf
<1>5. CASE BothNil \/ Revisit
  <2>1. stack # <<>> /\ Pop /\ out' = out
    BY <1>5 DEF BothNil, Revisit, IsPair
  <2> QED
    BY <1>3, <2>1 DEF Typing
<1>6. CASE Enter
  <2>1. IsPair /\ call.b # Nil /\ stack # <<>>
    BY <1>6 DEF Enter, IsPair
  <2>2. \A f \in Shown : Fits(FieldCall(f))
    BY <2>1, FieldCallType DEF Shown
  <2>3. visited' \in SUBSET (Objects \X Objects)
    BY <1>6, EnterCalls DEF Typing
  <2> QED
    BY <1>1, <1>2, <1>6, <2>1, <2>2, <2>3, EnterCalls DEF Typing
<1>7. CASE Keep
  <2>1. stack # <<>>
    BY <1>7 DEF Keep, IsSlice
  <2> QED
    BY <1>1, <1>2, <1>7, <2>1, KeepCalls DEF Typing
<1>8. CASE PairUp
  <2>1. stack # <<>>
    BY <1>8 DEF PairUp, IsSlice
  <2> QED
    BY <1>1, <1>2, <1>8, <2>1, PairUpCalls DEF Typing
<1>9. CASE Delete
  <2>1. /\ stack # <<>> /\ IsSlice /\ Unpaired(1, 0) /\ stack' = <<AdvanceBy(1, 0)>> \o rest
        /\ UNCHANGED <<heap, root, visited>>
        /\ out' = Append(out, Change(Element(call.i + 1), call.of, call.b[call.i + 1], Nil))
    BY <1>9 DEF Delete, IsSlice
  <2>2. /\ stack' \in Seq(Calls) /\ CallsIn(stack') = {AdvanceBy(1, 0)} \cup CallsIn(rest)
        /\ Fits(AdvanceBy(1, 0)) /\ call.i + 1 <= Len(call.b)
    <3>1. 0 \in 0..1 /\ 1 \in 0..1
      OBVIOUS
    <3> QED
      BY <2>1, <3>1, UnpairedCalls
  <2>3. call \in Calls /\ call.b \in Seq(Objects) /\ call.i \in Nat /\ call.of \in Pointer \X Pointer
    BY <2>1, InnermostCall DEF Calls
  <2>4. call.b[call.i + 1] \in Value /\ Nil \in Value /\ Element(call.i + 1) \in Places
    <3>1. call.i + 1 \in Nat \ {0} /\ call.i + 1 \in 1..Len(call.b)
      BY <2>2, <2>3
    <3>2. call.b[call.i + 1] \in Objects
      BY <2>3, <3>1
    <3>3. Element(call.i + 1) \in Places
      BY <2>1, <3>1, ElementType
    <3> QED
      BY <3>2, <3>3, ValuesAreValues
  <2>5. out' \in Seq(Changes)
    BY <2>1, <2>3, <2>4, ChangeType DEF Typing
  <2> QED
    BY <1>1, <1>2, <2>1, <2>2, <2>5 DEF Typing
<1>10. CASE Insert
  <2>1. /\ stack # <<>> /\ IsSlice /\ Unpaired(0, 1) /\ stack' = <<AdvanceBy(0, 1)>> \o rest
        /\ UNCHANGED <<heap, root, visited>>
        /\ out' = Append(out, Change(Element(call.j + 1), call.of, Nil, call.a[call.j + 1]))
    BY <1>10 DEF Insert, IsSlice
  <2>2. /\ stack' \in Seq(Calls) /\ CallsIn(stack') = {AdvanceBy(0, 1)} \cup CallsIn(rest)
        /\ Fits(AdvanceBy(0, 1)) /\ call.j + 1 <= Len(call.a)
    <3>1. 0 \in 0..1 /\ 1 \in 0..1
      OBVIOUS
    <3> QED
      BY <2>1, <3>1, UnpairedCalls
  <2>3. call \in Calls /\ call.a \in Seq(Objects) /\ call.j \in Nat /\ call.of \in Pointer \X Pointer
    BY <2>1, InnermostCall DEF Calls
  <2>4. call.a[call.j + 1] \in Value /\ Nil \in Value /\ Element(call.j + 1) \in Places
    <3>1. call.j + 1 \in Nat \ {0} /\ call.j + 1 \in 1..Len(call.a)
      BY <2>2, <2>3
    <3>2. call.a[call.j + 1] \in Objects
      BY <2>3, <3>1
    <3>3. Element(call.j + 1) \in Places
      BY <2>1, <3>1, ElementType
    <3> QED
      BY <3>2, <3>3, ValuesAreValues
  <2>5. out' \in Seq(Changes)
    BY <2>1, <2>3, <2>4, ChangeType DEF Typing
  <2> QED
    BY <1>1, <1>2, <2>1, <2>2, <2>5 DEF Typing
<1>11. CASE SliceDone
  <2>1. stack # <<>> /\ Pop /\ out' = out
    BY <1>11 DEF SliceDone, IsSlice
  <2> QED
    BY <1>3, <2>1 DEF Typing
<1>12. CASE UNCHANGED vars
  BY <1>1, <1>12 DEF vars, Typing
<1> QED
  BY <1>4, <1>5, <1>6, <1>7, <1>8, <1>9, <1>10, <1>11, <1>12 DEF Next
-----------------------------------------------------------------------------
(* Paths lead to the new values.                                           *)

AtPlace(calls) == \A c \in calls : At(root[2], c.path) = c.a

Lands(c) == c.to \in {Nil, Mask} \/ c.to = At(root[2], c.path)

PathsInv == AtPlace(CallsIn(stack)) /\ ToIsAtPath

LEMMA AtPlaceOne == ASSUME NEW c, At(root[2], c.path) = c.a PROVE AtPlace({c})
BY DEF AtPlace

LEMMA AtKeeps == ASSUME UNCHANGED heap, NEW o, NEW path PROVE At(o, path)' = At(o, path)
BY DEF At

LEMMA PathsInit == Init => PathsInv
<1> SUFFICES ASSUME Init PROVE PathsInv
  OBVIOUS
<1> DEFINE first == PointerCall(<<>>, root, root[1], root[2])
<1>1. first.path = <<>> /\ first.a = root[2] /\ At(root[2], <<>>) = root[2]
  BY AtNothing DEF PointerCall
<1>2. stack = <<first>> /\ Len(stack) = 1 /\ out = <<>>
  BY DEF Init
<1> HIDE DEF first
<1>3. CallsIn(stack) = {first}
  BY <1>2 DEF CallsIn
<1>4. ToIsAtPath
  <2>1. Len(out) = 0
    BY <1>2
  <2> QED
    BY <2>1 DEF ToIsAtPath
<1> QED
  BY <1>1, <1>3, <1>4, AtPlaceOne DEF PathsInv

\* Calls and changes that a step leaves are at their places still.
LEMMA PathsKept ==
    ASSUME Typing, PathsInv, UNCHANGED <<heap, root>>, stack # <<>>,
           NEW new, CallsIn(stack') = new \cup CallsIn(rest), AtPlace(new),
           out' = out \/ \E c \in Changes : out' = Append(out, c) /\ Lands(c)
    PROVE  PathsInv'
<1>1. \A c \in CallsIn(rest) : At(root[2], c.path) = c.a
  <2>1. <<>> \in Seq(Calls)
    BY EmptySeq
  <2>2. CallsIn(rest) \subseteq CallsIn(stack)
    BY <2>1, Pushed DEF Typing
  <2> QED
    BY <2>2 DEF PathsInv, AtPlace
<1>2. \A c \in CallsIn(stack') : At(root[2], c.path) = c.a
  BY <1>1 DEF AtPlace
<1>3. \A k \in 1..Len(out') : Lands(out'[k])
  <2>1. out \in Seq(Changes) /\ \A k \in 1..Len(out) : Lands(out[k])
    BY DEF Typing, PathsInv, ToIsAtPath, Lands
  <2>2. CASE out' = out
    BY <2>1, <2>2
  <2>3. ASSUME NEW c \in Changes, out' = Append(out, c), Lands(c)
        PROVE  \A k \in 1..Len(out') : Lands(out'[k])
    <3>1. /\ Len(out) \in Nat /\ Len(out') = Len(out) + 1 /\ out'[Len(out) + 1] = c
          /\ \A k \in 1..Len(out) : out'[k] = out[k]
      BY <2>1, <2>3
    <3>2. ASSUME NEW k \in 1..Len(out') PROVE Lands(out'[k])
      <4>1. k \in 1..Len(out) \/ k = Len(out) + 1
        BY <3>1
      <4>2. CASE k \in 1..Len(out)
        BY <2>1, <3>1, <4>2
      <4>3. CASE k = Len(out) + 1
        BY <2>3, <3>1, <4>3
      <4> QED
        BY <4>1, <4>2, <4>3
    <3> QED
      BY <3>2
  <2> QED
    BY <2>2, <2>3
<1>4. \A c : At(root[2], c)' = At(root[2], c)
  BY DEF At
<1>5. ToIsAtPath'
  BY <1>3, <1>4 DEF ToIsAtPath, Lands
<1>6. AtPlace(CallsIn(stack))'
  BY <1>2, <1>4 DEF AtPlace, CallsIn
<1> QED
  BY <1>5, <1>6 DEF PathsInv

LEMMA PathsNext == Typing /\ PathsInv /\ [Next]_vars => PathsInv'
<1> SUFFICES ASSUME Typing, PathsInv, [Next]_vars PROVE PathsInv'
  OBVIOUS
<1>1. stack # <<>> => call \in Calls /\ At(root[2], call.path) = call.a
  <2>1. <<>> \in Seq(Calls)
    BY EmptySeq
  <2>2. stack # <<>> => call \in CallsIn(stack)
    BY <2>1, Pushed DEF Typing
  <2> QED
    BY <2>2, InnermostCall DEF PathsInv, AtPlace
<1>2. ASSUME stack # <<>>, Pop, out' = out PROVE PathsInv'
  <2> DEFINE new == {}
  <2>1. CallsIn(stack') = new \cup CallsIn(rest) /\ UNCHANGED <<heap, root>>
    BY <1>2, PopCalls
  <2>2. AtPlace(new)
    BY DEF AtPlace
  <2> HIDE DEF new
  <2> QED
    BY <1>2, <2>1, <2>2, PathsKept
<1>3. CASE Leaf
  <2>1. stack # <<>> /\ Pop
    BY <1>3 DEF Leaf
  <2> DEFINE new == {}
  <2>2. CallsIn(stack') = new \cup CallsIn(rest) /\ UNCHANGED <<heap, root>> /\ AtPlace(new)
    BY <2>1, PopCalls DEF AtPlace
  <2> DEFINE masked == Change(call.path, call.of, Mask, Mask)
             plain == Change(call.path, call.of, call.b, call.a)
  <2>3. masked \in Changes /\ plain \in Changes
    BY <1>1, <2>1 DEF Change, Changes, Calls
  <2>4. masked.to = Mask /\ plain.to = call.a /\ plain.path = call.path
    BY DEF Change
  <2>5. out' = out \/ out' = Append(out, masked) \/ out' = Append(out, plain)
    BY <1>3 DEF Leaf
  <2> HIDE DEF masked, plain, new
  <2>7. Lands(masked) /\ Lands(plain)
    BY <1>1, <2>1, <2>4 DEF Lands
  <2>6. out' = out \/ \E c \in Changes : out' = Append(out, c) /\ Lands(c)
    BY <2>3, <2>5, <2>7
  <2> QED
    BY <2>1, <2>2, <2>6, PathsKept
<1>4. CASE BothNil \/ Revisit \/ SliceDone
  <2>1. stack # <<>> /\ Pop /\ out' = out
    BY <1>4 DEF BothNil, Revisit, SliceDone, IsPair, IsSlice
  <2> QED
    BY <1>2, <2>1
<1>5. CASE Enter
  <2>1. stack # <<>>
    BY <1>5 DEF Enter, IsPair
  <2>2. ASSUME NEW f \in Shown PROVE At(root[2], FieldCall(f).path) = FieldCall(f).a
    <3>1. call.path \in Places /\ <<f, 0>> \in FieldSet \X Nat
      BY <1>1, <2>1 DEF Calls, Shown
    <3>2. At(root[2], Append(call.path, <<f, 0>>)) = Go(call.a, <<f, 0>>)
      BY <1>1, <2>1, <3>1, AtStep
    <3>3. Go(call.a, <<f, 0>>) = heap[call.a][f]
      BY DEF Go
    <3>4. FieldCall(f).path = Append(call.path, <<f, 0>>) /\ FieldCall(f).a = heap[call.a][f]
      BY DEF FieldCall, Call
    <3> QED
      BY <3>2, <3>3, <3>4
  <2> DEFINE new == {FieldCall(f) : f \in Shown}
  <2>3. AtPlace(new)
    BY <2>2 DEF AtPlace
  <2>4. CallsIn(stack') = new \cup CallsIn(rest) /\ UNCHANGED <<heap, root>> /\ out' = out
    BY <1>5, EnterCalls
  <2> HIDE DEF new
  <2> QED
    BY <2>1, <2>3, <2>4, PathsKept
<1>6. ASSUME NEW di \in 0..1, NEW dj \in 0..1, IsSlice,
             call.i + di <= Len(call.b), call.j + dj <= Len(call.a)
      PROVE  At(root[2], AdvanceBy(di, dj).path) = AdvanceBy(di, dj).a
  <2>1. AdvanceBy(di, dj).path = call.path /\ AdvanceBy(di, dj).a = call.a
    BY <1>6, AdvanceType
  <2> QED
    BY <1>1, <1>6, <2>1 DEF IsSlice
<1>7. 0 \in 0..1 /\ 1 \in 0..1
  OBVIOUS
<1>8. CASE Keep
  <2>1. stack # <<>> /\ IsSlice
    BY <1>8 DEF Keep, IsSlice
  <2>2. At(root[2], AdvanceBy(1, 1).path) = AdvanceBy(1, 1).a
    BY <1>6, <1>7, <1>8, <2>1, KeepCalls
  <2> DEFINE new == {AdvanceBy(1, 1)}
  <2>3. CallsIn(stack') = new \cup CallsIn(rest) /\ UNCHANGED <<heap, root>> /\ out' = out
    BY <1>8, KeepCalls
  <2>4. AtPlace(new)
    BY <2>2, AtPlaceOne
  <2> HIDE DEF new
  <2> QED
    BY <2>1, <2>3, <2>4, PathsKept
<1>9. CASE PairUp
  <2>1. stack # <<>> /\ IsSlice
    BY <1>9 DEF PairUp, IsSlice
  <2>2. At(root[2], AdvanceBy(1, 1).path) = AdvanceBy(1, 1).a
    BY <1>6, <1>7, <1>9, <2>1, PairUpCalls
  <2>3. At(root[2], PairCall.path) = PairCall.a
    <3>1. PairIndex = call.j + 1 /\ PairIndex \in Nat \ {0}
      BY <1>1, <2>1 DEF PairIndex, Calls
    <3>2. At(root[2], Element(PairIndex)) = At(root[2], call.path)[PairIndex]
      BY <2>1, <3>1, ElementType
    <3>3. PairCall.path = Element(PairIndex) /\ PairCall.a = call.a[call.j + 1]
      BY DEF PairCall, PointerCall
    <3> QED
      BY <1>1, <2>1, <3>1, <3>2, <3>3
  <2> DEFINE new == {PairCall, AdvanceBy(1, 1)}
  <2>4. CallsIn(stack') = new \cup CallsIn(rest) /\ UNCHANGED <<heap, root>> /\ out' = out
    BY <1>9, PairUpCalls
  <2>5. AtPlace(new)
    BY <2>2, <2>3 DEF AtPlace
  <2> HIDE DEF new
  <2> QED
    BY <2>1, <2>4, <2>5, PathsKept
<1>10. CASE Delete
  <2> DEFINE c == Change(Element(call.i + 1), call.of, call.b[call.i + 1], Nil)
  <2>1. /\ stack # <<>> /\ IsSlice /\ Unpaired(1, 0) /\ stack' = <<AdvanceBy(1, 0)>> \o rest
        /\ UNCHANGED <<heap, root>> /\ out' = Append(out, c)
    BY <1>10 DEF Delete, IsSlice
  <2> DEFINE new == {AdvanceBy(1, 0)}
  <2>2. /\ CallsIn(stack') = new \cup CallsIn(rest)
        /\ call.i + 1 <= Len(call.b) /\ call.j + 0 <= Len(call.a)
    BY <1>7, <2>1, UnpairedCalls
  <2>3. At(root[2], AdvanceBy(1, 0).path) = AdvanceBy(1, 0).a
    BY <1>6, <1>7, <2>1, <2>2
  <2>6. AtPlace(new)
    BY <2>3, AtPlaceOne
  <2>4. c.to = Nil
    BY DEF Change
  <2>5. c \in Changes
    <3>1. out \in Seq(Changes) /\ out' \in Seq(Changes)
      BY TypingNext DEF Typing
    <3>2. Len(out) + 1 \in 1..Len(out') /\ out'[Len(out) + 1] = c
      BY <2>1, <3>1
    <3> QED
      BY <3>1, <3>2
  <2>7. Lands(c)
    BY <2>4 DEF Lands
  <2> HIDE DEF c, new
  <2>8. \E x \in Changes : out' = Append(out, x) /\ Lands(x)
    BY <2>1, <2>5, <2>7
  <2> QED
    BY <2>1, <2>2, <2>6, <2>8, PathsKept
<1>11. CASE Insert
  <2> DEFINE c == Change(Element(call.j + 1), call.of, Nil, call.a[call.j + 1])
  <2>1. /\ stack # <<>> /\ IsSlice /\ Unpaired(0, 1) /\ stack' = <<AdvanceBy(0, 1)>> \o rest
        /\ UNCHANGED <<heap, root>> /\ out' = Append(out, c)
    BY <1>11 DEF Insert, IsSlice
  <2> DEFINE new == {AdvanceBy(0, 1)}
  <2>2. /\ CallsIn(stack') = new \cup CallsIn(rest)
        /\ call.i + 0 <= Len(call.b) /\ call.j + 1 <= Len(call.a)
    BY <1>7, <2>1, UnpairedCalls
  <2>3. At(root[2], AdvanceBy(0, 1).path) = AdvanceBy(0, 1).a
    BY <1>6, <1>7, <2>1, <2>2
  <2>6. AtPlace(new)
    BY <2>3, AtPlaceOne
  <2>4. c.to = At(root[2], c.path)
    <3>1. call.j + 1 \in Nat \ {0}
      BY <1>1, <2>1 DEF Calls
    <3>2. At(root[2], Element(call.j + 1)) = At(root[2], call.path)[call.j + 1]
      BY <2>1, <3>1, ElementType
    <3> QED
      BY <1>1, <2>1, <3>2 DEF Change
  <2>5. c \in Changes
    <3>1. out \in Seq(Changes) /\ out' \in Seq(Changes)
      BY TypingNext DEF Typing
    <3>2. Len(out) + 1 \in 1..Len(out') /\ out'[Len(out) + 1] = c
      BY <2>1, <3>1
    <3> QED
      BY <3>1, <3>2
  <2>7. Lands(c)
    BY <2>4 DEF Lands
  <2> HIDE DEF c, new
  <2>8. \E x \in Changes : out' = Append(out, x) /\ Lands(x)
    BY <2>1, <2>5, <2>7
  <2> QED
    BY <2>1, <2>2, <2>6, <2>8, PathsKept
<1>12. CASE UNCHANGED vars
  <2>1. \A p : At(root[2], p)' = At(root[2], p)
    BY <1>12 DEF vars, At
  <2> QED
    BY <1>12, <2>1 DEF vars, PathsInv, ToIsAtPath, AtPlace, CallsIn
<1> QED
  BY <1>3, <1>4, <1>5, <1>8, <1>9, <1>10, <1>11, <1>12 DEF Next

\* Typing: the invariant of types.
LEMMA TypingAlways == Spec => []Typing
BY TypingInit, TypingNext, PTL DEF Spec

\* ToIsAtPath: on every heap, whoever follows the path of a change through the new
\* object, index by index, finds the new value that the change names.
THEOREM PathsLeadToNewValues == Spec => []ToIsAtPath
<1>1. Typing /\ PathsInv /\ [Next]_vars => (Typing /\ PathsInv)'
  BY TypingNext, PathsNext
<1>2. Init => Typing /\ PathsInv
  BY TypingInit, PathsInit
<1>3. Typing /\ PathsInv => ToIsAtPath
  BY DEF PathsInv
<1> QED
  BY <1>1, <1>2, <1>3, PTL DEF Spec
-----------------------------------------------------------------------------
(* An empty answer means that nothing has changed.                         *)

\* A call of this kind for these values is under way.
UnderWay(kind, masked, u, v) ==
    \E c \in CallsIn(stack) : c.kind = kind /\ c.masked = masked /\ c.b = u /\ c.a = v

\* Two pointers need no more attention, or get it.
Covered(u, v) == SameText(u, v) \/ <<u, v>> \in visited \/ UnderWay("pointer", FALSE, u, v)

\* A call for these values can end without a change.
Settled(kind, masked, u, v) ==
    IF masked THEN SameTexts(kind, u, v)
    ELSE CASE kind = "leaf"    -> u = v
           [] kind = "pointer" -> Covered(u, v)
           [] kind = "slice"   -> Len(u) = Len(v) /\ \A k \in 1..Len(u) : Covered(u[k], v[k])

\* As long as there is no change, the two sides of a slice keep pace.
InStep(c) ==
    c.kind = "slice" /\ ~c.masked => c.i = c.j /\ \A k \in 1..c.i : Covered(c.b[k], c.a[k])

FieldSettled(p, f) ==
    LET kind == KindOf[f]
        masked == TagOf[f] = "mask"
        u == heap[p[1]][f]
        v == heap[p[2]][f]
    IN  Settled(kind, masked, u, v) \/ UnderWay(kind, masked, u, v)

EmptySoFar ==
    out = <<>> => /\ \A c \in CallsIn(stack) : InStep(c)
                  /\ \A p \in visited, f \in Shown : FieldSettled(p, f)
                  /\ root = <<Nil, Nil>> \/ Covered(root[1], root[2])

\* What a leaf reports.
LeafChange == IF call.masked THEN Change(call.path, call.of, Mask, Mask)
              ELSE Change(call.path, call.of, call.b, call.a)

LEMMA LeafReports ==
    ASSUME Typing, Leaf
    PROVE  /\ LeafChange \in Changes /\ LeafChange.of = call.of /\ LeafChange.path = call.path
           /\ SameLeaf => out' = out
           /\ ~SameLeaf => out' = Append(out, LeafChange)
<1>1. call \in Calls
  BY InnermostCall DEF Leaf
<1>2. /\ call.path \in Places /\ call.of \in Pointer \X Pointer
      /\ call.b \in Value \cup {Mask} /\ call.a \in Value \cup {Mask}
  BY <1>1 DEF Calls
<1>3. /\ Change(call.path, call.of, Mask, Mask) \in Changes
      /\ Change(call.path, call.of, call.b, call.a) \in Changes
  BY <1>2 DEF Change, Changes
<1>4. LeafChange \in Changes /\ LeafChange.of = call.of /\ LeafChange.path = call.path
  BY <1>3 DEF LeafChange, Change
<1> QED
  BY <1>4 DEF Leaf, LeafChange

\* What an unpaired element reports.
LEMMA UnpairedReports ==
    ASSUME Typing, Delete \/ Insert
    PROVE  \E c \in Changes, k \in Nat \ {0} :
              out' = Append(out, c) /\ c.path = Element(k) /\ c.of = call.of
<1>1. IsSlice /\ call \in Calls
  BY InnermostCall DEF Delete, Insert, IsSlice
<1>2. /\ call.of \in Pointer \X Pointer /\ call.i + 1 \in Nat \ {0} /\ call.j + 1 \in Nat \ {0}
      /\ call.b \in Seq(Objects) /\ call.a \in Seq(Objects) /\ call.i \in Nat /\ call.j \in Nat
  BY <1>1, InnermostCall DEF Calls, IsSlice
<1>3. CASE Delete
  <2> DEFINE c == Change(Element(call.i + 1), call.of, call.b[call.i + 1], Nil)
  <2>1. call.i + 1 <= Len(call.b)
    BY <1>3 DEF Delete, Unpaired, Cheapest
  <2>2. call.b[call.i + 1] \in Value /\ Nil \in Value /\ Element(call.i + 1) \in Places
    BY <1>1, <1>2, <2>1, ValuesAreValues, ElementType
  <2>3. c \in Changes /\ c.path = Element(call.i + 1) /\ c.of = call.of
    BY <1>2, <2>2 DEF Change, Changes
  <2>4. out' = Append(out, c)
    BY <1>3 DEF Delete
  <2> HIDE DEF c
  <2> QED
    BY <1>2, <2>3, <2>4
<1>4. CASE Insert
  <2> DEFINE c == Change(Element(call.j + 1), call.of, Nil, call.a[call.j + 1])
  <2>1. call.j + 1 <= Len(call.a)
    BY <1>4 DEF Insert, Unpaired, Cheapest
  <2>2. call.a[call.j + 1] \in Value /\ Nil \in Value /\ Element(call.j + 1) \in Places
    BY <1>1, <1>2, <2>1, ValuesAreValues, ElementType
  <2>3. c \in Changes /\ c.path = Element(call.j + 1) /\ c.of = call.of
    BY <1>2, <2>2 DEF Change, Changes
  <2>4. out' = Append(out, c)
    BY <1>4 DEF Insert
  <2> HIDE DEF c
  <2> QED
    BY <1>2, <2>3, <2>4
<1> QED
  BY <1>3, <1>4

LEMMA NotEmpty == ASSUME Typing, NEW c \in Changes PROVE Append(out, c) # <<>>
<1>1. Len(out) \in Nat /\ Len(Append(out, c)) = Len(out) + 1
  BY DEF Typing
<1> QED
  BY <1>1

LEMMA TextKeeps ==
    ASSUME UNCHANGED heap, NEW x, NEW y, NEW kind
    PROVE  SameText(x, y)' = SameText(x, y) /\ SameTexts(kind, x, y)' = SameTexts(kind, x, y)
<1>1. \A o : Pointees(o)' = Pointees(o)
  BY DEF Pointees
<1>2. \A o : Within(o)' = Within(o)
  BY DEF Within, Pointees
<1>3. \A o : Cyclic(o)' = Cyclic(o)
  BY <1>2 DEF Cyclic
<1>4. Indistinct(Objects \X Objects, FieldSet)' = Indistinct(Objects \X Objects, FieldSet)
  BY DEF Indistinct, Alike
<1>5. \A u, v : SameText(u, v)' = SameText(u, v)
  BY <1>3, <1>4 DEF SameText
<1> QED
  BY <1>3, <1>5 DEF SameTexts

\* A step that leaves the other calls, and goes on with the innermost if that is a pair
\* that is not covered without it, leaves what was covered so.
LEMMA CoveredKept ==
    ASSUME Typing, stack # <<>>, UNCHANGED heap, visited \subseteq visited',
           CallsIn(rest) \subseteq CallsIn(stack'), NEW c, c = call,
           c.kind = "pointer" /\ ~c.masked => Covered(c.b, c.a)',
           NEW u, NEW v, Covered(u, v)
    PROVE  Covered(u, v)'
<1>1. CASE SameText(u, v)
  BY <1>1, TextKeeps DEF Covered
<1>2. CASE <<u, v>> \in visited
  BY <1>2 DEF Covered
<1>3. CASE UnderWay("pointer", FALSE, u, v)
  <2>1. PICK d \in CallsIn(stack) : d.kind = "pointer" /\ d.masked = FALSE /\ d.b = u /\ d.a = v
    BY <1>3 DEF UnderWay
  <2>2. CallsIn(stack) = {c} \cup CallsIn(rest)
    <3>1. <<>> \in Seq(Calls)
      BY EmptySeq
    <3> QED
      BY <3>1, Pushed DEF Typing
  <2>3. CASE d = c
    BY <2>1, <2>3
  <2>4. CASE d \in CallsIn(rest)
    <3>1. d \in CallsIn(stack)'
      BY <2>4 DEF CallsIn
    <3> QED
      BY <2>1, <3>1 DEF UnderWay, Covered
  <2> QED
    BY <2>1, <2>2, <2>3, <2>4
<1> QED
  BY <1>1, <1>2, <1>3 DEF Covered

\* A step that leaves the other calls, and either ends the innermost as settled or
\* goes on with it, leaves what was covered and what was settled so.
LEMMA SettledKept ==
    ASSUME Typing, stack # <<>>, UNCHANGED heap, visited \subseteq visited',
           CallsIn(rest) \subseteq CallsIn(stack'), NEW c, c = call,
           Settled(c.kind, c.masked, c.b, c.a)' \/ UnderWay(c.kind, c.masked, c.b, c.a)'
    PROVE  /\ \A u, v : Covered(u, v) => Covered(u, v)'
           /\ \A kind \in {"leaf", "pointer", "slice"} : \A masked, u, v :
                  Settled(kind, masked, u, v) \/ UnderWay(kind, masked, u, v)
                      => Settled(kind, masked, u, v)' \/ UnderWay(kind, masked, u, v)'
<1>1. CallsIn(stack) = {c} \cup CallsIn(rest)
  <2>1. <<>> \in Seq(Calls)
    BY EmptySeq
  <2> QED
    BY <2>1, Pushed DEF Typing
<1>2. ASSUME NEW kind, NEW masked, NEW u, NEW v, UnderWay(kind, masked, u, v)
      PROVE  Settled(kind, masked, u, v)' \/ UnderWay(kind, masked, u, v)'
  <2>1. PICK d \in CallsIn(stack) : d.kind = kind /\ d.masked = masked /\ d.b = u /\ d.a = v
    BY <1>2 DEF UnderWay
  <2>2. CASE d = c
    BY <2>1, <2>2
  <2>3. CASE d \in CallsIn(rest)
    <3>1. d \in CallsIn(stack')
      BY <2>3
    <3>2. d \in CallsIn(stack)'
      BY <3>1 DEF CallsIn
    <3> QED
      BY <2>1, <3>2 DEF UnderWay
  <2> QED
    BY <1>1, <2>1, <2>2, <2>3
<1>3. ASSUME NEW u, NEW v, Covered(u, v) PROVE Covered(u, v)'
  <2>1. c.kind = "pointer" /\ ~c.masked => Covered(c.b, c.a)'
    <3>1. CASE UnderWay(c.kind, c.masked, c.b, c.a)'
      <4>1. PICK d \in CallsIn(stack)' : d.kind = c.kind /\ d.masked = c.masked /\ d.b = c.b /\ d.a = c.a
        BY <3>1 DEF UnderWay
      <4>2. c.masked \in BOOLEAN
        BY InnermostCall DEF Calls
      <4> QED
        BY <4>1, <4>2 DEF UnderWay, Covered
    <3>2. CASE Settled(c.kind, c.masked, c.b, c.a)'
      BY <3>2 DEF Settled
    <3> QED
      BY <3>1, <3>2
  <2> QED
    BY <1>3, <2>1, CoveredKept
<1>4. ASSUME NEW kind \in {"leaf", "pointer", "slice"}, NEW masked, NEW u, NEW v, Settled(kind, masked, u, v)
      PROVE  Settled(kind, masked, u, v)'
  <2>1. SameTexts(kind, u, v)' = SameTexts(kind, u, v)
    BY TextKeeps
  <2>2. CASE masked
    BY <1>4, <2>1, <2>2 DEF Settled
  <2>3. CASE ~masked
    <3>1. CASE kind = "leaf"
      BY <1>4, <2>3, <3>1 DEF Settled
    <3>2. CASE kind = "pointer"
      BY <1>3, <1>4, <2>3, <3>2 DEF Settled
    <3>3. CASE kind = "slice"
      BY <1>3, <1>4, <2>3, <3>3 DEF Settled
    <3> QED
      BY <3>1, <3>2, <3>3
  <2> QED
    BY <2>2, <2>3
<1> QED
  BY <1>2, <1>3, <1>4

LEMMA EmptyKept ==
    ASSUME Typing, EmptySoFar, out = <<>>, stack # <<>>, UNCHANGED <<heap, root>>,
           visited \subseteq visited', NEW new, CallsIn(stack') = new \cup CallsIn(rest),
           NEW c, c = call,
           Settled(c.kind, c.masked, c.b, c.a)' \/ UnderWay(c.kind, c.masked, c.b, c.a)',
           \A d \in new : InStep(d)',
           \A p \in visited' \ visited, f \in Shown : FieldSettled(p, f)'
    PROVE  EmptySoFar'
<1>1. CallsIn(rest) \subseteq CallsIn(stack')
  OBVIOUS
<1>2. /\ \A u, v : Covered(u, v) => Covered(u, v)'
      /\ \A kind \in {"leaf", "pointer", "slice"} : \A masked, u, v :
             Settled(kind, masked, u, v) \/ UnderWay(kind, masked, u, v)
                 => Settled(kind, masked, u, v)' \/ UnderWay(kind, masked, u, v)'
  BY <1>1, SettledKept
<1>3. CallsIn(rest) \subseteq CallsIn(stack)
  <2>1. <<>> \in Seq(Calls)
    BY EmptySeq
  <2> QED
    BY <2>1, Pushed DEF Typing
<1>4. ASSUME NEW d \in CallsIn(stack') PROVE InStep(d)'
  <2>1. CASE d \in new
    BY <2>1
  <2>2. CASE d \in CallsIn(rest)
    <3>1. InStep(d)
      BY <1>3, <2>2 DEF EmptySoFar
    <3> QED
      BY <1>2, <3>1 DEF InStep
  <2> QED
    BY <1>4, <2>1, <2>2
<1>5. ASSUME NEW p \in visited', NEW f \in Shown PROVE FieldSettled(p, f)'
  <2>1. CASE p \in visited
    <3>1. KindOf[f] \in {"leaf", "pointer", "slice"}
      BY FieldsAssumption DEF Shown
    <3>2. FieldSettled(p, f)
      BY <2>1 DEF EmptySoFar
    <3> QED
      BY <1>2, <3>1, <3>2 DEF FieldSettled
  <2> QED
    BY <1>5, <2>1
<1>6. root = <<Nil, Nil>> \/ Covered(root[1], root[2])
  BY DEF EmptySoFar
<1>7. root' = <<Nil, Nil>> \/ Covered(root[1], root[2])'
  <2>1. CASE root = <<Nil, Nil>>
    BY <2>1
  <2>2. CASE Covered(root[1], root[2])
    <3>1. Covered(root[1], root[2]) => \E u, v : u = root[1] /\ v = root[2] /\ Covered(u, v)'
      BY <1>2
    <3>2. PICK u, v : u = root[1] /\ v = root[2] /\ Covered(u, v)'
      BY <2>2, <3>1
    <3>3. u = root'[1] /\ v = root'[2]
      BY <3>2
    <3> QED
      BY <3>2, <3>3 DEF Covered
  <2> QED
    BY <1>6, <2>1, <2>2
<1>8. CallsIn(stack)' = CallsIn(stack')
  BY DEF CallsIn
<1>9. \A d \in CallsIn(stack)' : InStep(d)'
  BY <1>4, <1>8
<1> QED
  BY <1>5, <1>7, <1>9 DEF EmptySoFar

LEMMA EmptyInit == Init => EmptySoFar
<1> SUFFICES ASSUME Init PROVE EmptySoFar
  OBVIOUS
<1> DEFINE first == PointerCall(<<>>, root, root[1], root[2])
<1>1. first.kind = "pointer" /\ first.masked = FALSE /\ first.b = root[1] /\ first.a = root[2]
  BY DEF PointerCall
<1>2. stack = <<first>> /\ Len(stack) = 1 /\ visited = {}
  BY DEF Init
<1> HIDE DEF first
<1>3. CallsIn(stack) = {first}
  BY <1>2 DEF CallsIn
<1>4. InStep(first)
  BY <1>1 DEF InStep
<1>5. Covered(root[1], root[2])
  BY <1>1, <1>3 DEF Covered, UnderWay
<1> QED
  BY <1>2, <1>3, <1>4, <1>5 DEF EmptySoFar

LEMMA EmptyNext == Typing /\ EmptySoFar /\ [Next]_vars => EmptySoFar'
<1> SUFFICES ASSUME Typing, EmptySoFar, [Next]_vars, out' = <<>> PROVE EmptySoFar'
  BY DEF EmptySoFar
<1>0. PICK c : c = call
  OBVIOUS
<1>1. stack # <<>> => c \in Calls /\ Fits(c) /\ (out = <<>> => InStep(c))
  <2>1. <<>> \in Seq(Calls)
    BY EmptySeq
  <2>2. stack # <<>> => call \in CallsIn(stack)
    BY <2>1, Pushed DEF Typing
  <2> QED
    BY <1>0, <2>2, InnermostCall DEF EmptySoFar
\* The innermost call ends, settled.
<1>2. ASSUME stack # <<>>, Pop, out = <<>>, Settled(c.kind, c.masked, c.b, c.a)'
      PROVE  EmptySoFar'
  <2> DEFINE new == {}
  <2>1. CallsIn(stack') = new \cup CallsIn(rest) /\ UNCHANGED <<heap, root, visited>>
    BY <1>2, PopCalls DEF Pop
  <2>2. /\ \A d \in new : InStep(d)' /\ visited \subseteq visited'
        /\ \A p \in visited' \ visited, f \in Shown : FieldSettled(p, f)'
    BY <2>1
  <2> HIDE DEF new
  <2> QED
    BY <1>0, <1>2, <2>1, <2>2, EmptyKept
\* The innermost call goes on, as one of the calls that replace it.
<1>3. ASSUME stack # <<>>, out = <<>>, UNCHANGED <<heap, root, visited>>,
             NEW new, CallsIn(stack') = new \cup CallsIn(rest), \A d \in new : InStep(d)',
             NEW d \in new, d.kind = c.kind, d.masked = c.masked, d.b = c.b, d.a = c.a
      PROVE  EmptySoFar'
  <2>1. UnderWay(c.kind, c.masked, c.b, c.a)'
    <3>1. d \in CallsIn(stack)'
      BY <1>3 DEF CallsIn
    <3> QED
      BY <1>3, <3>1 DEF UnderWay
  <2>2. /\ visited \subseteq visited'
        /\ \A p \in visited' \ visited, f \in Shown : FieldSettled(p, f)'
    BY <1>3
  <2> QED
    BY <1>0, <1>3, <2>1, <2>2, EmptyKept
<1>4. CASE Leaf
  <2>1. stack # <<>> /\ Pop /\ IsLeaf /\ UNCHANGED heap
    BY <1>4 DEF Leaf, Pop
  <2>3. SameLeaf
    BY <1>4, LeafReports, NotEmpty
  <2>4. out = <<>>
    BY <1>4, <2>3 DEF Leaf
  <2>5. SameTexts(c.kind, c.b, c.a)
    BY <1>0, <2>3 DEF SameLeaf
  <2>6. CASE c.masked
    <3>1. SameTexts(c.kind, c.b, c.a)'
      BY <2>1, <2>5, TextKeeps
    <3>2. Settled(c.kind, c.masked, c.b, c.a)'
      BY <2>6, <3>1 DEF Settled
    <3> QED
      BY <1>2, <2>1, <2>4, <3>2
  <2>7. CASE ~c.masked /\ c.kind = "leaf"
    <3>1. c.b \in Vals /\ c.a \in Vals
      BY <1>1, <2>1, <2>7 DEF Fits, ValuesOf
    <3>2. c.b = c.a
      BY <2>5, <2>7, <3>1, HeapsAssumption DEF SameTexts, SameText
    <3>3. Settled(c.kind, c.masked, c.b, c.a)'
      BY <2>7, <3>2 DEF Settled
    <3> QED
      BY <1>2, <2>1, <2>4, <3>3
  <2>8. CASE ~c.masked /\ c.kind # "leaf"
    <3>1. c.kind = "pointer" /\ (c.b = Nil) # (c.a = Nil)
      BY <1>0, <2>1, <2>8 DEF IsLeaf
    <3>2. SameText(c.b, c.a)
      BY <2>5, <3>1 DEF SameTexts
    <3>3. c.b = c.a
      BY <3>1, <3>2, HeapsAssumption DEF SameText
    <3> QED
      BY <3>1, <3>3
  <2> QED
    BY <2>6, <2>7, <2>8
<1>5. CASE BothNil
  <2>1. stack # <<>> /\ Pop /\ IsPair /\ call.b = Nil /\ UNCHANGED <<heap, out>>
    BY <1>5 DEF BothNil, IsPair, Pop
  <2>2. c.b = Nil /\ c.a = Nil /\ c.kind = "pointer" /\ ~c.masked
    BY <1>0, <2>1, InnermostCall DEF IsPair, IsLeaf
  <2>3. SameText(c.b, c.a)
    BY <2>2, TextReflexive DEF Typing
  <2>4. SameText(c.b, c.a)'
    BY <2>1, <2>3, TextKeeps
  <2>5. Settled(c.kind, c.masked, c.b, c.a)'
    BY <2>2, <2>4 DEF Settled, Covered
  <2> QED
    BY <1>2, <2>1, <2>5
<1>6. CASE Revisit
  <2>1. stack # <<>> /\ Pop /\ IsPair /\ Seen /\ UNCHANGED <<heap, out, visited>>
    BY <1>6 DEF Revisit, IsPair, Pop
  <2>2. c.kind = "pointer" /\ ~c.masked /\ <<c.b, c.a>> \in visited'
    BY <1>0, <2>1 DEF IsPair, IsLeaf, Seen
  <2>3. Settled(c.kind, c.masked, c.b, c.a)'
    BY <2>2 DEF Settled, Covered
  <2> QED
    BY <1>2, <2>1, <2>3
<1>7. CASE Enter
  <2>1. stack # <<>> /\ IsPair
    BY <1>7 DEF Enter, IsPair
  <2> DEFINE new == {FieldCall(f) : f \in Shown}
  <2>2. /\ CallsIn(stack') = new \cup CallsIn(rest) /\ UNCHANGED <<heap, root, out>>
        /\ visited' = visited \cup {<<c.b, c.a>>}
    BY <1>0, <1>7, EnterCalls
  <2>3. c.kind = "pointer" /\ ~c.masked /\ <<c.b, c.a>> \in visited'
    BY <1>0, <2>1, <2>2 DEF IsPair, IsLeaf
  <2>4. Settled(c.kind, c.masked, c.b, c.a)'
    BY <2>3 DEF Settled, Covered
  <2>5. ASSUME NEW d \in new PROVE InStep(d)'
    <3>1. d.i = 0 /\ d.j = 0
      BY DEF FieldCall, Call
    <3> QED
      BY <3>1 DEF InStep
  <2>6. ASSUME NEW p \in visited' \ visited, NEW f \in Shown PROVE FieldSettled(p, f)'
    <3>1. p[1] = c.b /\ p[2] = c.a
      BY <2>2, <2>6
    <3>2. PICK d \in new : d = FieldCall(f)
      OBVIOUS
    <3>3. /\ d.kind = KindOf[f] /\ d.masked = (TagOf[f] = "mask")
          /\ d.b = heap'[p[1]][f] /\ d.a = heap'[p[2]][f]
      BY <1>0, <2>2, <3>1, <3>2 DEF FieldCall, Call
    <3>4. d \in CallsIn(stack)'
      BY <2>2, <3>2 DEF CallsIn
    <3>5. UnderWay(KindOf[f], TagOf[f] = "mask", heap[p[1]][f], heap[p[2]][f])'
      BY <3>3, <3>4 DEF UnderWay
    <3> QED
      BY <3>5 DEF FieldSettled
  <2>7. visited \subseteq visited'
    BY <2>2
  <2> HIDE DEF new
  <2> QED
    BY <1>0, <2>1, <2>2, <2>4, <2>5, <2>6, <2>7, EmptyKept
\* Two elements are behind, that are equal or will be compared.
<1>8. ASSUME IsSlice, call.i + 1 <= Len(call.b), call.j + 1 <= Len(call.a),
             UNCHANGED <<heap, root, visited, out>>,
             NEW e, e = AdvanceBy(1, 1), NEW new, e \in new, CallsIn(stack') = new \cup CallsIn(rest),
             \A x \in new : x = e \/ x.kind = "pointer",
             out = <<>> => Covered(c.b[c.i + 1], c.a[c.j + 1])'
      PROVE  EmptySoFar'
  <2>1. stack # <<>> /\ out = <<>>
    BY <1>8 DEF IsSlice
  <2>2. /\ e.kind = c.kind /\ e.masked = c.masked /\ e.b = c.b /\ e.a = c.a
        /\ e.i = c.i + 1 /\ e.j = c.j + 1
    <3>1. 1 \in 0..1
      OBVIOUS
    <3>2. c.kind = "slice" /\ c.masked = FALSE
      BY <1>0, <1>1, <1>8, <2>1 DEF IsSlice, Calls
    <3> QED
      BY <1>0, <1>8, <3>1, <3>2, AdvanceType
  <2>3. c.i \in Nat /\ c.i = c.j /\ \A k \in 1..c.i : Covered(c.b[k], c.a[k])
    BY <1>0, <1>1, <1>8, <2>1 DEF Calls, InStep, IsSlice
  <2>4. UnderWay(c.kind, c.masked, c.b, c.a)'
    <3>1. e \in CallsIn(stack)'
      BY <1>8 DEF CallsIn
    <3> QED
      BY <2>2, <3>1 DEF UnderWay
  <2>5. \A u, v : Covered(u, v) => Covered(u, v)'
    <3>1. CallsIn(rest) \subseteq CallsIn(stack') /\ visited \subseteq visited' /\ UNCHANGED heap
      BY <1>8
    <3> QED
      BY <1>0, <2>1, <2>4, <3>1, SettledKept
  <2>6. InStep(e)'
    <3>1. Covered(c.b[c.i + 1], c.a[c.i + 1])'
      BY <1>8, <2>1, <2>3
    <3>2. ASSUME NEW k \in 1..(c.i + 1) PROVE Covered(c.b[k], c.a[k])'
      <4>1. k \in 1..c.i \/ k = c.i + 1
        BY <2>3
      <4>2. CASE k = c.i + 1
        BY <3>1, <4>2
      <4>3. CASE k \in 1..c.i
        BY <2>3, <2>5, <4>3
      <4> QED
        BY <4>1, <4>2, <4>3
    <3>3. \A k \in 1..e.i : Covered(e.b[k], e.a[k])'
      BY <2>2, <3>2
    <3> QED
      BY <2>2, <2>3, <3>3 DEF InStep
  <2>7. \A x \in new : InStep(x)'
    BY <1>8, <2>6 DEF InStep
  <2> QED
    BY <1>3, <1>8, <2>1, <2>2, <2>7
<1>9. CASE Keep
  <2> DEFINE new == {AdvanceBy(1, 1)}
  <2>1. stack # <<>> /\ IsSlice /\ SameText(call.b[call.i + 1], call.a[call.j + 1])
    BY <1>9 DEF Keep, IsSlice
  <2>2. /\ CallsIn(stack') = new \cup CallsIn(rest) /\ UNCHANGED <<heap, root, visited, out>>
        /\ call.i + 1 <= Len(call.b) /\ call.j + 1 <= Len(call.a)
    BY <1>9, KeepCalls
  <2>3. PICK e : e = AdvanceBy(1, 1)
    OBVIOUS
  <2>4. SameText(c.b[c.i + 1], c.a[c.j + 1])'
    BY <1>0, <2>1, <2>2, TextKeeps
  <2>5. e \in new /\ \A x \in new : x = e \/ x.kind = "pointer"
    BY <2>3
  <2>6. Covered(c.b[c.i + 1], c.a[c.j + 1])'
    BY <2>4 DEF Covered
  <2> HIDE DEF new
  <2> QED
    BY <1>8, <2>1, <2>2, <2>3, <2>5, <2>6
<1>10. CASE PairUp
  <2> DEFINE new == {PairCall, AdvanceBy(1, 1)}
  <2>1. stack # <<>> /\ IsSlice
    BY <1>10 DEF PairUp, IsSlice
  <2>2. /\ CallsIn(stack') = new \cup CallsIn(rest) /\ UNCHANGED <<heap, root, visited, out>>
        /\ call.i + 1 <= Len(call.b) /\ call.j + 1 <= Len(call.a)
    BY <1>10, PairUpCalls
  <2>3. PICK e, d : e = AdvanceBy(1, 1) /\ d = PairCall
    OBVIOUS
  <2>4. /\ d.kind = "pointer" /\ d.masked = FALSE
        /\ d.b = c.b[c.i + 1] /\ d.a = c.a[c.j + 1]
    BY <1>0, <2>3 DEF PairCall, PointerCall
  <2>5. e \in new /\ d \in new /\ \A x \in new : x = e \/ x.kind = "pointer"
    BY <2>3, <2>4
  <2> HIDE DEF new
  <2>6. d \in CallsIn(stack)'
    BY <2>2, <2>5 DEF CallsIn
  <2>7. Covered(c.b[c.i + 1], c.a[c.j + 1])'
    BY <2>4, <2>6 DEF Covered, UnderWay
  <2> QED
    BY <1>8, <2>1, <2>2, <2>3, <2>5, <2>7
<1>11. CASE Delete \/ Insert
  <2>1. \E d \in Changes : out' = Append(out, d)
    BY <1>11, UnpairedReports
  <2> QED
    BY <2>1, NotEmpty
<1>12. CASE SliceDone
  <2>1. /\ stack # <<>> /\ Pop /\ IsSlice /\ call.i = Len(call.b) /\ call.j = Len(call.a)
        /\ UNCHANGED <<heap, out>>
    BY <1>12 DEF SliceDone, IsSlice, Pop
  <2>2. c.kind = "slice" /\ ~c.masked
    BY <1>0, <2>1 DEF IsSlice
  <2>3. Len(c.b) = Len(c.a) /\ \A k \in 1..Len(c.b) : Covered(c.b[k], c.a[k])
    BY <1>0, <1>1, <2>1, <2>2 DEF InStep
  <2>5. CallsIn(rest) \subseteq CallsIn(stack') /\ visited \subseteq visited'
    BY <2>1, PopCalls
  <2>6. \A u, v : Covered(u, v) => Covered(u, v)'
    BY <1>0, <2>1, <2>2, <2>5, CoveredKept
  <2>7. Settled(c.kind, c.masked, c.b, c.a)'
    BY <2>2, <2>3, <2>6 DEF Settled
  <2> QED
    BY <1>2, <2>1, <2>7
<1>13. CASE UNCHANGED vars
  <2>1. /\ \A x, y : SameText(x, y)' = SameText(x, y)
        /\ \A kind, x, y : SameTexts(kind, x, y)' = SameTexts(kind, x, y)
    BY <1>13, TextKeeps DEF vars
  <2>2. \A kind, masked, u, v : UnderWay(kind, masked, u, v)' = UnderWay(kind, masked, u, v)
    BY <1>13 DEF vars, UnderWay, CallsIn
  <2>3. \A u, v : Covered(u, v)' = Covered(u, v)
    BY <1>13, <2>1, <2>2 DEF vars, Covered
  <2>4. \A kind, masked, u, v : Settled(kind, masked, u, v)' = Settled(kind, masked, u, v)
    <3> SUFFICES ASSUME NEW kind, NEW masked, NEW u, NEW v
                 PROVE  Settled(kind, masked, u, v)' = Settled(kind, masked, u, v)
      OBVIOUS
    <3>1. (\A k \in 1..Len(u) : Covered(u[k], v[k]))' = (\A k \in 1..Len(u) : Covered(u[k], v[k]))
      BY <2>3
    <3>2. Covered(u, v)' = Covered(u, v) /\ SameTexts(kind, u, v)' = SameTexts(kind, u, v)
      BY <2>1, <2>3
    <3> QED
      BY <3>1, <3>2 DEF Settled
  <2>5. \A p, f : FieldSettled(p, f)' = FieldSettled(p, f)
    BY <1>13, <2>2, <2>4 DEF vars, FieldSettled
  <2>6. \A d : InStep(d)' = InStep(d)
    BY <2>3 DEF InStep
  <2> QED
    BY <1>13, <2>3, <2>5, <2>6 DEF vars, EmptySoFar, CallsIn
<1> QED
  BY <1>4, <1>5, <1>6, <1>7, <1>9, <1>10, <1>11, <1>12, <1>13 DEF Next

\* Every pair that was visited, or that equal texts passed over, is the same in what is
\* masked, and its other fields lead to such pairs.
LEMMA EmptyIsSame == Typing /\ EmptySoFar => EmptyMeansSame
<1> SUFFICES ASSUME Typing, EmptySoFar, Done, out = <<>>, root # <<Nil, Nil>>
             PROVE  root \in Indistinct(SameMasked, {f \in Shown : TagOf[f] = "none"})
  BY DEF EmptyMeansSame
<1> DEFINE fs == {f \in Shown : TagOf[f] = "none"}
           R == visited \cup Texts
<1>1. \A kind, masked, u, v : ~UnderWay(kind, masked, u, v)
  <2>1. Len(stack) = 0
    BY DEF Done
  <2> QED
    BY <2>1 DEF UnderWay, CallsIn
<1>2. \A u, v : Covered(u, v) => SameText(u, v) \/ <<u, v>> \in visited
  BY <1>1 DEF Covered
<1>3. visited \subseteq Objects \X Objects /\ Texts \subseteq Objects \X Objects
  BY DEF Typing, Texts
<1>4. \A u \in Objects, v \in Objects : Covered(u, v) => <<u, v>> \in R
  BY <1>2 DEF Texts
<1>5. ASSUME NEW p \in visited, NEW f \in Shown
      PROVE  Settled(KindOf[f], TagOf[f] = "mask", heap[p[1]][f], heap[p[2]][f])
  BY <1>1 DEF EmptySoFar, FieldSettled
<1>6. R \subseteq SameMasked
  <2>1. ASSUME NEW p \in visited, NEW f \in FieldSet, TagOf[f] = "mask"
        PROVE  SameTexts(KindOf[f], heap[p[1]][f], heap[p[2]][f])
    <3>1. f \in Shown
      BY <2>1 DEF Shown
    <3> QED
      BY <1>5, <2>1, <3>1 DEF Settled
  <2>2. ASSUME NEW p \in Texts, NEW f \in FieldSet
        PROVE  SameTexts(KindOf[f], heap[p[1]][f], heap[p[2]][f])
    BY <2>2, TextsAgree DEF Typing
  <2> QED
    BY <1>3, <2>1, <2>2 DEF SameMasked
<1>7. ASSUME NEW p \in R, NEW f \in fs PROVE Alike(f, heap[p[1]][f], heap[p[2]][f], R)
  <2>1. f \in FieldSet /\ f \in Shown /\ TagOf[f] = "none"
    BY DEF Shown
  <2>2. CASE p \in Texts
    <3>1. Alike(f, heap[p[1]][f], heap[p[2]][f], Texts)
      BY <2>1, <2>2, TextsAgree DEF Typing
    <3> QED
      BY <2>1, <3>1, AlikeGrows
  <2>3. CASE p \in visited
    <3> DEFINE u == heap[p[1]][f]
               v == heap[p[2]][f]
    <3>1. p[1] \in Objects /\ p[2] \in Objects
      BY <1>3, <2>3
    <3>2. Settled(KindOf[f], FALSE, u, v)
      <4>1. (TagOf[f] = "mask") = FALSE
        BY <2>1
      <4> QED
        BY <1>5, <2>1, <2>3, <4>1
    <3>3. HeapTyped
      BY DEF Typing
    <3>4. CASE KindOf[f] = "leaf"
      BY <3>2, <3>4 DEF Settled, Alike
    <3>5. CASE KindOf[f] = "pointer"
      <4>1. u \in Pointer /\ v \in Pointer /\ Covered(u, v)
        BY <2>1, <3>1, <3>2, <3>3, <3>5, Kinds DEF Settled
      <4> HIDE DEF u, v, R
      <4>2. ASSUME u \in Objects, v \in Objects PROVE Alike(f, u, v, R)
        BY <1>4, <3>5, <4>1, <4>2 DEF Alike
      <4>3. ASSUME ~(u \in Objects /\ v \in Objects) PROVE Alike(f, u, v, R)
        <5>1. <<u, v>> \notin visited
          BY <1>3, <4>3
        <5>2. u = v
          BY <1>2, <4>1, <4>3, <5>1 DEF SameText
        <5> QED
          BY <3>5, <5>2 DEF Alike
      <4> QED
        BY <4>2, <4>3 DEF u, v
    <3>6. CASE KindOf[f] = "slice"
      <4>1. u \in Seq(Objects) /\ v \in Seq(Objects)
        BY <2>1, <3>1, <3>3, <3>6, Kinds
      <4>2. Len(u) = Len(v) /\ \A k \in 1..Len(u) : Covered(u[k], v[k])
        BY <3>2, <3>6 DEF Settled
      <4> HIDE DEF u, v, R
      <4>3. \A k \in 1..Len(u) : u[k] \in Objects /\ v[k] \in Objects
        BY <4>1, <4>2
      <4>4. \A k \in 1..Len(u) : <<u[k], v[k]>> \in R
        BY <1>4, <4>2, <4>3
      <4>5. Alike(f, u, v, R)
        BY <3>6, <4>2, <4>4 DEF Alike
      <4> QED
        BY <4>5 DEF u, v
    <3> QED
      BY <2>1, <3>4, <3>5, <3>6, FieldsAssumption
  <2> QED
    BY <2>2, <2>3
<1>8. IsFiniteSet(SameMasked)
  <2>1. SameMasked \subseteq Objects \X Objects
    BY DEF SameMasked
  <2> QED
    BY <2>1, PairsFinite, FS_Subset
<1>9. fs \in SUBSET FieldSet
  BY DEF Shown
<1>10. R \subseteq Indistinct(SameMasked, fs)
  <2> HIDE DEF R, fs
  <2> QED
    BY <1>6, <1>7, <1>8, <1>9, IndistinctIsLargest
<1>11. root \in R
  <2>1. root \in Pointer \X Pointer /\ Covered(root[1], root[2])
    BY DEF Typing, EmptySoFar
  <2>2. CASE root[1] \in Objects /\ root[2] \in Objects
    BY <1>4, <2>1, <2>2
  <2>3. CASE ~(root[1] \in Objects /\ root[2] \in Objects)
    <3>1. root \notin visited /\ root = <<root[1], root[2]>>
      BY <1>3, <2>1, <2>3
    <3>2. root[1] = root[2]
      BY <1>2, <2>1, <2>3, <3>1 DEF SameText
    <3> QED
      BY <2>1, <2>3, <3>1, <3>2 DEF Pointer
  <2> QED
    BY <2>2, <2>3
<1> QED
  BY <1>10, <1>11

\* EmptyMeansSame: on every heap, an empty answer means that before and after cannot be
\* told apart by any path through the fields shown.
THEOREM EmptyAnswersMeanSame == Spec => []EmptyMeansSame
<1>1. Typing /\ EmptySoFar /\ [Next]_vars => (Typing /\ EmptySoFar)'
  BY TypingNext, EmptyNext
<1>2. Init => Typing /\ EmptySoFar
  BY TypingInit, EmptyInit
<1> QED
  BY <1>1, <1>2, EmptyIsSame, PTL DEF Spec
-----------------------------------------------------------------------------
(* Every difference is reported once.                                      *)

\* A call or a change is for field f of the pair p, not for an element of it.
For(c, p, f) == c.of = p /\ c.path # <<>> /\ c.path[Len(c.path)] = <<f, 0>>

Never(s, p, f) == \A k \in 1..Len(s) : ~For(s[k], p, f)

Once(s, p, f) ==
    \E k \in 1..Len(s) : For(s[k], p, f) /\ \A l \in 1..Len(s) : For(s[l], p, f) => l = k

LEMMA CountsOf ==
    ASSUME NEW S, NEW s \in Seq(S), NEW t \in Seq(S), NEW p, NEW f
    PROVE  /\ Never(s, p, f) /\ Never(t, p, f) => Never(s \o t, p, f)
           /\ Once(s, p, f) /\ Never(t, p, f) => Once(s \o t, p, f)
           /\ Never(s, p, f) /\ Once(t, p, f) => Once(s \o t, p, f)
           /\ Never(s \o t, p, f) => Never(t, p, f)
           /\ Once(s \o t, p, f) => (Once(t, p, f) /\ Never(s, p, f)) \/ Never(t, p, f)
<1> DEFINE u == s \o t
           m == Len(s)
           n == Len(t)
<1>1. /\ m \in Nat /\ n \in Nat /\ Len(u) = m + n
      /\ \A k \in 1..(m + n) : u[k] = IF k <= m THEN s[k] ELSE t[k - m]
  BY ConcatProperties, LenProperties
<1> HIDE DEF u, m, n
<1>2. \A k \in 1..m : k \in 1..Len(u) /\ u[k] = s[k]
  BY <1>1
<1>3. ASSUME NEW k \in 1..n PROVE m + k \in 1..Len(u) /\ u[m + k] = t[k] /\ m + k \notin 1..m
  <2>1. m + k \in 1..(m + n) /\ ~(m + k <= m) /\ (m + k) - m = k
    BY <1>1
  <2> QED
    BY <1>1, <2>1
<1>4. ASSUME NEW k \in 1..Len(u), k \notin 1..m PROVE \E l \in 1..n : k = m + l
  <2>1. k - m \in 1..n /\ k = m + (k - m)
    BY <1>1, <1>4
  <2> QED
    BY <2>1
<1>5. ASSUME Never(s, p, f), Never(t, p, f) PROVE Never(u, p, f)
  BY <1>2, <1>3, <1>4, <1>5 DEF Never, m, n
<1>6. ASSUME Once(s, p, f), Never(t, p, f) PROVE Once(u, p, f)
  <2>1. PICK k \in 1..m : For(s[k], p, f) /\ \A l \in 1..m : For(s[l], p, f) => l = k
    BY <1>6 DEF Once, m
  <2>2. k \in 1..Len(u) /\ For(u[k], p, f)
    BY <1>2, <2>1
  <2>3. ASSUME NEW l \in 1..Len(u), For(u[l], p, f) PROVE l = k
    <3>1. CASE l \in 1..m
      BY <1>2, <2>1, <2>3, <3>1
    <3>2. CASE l \notin 1..m
      BY <1>3, <1>4, <1>6, <2>3, <3>2 DEF Never, n
    <3> QED
      BY <3>1, <3>2
  <2> QED
    BY <2>2, <2>3 DEF Once
<1>7. ASSUME Never(s, p, f), Once(t, p, f) PROVE Once(u, p, f)
  <2>1. PICK k \in 1..n : For(t[k], p, f) /\ \A l \in 1..n : For(t[l], p, f) => l = k
    BY <1>7 DEF Once, n
  <2>2. m + k \in 1..Len(u) /\ For(u[m + k], p, f)
    BY <1>3, <2>1
  <2>3. ASSUME NEW l \in 1..Len(u), For(u[l], p, f) PROVE l = m + k
    <3>1. l \notin 1..m
      BY <1>2, <1>7, <2>3 DEF Never, m
    <3>2. PICK x \in 1..n : l = m + x
      BY <1>4, <3>1
    <3> QED
      BY <1>3, <2>1, <2>3, <3>2
  <2> QED
    BY <2>2, <2>3 DEF Once
<1>8. ASSUME Never(u, p, f) PROVE Never(t, p, f)
  BY <1>3, <1>8 DEF Never, n
<1>9. ASSUME Once(u, p, f) PROVE (Once(t, p, f) /\ Never(s, p, f)) \/ Never(t, p, f)
  <2>1. PICK k \in 1..Len(u) : For(u[k], p, f) /\ \A l \in 1..Len(u) : For(u[l], p, f) => l = k
    BY <1>9 DEF Once
  <2>2. CASE k \in 1..m
    <3>1. ASSUME NEW x \in 1..n PROVE ~For(t[x], p, f)
      BY <1>3, <2>1, <2>2
    <3> QED
      BY <3>1 DEF Never, n
  <2>3. CASE k \notin 1..m
    <3>1. PICK x \in 1..n : k = m + x
      BY <1>4, <2>3
    <3>2. For(t[x], p, f)
      BY <1>3, <2>1, <3>1
    <3>3. ASSUME NEW y \in 1..n, For(t[y], p, f) PROVE y = x
      <4>1. m + y = m + x
        BY <1>3, <2>1, <3>1, <3>3
      <4> QED
        BY <1>1, <4>1
    <3>4. \A l \in 1..m : ~For(s[l], p, f)
      BY <1>2, <2>1, <2>3
    <3> QED
      BY <3>2, <3>3, <3>4 DEF Once, Never, m, n
  <2> QED
    BY <2>2, <2>3
<1> QED
  BY <1>5, <1>6, <1>7, <1>8, <1>9 DEF u

LEMMA CountsOfOne ==
    ASSUME NEW c, NEW p, NEW f
    PROVE  /\ For(c, p, f) => Once(<<c>>, p, f)
           /\ ~For(c, p, f) => Never(<<c>>, p, f)
<1>1. Len(<<c>>) = 1 /\ <<c>>[1] = c /\ 1..1 = {1}
  OBVIOUS
<1> QED
  BY <1>1 DEF Once, Never

\* What the innermost call, and the calls that replace it, do to the counts.
LEMMA CountsPushed ==
    ASSUME Typing, stack # <<>>, NEW new \in Seq(Calls), stack' = new \o rest, NEW p, NEW f
    PROVE  /\ Never(stack, p, f) => Never(rest, p, f) /\ ~For(call, p, f)
           /\ Once(stack, p, f) /\ For(call, p, f) => Never(rest, p, f)
           /\ Once(stack, p, f) /\ ~For(call, p, f) => Once(rest, p, f)
           /\ Never(new, p, f) /\ Never(rest, p, f) => Never(stack', p, f)
           /\ Never(new, p, f) /\ Once(rest, p, f) => Once(stack', p, f)
           /\ Once(new, p, f) /\ Never(rest, p, f) => Once(stack', p, f)
<1>1. call \in Calls /\ rest \in Seq(Calls)
  BY Pushed DEF Typing
<1>2. <<call>> \in Seq(Calls)
  BY <1>1
<1>3. stack = <<call>> \o rest
  BY HeadTailProperties DEF Typing, call, rest
<1>4. call = stack[1] /\ 1 \in 1..Len(stack)
  BY EmptySeq DEF Typing, call
<1> DEFINE first == <<call>>
<1>5. first \in Seq(Calls) /\ stack = first \o rest
  BY <1>2, <1>3
<1>6. (For(call, p, f) => Once(first, p, f)) /\ (~For(call, p, f) => Never(first, p, f))
  BY CountsOfOne
<1> HIDE DEF first
<1>7. /\ Never(stack, p, f) => Never(rest, p, f)
      /\ Once(stack, p, f) => (Once(rest, p, f) /\ Never(first, p, f)) \/ Never(rest, p, f)
  BY <1>1, <1>5, CountsOf
<1>8. Never(stack, p, f) => ~For(call, p, f)
  BY <1>4 DEF Never
<1>9. Never(first, p, f) => ~For(call, p, f)
  <2>1. Len(first) = 1 /\ first[1] = call /\ 1 \in 1..1
    BY DEF first
  <2> QED
    BY <2>1 DEF Never
<1>10. Once(stack, p, f) /\ ~For(call, p, f) => ~Never(rest, p, f)
  <2>1. Never(rest, p, f) /\ ~For(call, p, f) => Never(stack, p, f)
    BY <1>1, <1>5, <1>6, CountsOf
  <2>2. ~(Never(stack, p, f) /\ Once(stack, p, f))
    BY DEF Never, Once
  <2> QED
    BY <2>1, <2>2
<1>11. /\ Never(new, p, f) /\ Never(rest, p, f) => Never(stack', p, f)
       /\ Never(new, p, f) /\ Once(rest, p, f) => Once(stack', p, f)
       /\ Once(new, p, f) /\ Never(rest, p, f) => Once(stack', p, f)
  BY <1>1, CountsOf
<1> QED
  BY <1>7, <1>8, <1>9, <1>10, <1>11

LEMMA CountsReported ==
    ASSUME Typing, NEW c \in Changes, out' = Append(out, c), NEW p, NEW f
    PROVE  /\ Never(out, p, f) /\ For(c, p, f) => Once(out', p, f)
           /\ Never(out, p, f) /\ ~For(c, p, f) => Never(out', p, f)
           /\ Once(out, p, f) /\ ~For(c, p, f) => Once(out', p, f)
<1> DEFINE last == <<c>>
<1>1. out \in Seq(Changes) /\ last \in Seq(Changes) /\ out' = out \o last
  BY DEF Typing
<1>2. (For(c, p, f) => Once(last, p, f)) /\ (~For(c, p, f) => Never(last, p, f))
  BY CountsOfOne
<1> HIDE DEF last
<1> QED
  BY <1>1, <1>2, CountsOf

\* A call for a field is the call for its two values, in a pair that has been visited.
FieldOf(c) == c.path[Len(c.path)][1]

IsField(c) == c.path # <<>> /\ c.path[Len(c.path)][2] = 0

AsField(c) ==
    IsField(c) =>
        /\ c.of \in visited /\ FieldOf(c) \in Shown
        /\ c.kind = KindOf[FieldOf(c)] /\ c.masked = (TagOf[FieldOf(c)] = "mask")
        /\ c.b = heap[c.of[1]][FieldOf(c)] /\ c.a = heap[c.of[2]][FieldOf(c)]

FieldsInv == \A c \in CallsIn(stack) : AsField(c)

LEMMA ForIsField ==
    ASSUME NEW c, NEW p, NEW f, For(c, p, f)
    PROVE  IsField(c) /\ FieldOf(c) = f /\ c.of = p
BY DEF For, IsField, FieldOf

LEMMA FieldsKept ==
    ASSUME Typing, FieldsInv, stack # <<>>, UNCHANGED heap, visited \subseteq visited',
           NEW new, CallsIn(stack') = new \cup CallsIn(rest), \A d \in new : AsField(d)'
    PROVE  FieldsInv'
<1>1. CallsIn(rest) \subseteq CallsIn(stack)
  <2>1. <<>> \in Seq(Calls)
    BY EmptySeq
  <2> QED
    BY <2>1, Pushed DEF Typing
<1>2. ASSUME NEW d \in CallsIn(stack') PROVE AsField(d)'
  <2>1. CASE d \in new
    BY <2>1
  <2>2. CASE d \in CallsIn(rest)
    <3>1. AsField(d)
      BY <1>1, <2>2 DEF FieldsInv
    <3> QED
      BY <3>1 DEF AsField
  <2> QED
    BY <1>2, <2>1, <2>2
<1> QED
  BY <1>2 DEF FieldsInv, CallsIn

\* The steps that end the innermost call, or go on with a slice.
PopStep == Leaf \/ BothNil \/ Revisit \/ SliceDone
SliceStep == Keep \/ PairUp \/ Delete \/ Insert

LEMMA PopSteps ==
    ASSUME Typing, PopStep
    PROVE  /\ stack # <<>> /\ Pop /\ stack' = <<>> \o rest /\ <<>> \in Seq(Calls)
           /\ CallsIn(stack') = {} \cup CallsIn(rest) /\ UNCHANGED <<heap, root, visited>>
<1>1. stack # <<>> /\ Pop
  BY DEF PopStep, Leaf, BothNil, Revisit, SliceDone, IsPair, IsSlice
<1>2. <<>> \in Seq(Calls)
  BY EmptySeq
<1>3. rest \in Seq(Calls)
  BY <1>1, <1>2, Pushed DEF Typing
<1>4. stack' = <<>> \o rest
  BY <1>1, <1>3 DEF Pop
<1> QED
  BY <1>1, <1>2, <1>4, PopCalls

\* A step in a slice goes on with the slice, and may compare two of its elements.
LEMMA SliceSteps ==
    ASSUME Typing, SliceStep
    PROVE  \E new \in Seq(Calls) :
             /\ stack # <<>> /\ IsSlice /\ stack' = new \o rest
             /\ CallsIn(stack') = CallsIn(new) \cup CallsIn(rest)
             /\ UNCHANGED <<heap, root, visited>>
             /\ \A k \in 1..Len(new) :
                  \/ ~IsField(new[k])
                  \/ /\ new[k].path = call.path /\ new[k].of = call.of /\ new[k].kind = call.kind
                     /\ new[k].masked = call.masked /\ new[k].b = call.b /\ new[k].a = call.a
<1>1. stack # <<>> /\ IsSlice
  BY DEF SliceStep, Keep, PairUp, Delete, Insert, IsSlice
<1>2. call.kind = "slice" /\ call.masked = FALSE /\ call \in Calls
  BY <1>1, InnermostCall DEF IsSlice, Calls
<1> DEFINE Same(d) == /\ d.path = call.path /\ d.of = call.of /\ d.kind = call.kind
                      /\ d.masked = call.masked /\ d.b = call.b /\ d.a = call.a
<1>3. 0 \in 0..1 /\ 1 \in 0..1
  OBVIOUS
<1>4. ASSUME NEW di \in 0..1, NEW dj \in 0..1,
             call.i + di <= Len(call.b), call.j + dj <= Len(call.a)
      PROVE  AdvanceBy(di, dj) \in Calls /\ Same(AdvanceBy(di, dj))
  BY <1>1, <1>2, <1>4, AdvanceType
<1> HIDE DEF Same
\* One call: the slice goes on.
<1>5. ASSUME NEW di \in 0..1, NEW dj \in 0..1,
             call.i + di <= Len(call.b), call.j + dj <= Len(call.a),
             stack' = <<AdvanceBy(di, dj)>> \o rest, UNCHANGED <<heap, root, visited>>
      PROVE  \E new \in Seq(Calls) :
               /\ stack' = new \o rest /\ CallsIn(stack') = CallsIn(new) \cup CallsIn(rest)
               /\ UNCHANGED <<heap, root, visited>>
               /\ \A k \in 1..Len(new) : ~IsField(new[k]) \/ Same(new[k])
  <2> DEFINE new == <<AdvanceBy(di, dj)>>
  <2>1. AdvanceBy(di, dj) \in Calls /\ Same(AdvanceBy(di, dj))
    BY <1>4, <1>5
  <2>2. new \in Seq(Calls) /\ Len(new) = 1 /\ \A k \in 1..1 : Same(new[k])
    BY <2>1
  <2>3. stack' = new \o rest
    BY <1>5
  <2> HIDE DEF new
  <2>4. CallsIn(stack') = CallsIn(new) \cup CallsIn(rest)
    BY <1>1, <2>2, <2>3, Pushed DEF Typing
  <2> QED
    BY <1>5, <2>2, <2>3, <2>4
<1>6. CASE Keep
  <2>1. stack' = <<AdvanceBy(1, 1)>> \o rest /\ UNCHANGED <<heap, root, visited>>
    BY <1>6 DEF Keep
  <2>2. call.i + 1 <= Len(call.b) /\ call.j + 1 <= Len(call.a)
    BY <1>6, KeepCalls
  <2> QED
    BY <1>1, <1>3, <1>5, <2>1, <2>2 DEF Same
<1>7. CASE Delete
  <2>1. stack' = <<AdvanceBy(1, 0)>> \o rest /\ UNCHANGED <<heap, root, visited>> /\ Unpaired(1, 0)
    BY <1>7 DEF Delete
  <2>2. call.i + 1 <= Len(call.b) /\ call.j + 0 <= Len(call.a)
    BY <1>1, <1>3, <2>1, UnpairedCalls
  <2> QED
    BY <1>1, <1>3, <1>5, <2>1, <2>2 DEF Same
<1>8. CASE Insert
  <2>1. stack' = <<AdvanceBy(0, 1)>> \o rest /\ UNCHANGED <<heap, root, visited>> /\ Unpaired(0, 1)
    BY <1>8 DEF Insert
  <2>2. call.i + 0 <= Len(call.b) /\ call.j + 1 <= Len(call.a)
    BY <1>1, <1>3, <2>1, UnpairedCalls
  <2> QED
    BY <1>1, <1>3, <1>5, <2>1, <2>2 DEF Same
<1>9. CASE PairUp
  <2> DEFINE new == <<PairCall, AdvanceBy(1, 1)>>
  <2>1. stack' = new \o rest /\ UNCHANGED <<heap, root, visited>>
    BY <1>9 DEF PairUp, PairCall
  <2>2. /\ call.i + 1 <= Len(call.b) /\ call.j + 1 <= Len(call.a)
        /\ PairCall \in Calls
    BY <1>9, PairUpCalls
  <2>3. AdvanceBy(1, 1) \in Calls /\ Same(AdvanceBy(1, 1))
    BY <1>3, <1>4, <2>2
  <2>4. ~IsField(PairCall)
    <3>1. PairIndex \in Nat \ {0}
      BY <1>2 DEF PairIndex, Calls
    <3>2. PairCall.path = Element(PairIndex)
      BY DEF PairCall, PointerCall
    <3> QED
      BY <1>1, <3>1, <3>2, ElementType DEF IsField
  <2>5. /\ new \in Seq(Calls) /\ Len(new) = 2
        /\ \A k \in 1..2 : ~IsField(new[k]) \/ Same(new[k])
    BY <2>2, <2>3, <2>4
  <2> HIDE DEF new
  <2>6. CallsIn(stack') = CallsIn(new) \cup CallsIn(rest)
    BY <1>1, <2>1, <2>5, Pushed DEF Typing
  <2> QED
    BY <1>1, <2>1, <2>5, <2>6 DEF Same
<1> QED
  BY <1>6, <1>7, <1>8, <1>9 DEF SliceStep

LEMMA NextIs ==
    ASSUME [Next]_vars PROVE PopStep \/ SliceStep \/ Enter \/ UNCHANGED vars
BY DEF Next, PopStep, SliceStep

LEMMA FieldsInit == Init => FieldsInv
<1> SUFFICES ASSUME Init PROVE FieldsInv
  OBVIOUS
<1> DEFINE first == PointerCall(<<>>, root, root[1], root[2])
<1>1. first.path = <<>>
  BY DEF PointerCall
<1>2. stack = <<first>> /\ Len(stack) = 1
  BY DEF Init
<1> HIDE DEF first
<1>3. CallsIn(stack) = {first}
  BY <1>2 DEF CallsIn
<1> QED
  BY <1>1, <1>3 DEF FieldsInv, AsField, IsField

LEMMA FieldsNext == Typing /\ FieldsInv /\ [Next]_vars => FieldsInv'
<1> SUFFICES ASSUME Typing, FieldsInv, [Next]_vars PROVE FieldsInv'
  OBVIOUS
<1>1. CASE PopStep
  <2> DEFINE new == {}
  <2>1. /\ stack # <<>> /\ CallsIn(stack') = new \cup CallsIn(rest) /\ UNCHANGED <<heap, visited>>
        /\ \A d \in new : AsField(d)'
    BY <1>1, PopSteps
  <2> HIDE DEF new
  <2> QED
    BY <2>1, FieldsKept
<1>2. CASE Enter
  <2> DEFINE new == {FieldCall(f) : f \in Shown}
  <2>1. stack # <<>> /\ IsPair /\ call.b # Nil
    BY <1>2 DEF Enter, IsPair
  <2>2. /\ CallsIn(stack') = new \cup CallsIn(rest) /\ UNCHANGED heap
        /\ visited' = visited \cup {<<call.b, call.a>>}
    BY <1>2, EnterCalls
  <2>3. ASSUME NEW d \in new PROVE AsField(d)'
    <3>1. PICK f \in Shown : d = FieldCall(f)
      OBVIOUS
    <3>2. d.path # <<>> /\ d.path[Len(d.path)] = <<f, 0>>
      BY <2>1, <3>1, FieldCallType DEF Shown
    <3>3. /\ d.of = <<call.b, call.a>> /\ d.kind = KindOf[f] /\ d.masked = (TagOf[f] = "mask")
          /\ d.b = heap[call.b][f] /\ d.a = heap[call.a][f]
      BY <3>1 DEF FieldCall, Call
    <3>4. FieldOf(d) = f /\ d.of[1] = call.b /\ d.of[2] = call.a /\ d.of \in visited'
      BY <2>2, <3>2, <3>3 DEF FieldOf
    <3> QED
      BY <2>2, <3>1, <3>3, <3>4 DEF AsField
  <2> HIDE DEF new
  <2> QED
    BY <2>1, <2>2, <2>3, FieldsKept
<1>3. CASE SliceStep
  <2>1. PICK new \in Seq(Calls) :
             /\ stack # <<>> /\ IsSlice /\ stack' = new \o rest
             /\ CallsIn(stack') = CallsIn(new) \cup CallsIn(rest)
             /\ UNCHANGED <<heap, root, visited>>
             /\ \A k \in 1..Len(new) :
                  \/ ~IsField(new[k])
                  \/ /\ new[k].path = call.path /\ new[k].of = call.of /\ new[k].kind = call.kind
                     /\ new[k].masked = call.masked /\ new[k].b = call.b /\ new[k].a = call.a
    BY <1>3, SliceSteps
  <2>2. AsField(call)
    <3>1. <<>> \in Seq(Calls)
      BY EmptySeq
    <3> QED
      BY <2>1, <3>1, Pushed DEF Typing, FieldsInv
  <2>3. ASSUME NEW k \in 1..Len(new) PROVE AsField(new[k])
    <3>1. CASE ~IsField(new[k])
      BY <3>1 DEF AsField
    <3>2. CASE IsField(new[k])
      BY <2>1, <2>2, <3>2 DEF AsField, IsField, FieldOf
    <3> QED
      BY <3>1, <3>2
  <2>4. ASSUME NEW d \in CallsIn(new) PROVE AsField(d)'
    <3>1. AsField(d)
      BY <2>3 DEF CallsIn
    <3> QED
      BY <2>1, <3>1 DEF AsField
  <2>5. PICK some : some = CallsIn(new)
    OBVIOUS
  <2> QED
    BY <2>1, <2>4, <2>5, FieldsKept
<1>4. CASE UNCHANGED vars
  BY <1>4 DEF vars, FieldsInv, AsField, CallsIn
<1> QED
  BY <1>1, <1>2, <1>3, <1>4, NextIs
-----------------------------------------------------------------------------
(* Every pair that pointers lead to is visited.                            *)

Reached(u, v) ==
    u \in Objects /\ v \in Objects => <<u, v>> \in visited \/ UnderWay("pointer", FALSE, u, v)

Followed(p, f) ==
    KindOf[f] = "pointer" /\ TagOf[f] = "none" => Reached(heap[p[1]][f], heap[p[2]][f])

ReachInv ==
    /\ Reached(root[1], root[2])
    /\ \A p \in visited, f \in Shown : Followed(p, f)

LEMMA ReachKept ==
    ASSUME Typing, ReachInv, stack # <<>>, UNCHANGED <<heap, root>>, visited \subseteq visited',
           CallsIn(rest) \subseteq CallsIn(stack'), NEW c, c = call,
           c.kind = "pointer" /\ ~c.masked => Reached(c.b, c.a)',
           \A p \in visited' \ visited, f \in Shown : Followed(p, f)'
    PROVE  ReachInv'
<1>1. ASSUME NEW u, NEW v, Reached(u, v) PROVE Reached(u, v)'
  <2>1. CASE UnderWay("pointer", FALSE, u, v)
    <3>1. PICK d \in CallsIn(stack) : d.kind = "pointer" /\ d.masked = FALSE /\ d.b = u /\ d.a = v
      BY <2>1 DEF UnderWay
    <3>2. CallsIn(stack) = {c} \cup CallsIn(rest)
      <4>1. <<>> \in Seq(Calls)
        BY EmptySeq
      <4> QED
        BY <4>1, Pushed DEF Typing
    <3>3. CASE d = c
      BY <3>1, <3>3
    <3>4. CASE d \in CallsIn(rest)
      <4>1. d \in CallsIn(stack)'
        BY <3>4 DEF CallsIn
      <4> QED
        BY <3>1, <4>1 DEF UnderWay, Reached
    <3> QED
      BY <3>1, <3>2, <3>3, <3>4
  <2>2. CASE ~UnderWay("pointer", FALSE, u, v)
    BY <1>1, <2>2 DEF Reached
  <2> QED
    BY <2>1, <2>2
<1>2. ASSUME NEW p \in visited', NEW f \in Shown PROVE Followed(p, f)'
  <2>1. CASE p \in visited
    <3>1. Followed(p, f)
      BY <2>1 DEF ReachInv
    <3> QED
      BY <1>1, <3>1 DEF Followed
  <2> QED
    BY <1>2, <2>1
<1>3. Reached(root[1], root[2])'
  <2>1. Reached(root[1], root[2]) => \E u, v : u = root[1] /\ v = root[2] /\ Reached(u, v)'
    BY <1>1
  <2>2. PICK u, v : u = root[1] /\ v = root[2] /\ Reached(u, v)'
    BY <2>1 DEF ReachInv
  <2>3. u = root'[1] /\ v = root'[2]
    BY <2>2
  <2> QED
    BY <2>2, <2>3 DEF Reached
<1> QED
  BY <1>2, <1>3 DEF ReachInv

LEMMA ReachInit == Init => ReachInv
<1> SUFFICES ASSUME Init PROVE ReachInv
  OBVIOUS
<1> DEFINE first == PointerCall(<<>>, root, root[1], root[2])
<1>1. first.kind = "pointer" /\ first.masked = FALSE /\ first.b = root[1] /\ first.a = root[2]
  BY DEF PointerCall
<1>2. stack = <<first>> /\ Len(stack) = 1 /\ visited = {}
  BY DEF Init
<1> HIDE DEF first
<1>3. CallsIn(stack) = {first}
  BY <1>2 DEF CallsIn
<1>4. Reached(root[1], root[2])
  BY <1>1, <1>3 DEF Reached, UnderWay
<1> QED
  BY <1>2, <1>4 DEF ReachInv

LEMMA ReachNext == Typing /\ ReachInv /\ [Next]_vars => ReachInv'
<1> SUFFICES ASSUME Typing, ReachInv, [Next]_vars PROVE ReachInv'
  OBVIOUS
<1>0. PICK c : c = call
  OBVIOUS
<1>1. CASE PopStep
  <2>1. /\ stack # <<>> /\ UNCHANGED <<heap, root, visited>>
        /\ CallsIn(rest) \subseteq CallsIn(stack') /\ visited \subseteq visited'
        /\ \A p \in visited' \ visited, f \in Shown : Followed(p, f)'
    BY <1>1, PopSteps
  <2>2. ASSUME c.kind = "pointer", ~c.masked PROVE Reached(c.b, c.a)'
    <3>1. c.b \in Pointer /\ c.a \in Pointer
      BY <1>0, <2>1, <2>2, InnermostCall DEF Fits, ValuesOf
    <3>2. CASE Leaf \/ BothNil
      <4>1. c.b = Nil \/ c.a = Nil
        BY <1>0, <2>2, <3>1, <3>2 DEF Leaf, IsLeaf, BothNil
      <4> QED
        BY <4>1, HeapsAssumption DEF Reached
    <3>3. CASE Revisit
      BY <1>0, <2>1, <3>3 DEF Revisit, Seen, Reached
    <3>4. ~SliceDone
      BY <1>0, <2>2 DEF SliceDone, IsSlice
    <3> QED
      BY <1>1, <3>2, <3>3, <3>4 DEF PopStep
  <2> QED
    BY <1>0, <2>1, <2>2, ReachKept
<1>2. CASE Enter
  <2>1. stack # <<>> /\ IsPair
    BY <1>2 DEF Enter, IsPair
  <2>2. /\ CallsIn(stack') = {FieldCall(f) : f \in Shown} \cup CallsIn(rest)
        /\ UNCHANGED <<heap, root>> /\ visited' = visited \cup {<<c.b, c.a>>}
    BY <1>0, <1>2, EnterCalls
  <2>3. CallsIn(rest) \subseteq CallsIn(stack') /\ visited \subseteq visited'
    BY <2>2
  <2>4. Reached(c.b, c.a)'
    BY <2>2 DEF Reached
  <2>5. ASSUME NEW p \in visited' \ visited, NEW f \in Shown PROVE Followed(p, f)'
    <3>1. p[1] = c.b /\ p[2] = c.a
      BY <2>2, <2>5
    <3>2. PICK d : d = FieldCall(f)
      OBVIOUS
    <3>3. /\ d.kind = KindOf[f] /\ d.masked = (TagOf[f] = "mask")
          /\ d.b = heap'[p[1]][f] /\ d.a = heap'[p[2]][f]
      BY <1>0, <2>2, <3>1, <3>2 DEF FieldCall, Call
    <3>4. d \in CallsIn(stack)'
      BY <2>2, <3>2 DEF CallsIn
    <3>5. ASSUME KindOf[f] = "pointer", TagOf[f] = "none"
          PROVE  UnderWay("pointer", FALSE, heap[p[1]][f], heap[p[2]][f])'
      <4>1. d.kind = "pointer" /\ d.masked = FALSE
        BY <3>3, <3>5
      <4> QED
        BY <3>3, <3>4, <4>1 DEF UnderWay
    <3> QED
      BY <3>5 DEF Followed, Reached
  <2> QED
    BY <1>0, <2>1, <2>2, <2>3, <2>4, <2>5, ReachKept
<1>3. CASE SliceStep
  <2>1. PICK new \in Seq(Calls) :
             /\ stack # <<>> /\ IsSlice /\ CallsIn(stack') = CallsIn(new) \cup CallsIn(rest)
             /\ UNCHANGED <<heap, root, visited>>
    BY <1>3, SliceSteps
  <2>2. /\ CallsIn(rest) \subseteq CallsIn(stack') /\ visited \subseteq visited'
        /\ \A p \in visited' \ visited, f \in Shown : Followed(p, f)'
    BY <2>1
  <2>3. c.kind # "pointer"
    BY <1>0, <2>1 DEF IsSlice
  <2> QED
    BY <1>0, <2>1, <2>2, <2>3, ReachKept
<1>4. CASE UNCHANGED vars
  <2>1. \A u, v : Reached(u, v)' = Reached(u, v)
    BY <1>4 DEF vars, Reached, UnderWay, CallsIn
  <2>2. \A p, f : Followed(p, f)' = Followed(p, f)
    BY <1>4, <2>1 DEF vars, Followed
  <2> QED
    BY <1>4, <2>1, <2>2 DEF vars, ReachInv
<1> QED
  BY <1>1, <1>2, <1>3, <1>4, NextIs

LEMMA MetAreVisited == Typing /\ ReachInv /\ Done => Met \subseteq visited
<1> SUFFICES ASSUME Typing, ReachInv, Done PROVE Met \subseteq visited
  OBVIOUS
<1> DEFINE Pairs == Objects \X Objects
           T == SUBSET Pairs
           Next1(P) == {<<heap[p[1]][f], heap[p[2]][f]>> :
                           p \in P, f \in {g \in FieldSet : KindOf[g] = "pointer" /\ TagOf[g] = "none"}}
           More(P) == P \cup (Next1(P) \cap Pairs)
           start == {root} \cap Pairs
           F == [P \in T |-> More(P)]
           Round(e) == [k \in Nat |-> IF k = 0 THEN {root} \cap (Objects \X Objects)
                                      ELSE LET P == e[k - 1]
                                           IN  P \cup (Next1(P) \cap (Objects \X Objects))]
           m == CHOOSE e : e = Round(e)
<1>1. PICK e \in [Nat -> T] : e[0] = start /\ \A k \in Nat : e[k + 1] = F[e[k]]
  <2>1. start \in T /\ F \in [T -> T]
    OBVIOUS
  <2> HIDE DEF F, T, start
  <2> QED
    BY <2>1, IterationExists
<1>2. ASSUME NEW k \in Nat PROVE e[k + 1] = More(e[k])
  <2>1. e[k] \in T
    OBVIOUS
  <2> HIDE DEF T, More
  <2> QED
    BY <1>1, <2>1
<1>3. e = Round(e)
  <2>1. ASSUME NEW k \in Nat, k # 0 PROVE e[k] = More(e[k - 1])
    <3>1. k - 1 \in Nat /\ (k - 1) + 1 = k
      BY <2>1
    <3>2. e[(k - 1) + 1] = More(e[k - 1])
      BY <1>2, <3>1
    <3> QED
      BY <3>1, <3>2
  <2> HIDE DEF F, T, Next1
  <2> QED
    BY <1>1, <2>1
<1>4. m = Round(m)
  <2> HIDE DEF Round
  <2> QED
    BY <1>3
<1>5. Met = m[Cardinality(Objects) * Cardinality(Objects)]
  BY DEF Met
<1> HIDE DEF m
<1>6. m[0] = start
  BY <1>4
<1>7. ASSUME NEW k \in Nat PROVE m[k + 1] = More(m[k])
  <2>1. k + 1 \in Nat /\ k + 1 # 0 /\ (k + 1) - 1 = k
    OBVIOUS
  <2>2. Round(m)[k + 1] = More(m[(k + 1) - 1])
    BY <2>1
  <2> HIDE DEF Round, More
  <2> QED
    BY <1>4, <2>1, <2>2
<1>8. \A u \in Objects, v \in Objects : Reached(u, v) => <<u, v>> \in visited
  <2>1. Len(stack) = 0
    BY DEF Done
  <2> QED
    BY <2>1 DEF Reached, UnderWay, CallsIn
<1>9. start \subseteq visited
  BY <1>8 DEF ReachInv
<1>10. ASSUME NEW P \in SUBSET visited PROVE More(P) \subseteq visited
  <2>1. ASSUME NEW p \in P, NEW f \in FieldSet, KindOf[f] = "pointer", TagOf[f] = "none",
               <<heap[p[1]][f], heap[p[2]][f]>> \in Pairs
        PROVE  <<heap[p[1]][f], heap[p[2]][f]>> \in visited
    <3>1. f \in Shown
      BY <2>1 DEF Shown
    <3>2. Reached(heap[p[1]][f], heap[p[2]][f])
      BY <2>1, <3>1 DEF ReachInv, Followed
    <3> QED
      BY <1>8, <2>1, <3>2
  <2> QED
    BY <2>1
<1> DEFINE S == {k \in Nat : m[k] \subseteq visited}
<1>11. 0 \in S
  BY <1>6, <1>9
<1>12. ASSUME NEW k \in Nat, k \in S PROVE k + 1 \in S
  <2> HIDE DEF More
  <2> QED
    BY <1>7, <1>10, <1>12
<1>13. Nat \subseteq S
  <2> HIDE DEF S
  <2> QED
    BY <1>11, <1>12, AllNumbers
<1>14. Cardinality(Objects) * Cardinality(Objects) \in Nat
  <2>1. Cardinality(Objects) \in Nat
    BY HeapsAssumption, FS_CardinalityType
  <2> QED
    BY <2>1
<1> QED
  BY <1>5, <1>13, <1>14
-----------------------------------------------------------------------------
(* The counts.                                                             *)

Whole(f) == KindOf[f] # "slice" \/ TagOf[f] = "mask"

Tally(p, f) ==
    \/ p \notin visited /\ Never(stack, p, f) /\ Never(out, p, f)
    \/ p \in visited /\ Once(stack, p, f) /\ Never(out, p, f)
    \/ /\ p \in visited /\ Never(stack, p, f)
       /\ IF Differs(p, f) THEN Once(out, p, f) ELSE Never(out, p, f)

TallyInv == \A p \in Objects \X Objects, f \in Shown : Whole(f) => Tally(p, f)

LEMMA CountKeeps ==
    ASSUME NEW p, NEW f
    PROVE  /\ Never(stack, p, f)' = Never(stack', p, f) /\ Once(stack, p, f)' = Once(stack', p, f)
           /\ Never(out, p, f)' = Never(out', p, f) /\ Once(out, p, f)' = Once(out', p, f)
BY DEF Never, Once

LEMMA DiffersKeeps ==
    ASSUME UNCHANGED heap, NEW p, NEW f
    PROVE  Differs(p, f)' = Differs(p, f)
<1>1. \A kind, x, y : SameTexts(kind, x, y)' = SameTexts(kind, x, y)
  BY TextKeeps
<1> QED
  BY <1>1 DEF Differs

\* A leaf that is asked for a field of a pair has equal texts unless the field differs,
\* and a pair that is compared has no difference of its own.
LEMMA FieldDiffers ==
    ASSUME Typing, FieldsInv, stack # <<>>, NEW p, NEW f \in Shown, For(call, p, f), Whole(f)
    PROVE  /\ p \in visited
           /\ IsLeaf => (SameLeaf <=> ~Differs(p, f))
           /\ ~IsLeaf => call.kind = "pointer" /\ ~Differs(p, f)
<1>1. call \in CallsIn(stack) /\ call \in Calls /\ Fits(call)
  <2>1. <<>> \in Seq(Calls)
    BY EmptySeq
  <2> QED
    BY <2>1, Pushed, InnermostCall DEF Typing
<1>2. IsField(call) /\ FieldOf(call) = f /\ call.of = p
  BY ForIsField
<1>3. /\ p \in visited
      /\ call.kind = KindOf[f] /\ call.masked = (TagOf[f] = "mask")
      /\ call.b = heap[p[1]][f] /\ call.a = heap[p[2]][f]
  BY <1>1, <1>2 DEF FieldsInv, AsField
<1>4. KindOf[f] \in {"leaf", "pointer", "slice"}
  BY FieldsAssumption DEF Shown
<1>5. CASE TagOf[f] = "mask"
  <2>1. call.masked
    BY <1>3, <1>5
  <2> QED
    BY <1>3, <1>5, <2>1 DEF IsLeaf, SameLeaf, Differs
<1>6. CASE TagOf[f] # "mask" /\ KindOf[f] = "leaf"
  <2>1. call.kind = "leaf" /\ call.b \in Vals /\ call.a \in Vals
    BY <1>1, <1>3, <1>6 DEF Fits, ValuesOf
  <2>2. SameLeaf <=> call.b = call.a
    BY <2>1, HeapsAssumption DEF SameLeaf, SameTexts, SameText
  <2>3. Differs(p, f) <=> call.b # call.a
    BY <1>3, <1>6 DEF Differs
  <2> QED
    BY <1>3, <2>1, <2>2, <2>3 DEF IsLeaf
<1>7. CASE TagOf[f] # "mask" /\ KindOf[f] = "pointer"
  <2>1. call.kind = "pointer" /\ ~call.masked /\ call.b \in Pointer /\ call.a \in Pointer
    BY <1>1, <1>3, <1>7 DEF Fits, ValuesOf
  <2>2. Differs(p, f) <=> ((call.b = Nil) # (call.a = Nil))
    BY <1>3, <1>7 DEF Differs
  <2>3. IsLeaf <=> ((call.b = Nil) # (call.a = Nil))
    BY <2>1 DEF IsLeaf
  <2>4. IsLeaf => ~SameLeaf
    BY <2>1, <2>3, HeapsAssumption DEF SameLeaf, SameTexts, SameText
  <2> QED
    BY <1>3, <2>1, <2>2, <2>3, <2>4
<1> QED
  BY <1>4, <1>5, <1>6, <1>7 DEF Whole

\* In a pair that has not been visited no field is under way.
LEMMA TallyInit == Init => TallyInv
<1> SUFFICES ASSUME Init, NEW p \in Objects \X Objects, NEW f \in Shown PROVE Tally(p, f)
  BY DEF TallyInv
<1> DEFINE first == PointerCall(<<>>, root, root[1], root[2])
<1>1. first.path = <<>>
  BY DEF PointerCall
<1>2. stack = <<first>> /\ Len(stack) = 1 /\ stack[1] = first /\ 1..1 = {1} /\ Len(out) = 0
      /\ visited = {}
  BY DEF Init
<1> HIDE DEF first
<1>3. Never(stack, p, f) /\ Never(out, p, f)
  BY <1>1, <1>2 DEF Never, For
<1> QED
  BY <1>2, <1>3 DEF Tally

\* The innermost call is not for this field, nor are those that replace it, nor is what
\* is reported.
LEMMA TallyOthers ==
    ASSUME Typing, stack # <<>>, UNCHANGED heap, NEW p, NEW f, Tally(p, f),
           p \in visited' <=> p \in visited,
           NEW new \in Seq(Calls), stack' = new \o rest, Never(new, p, f), ~For(call, p, f),
           out' = out \/ \E c \in Changes : out' = Append(out, c) /\ ~For(c, p, f)
    PROVE  Tally(p, f)'
<1>1. /\ Never(stack, p, f) => Never(stack', p, f)
      /\ Once(stack, p, f) => Once(stack', p, f)
  BY CountsPushed
<1>2. /\ Never(out, p, f) => Never(out', p, f)
      /\ Once(out, p, f) => Once(out', p, f)
  BY CountsReported
<1>3. Differs(p, f)' = Differs(p, f)
  BY DiffersKeeps
<1>4. /\ Never(stack, p, f)' = Never(stack', p, f) /\ Once(stack, p, f)' = Once(stack', p, f)
      /\ Never(out, p, f)' = Never(out', p, f) /\ Once(out, p, f)' = Once(out', p, f)
  BY CountKeeps
<1> QED
  BY <1>1, <1>2, <1>3, <1>4 DEF Tally

\* The innermost call is for this field, and ends it.
LEMMA TallyEnds ==
    ASSUME Typing, stack # <<>>, UNCHANGED heap, NEW p, NEW f, Tally(p, f),
           p \in visited, p \in visited',
           NEW new \in Seq(Calls), stack' = new \o rest, Never(new, p, f), For(call, p, f),
           \/ ~Differs(p, f) /\ out' = out
           \/ Differs(p, f) /\ \E c \in Changes : out' = Append(out, c) /\ For(c, p, f)
    PROVE  Tally(p, f)'
<1>1. Once(stack, p, f) /\ Never(out, p, f) /\ Never(stack', p, f)
  BY CountsPushed DEF Tally
<1>2. IF Differs(p, f) THEN Once(out', p, f) ELSE Never(out', p, f)
  BY <1>1, CountsReported
<1>3. Differs(p, f)' = Differs(p, f)
  BY DiffersKeeps
<1>4. /\ Never(stack, p, f)' = Never(stack', p, f)
      /\ Never(out, p, f)' = Never(out', p, f) /\ Once(out, p, f)' = Once(out', p, f)
  BY CountKeeps
<1> QED
  BY <1>1, <1>2, <1>3, <1>4 DEF Tally

\* A pair that is entered is asked for each of its fields once.
LEMMA FieldCallsCount ==
    ASSUME Typing, IsPair, call.b # Nil, NEW p, NEW f \in Shown
    PROVE  /\ p = <<call.b, call.a>> => Once(FieldCalls, p, f)
           /\ p # <<call.b, call.a>> => Never(FieldCalls, p, f)
<1> DEFINE len == Len(ShownFields)
<1>1. /\ len \in Nat /\ \A k \in 1..len : ShownFields[k] \in Shown
      /\ \E n \in 1..len : ShownFields[n] = f
      /\ \A m, n \in 1..len : ShownFields[m] = ShownFields[n] => m = n
  BY ShownFieldsAre
<1>2. FieldCalls = [k \in 1..len |-> FieldCall(ShownFields[k])]
  BY DEF FieldCalls
<1> HIDE DEF len
<1>3. Len(FieldCalls) = len /\ \A k \in 1..len : FieldCalls[k] = FieldCall(ShownFields[k])
  <2>1. FieldCalls \in Seq(Calls)
    BY FieldCallsAre
  <2>2. DOMAIN FieldCalls = 1..len
    BY <1>2
  <2> QED
    BY <1>1, <1>2, <2>1, <2>2
<1>4. ASSUME NEW k \in 1..len
      PROVE  For(FieldCalls[k], p, f) <=> p = <<call.b, call.a>> /\ ShownFields[k] = f
  <2>1. PICK g \in Shown : g = ShownFields[k]
    BY <1>1
  <2>2. g \in FieldSet
    BY DEF Shown
  <2>3. FieldCall(g).path # <<>> /\ FieldCall(g).path[Len(FieldCall(g).path)] = <<g, 0>>
    BY <2>2, FieldCallType
  <2>4. FieldCall(g).of = <<call.b, call.a>>
    BY DEF FieldCall, Call
  <2>5. <<g, 0>> = <<f, 0>> <=> g = f
    OBVIOUS
  <2>6. For(FieldCall(g), p, f) <=> p = <<call.b, call.a>> /\ g = f
    BY <2>3, <2>4, <2>5 DEF For
  <2> QED
    BY <1>3, <2>1, <2>6
<1>5. ASSUME p = <<call.b, call.a>> PROVE Once(FieldCalls, p, f)
  <2>1. PICK n \in 1..len : ShownFields[n] = f
    BY <1>1
  <2>2. For(FieldCalls[n], p, f)
    BY <1>4, <1>5, <2>1
  <2>3. ASSUME NEW l \in 1..len, For(FieldCalls[l], p, f) PROVE l = n
    BY <1>1, <1>4, <2>1, <2>3
  <2> QED
    BY <1>3, <2>2, <2>3 DEF Once
<1>6. ASSUME p # <<call.b, call.a>> PROVE Never(FieldCalls, p, f)
  BY <1>3, <1>4, <1>6 DEF Never
<1> QED
  BY <1>5, <1>6

LEMMA TallyNext == Typing /\ FieldsInv /\ TallyInv /\ [Next]_vars => TallyInv'
<1> SUFFICES ASSUME Typing, FieldsInv, TallyInv, [Next]_vars,
                    NEW p \in Objects \X Objects, NEW f \in Shown, Whole(f)
             PROVE  Tally(p, f)'
  BY DEF TallyInv, Whole
<1>1. Tally(p, f)
  BY DEF TallyInv
<1>2. CASE PopStep
  <2>1. /\ stack # <<>> /\ stack' = <<>> \o rest /\ <<>> \in Seq(Calls)
        /\ UNCHANGED heap /\ UNCHANGED visited
    BY <1>2, PopSteps
  <2> DEFINE new == <<>>
  <2>2. new \in Seq(Calls) /\ stack' = new \o rest /\ Never(new, p, f)
    <3>1. Len(new) = 0
      OBVIOUS
    <3> QED
      BY <2>1, <3>1 DEF Never
  <2> HIDE DEF new
  <2>3. CASE For(call, p, f)
    <3>1. /\ p \in visited
          /\ IsLeaf => (SameLeaf <=> ~Differs(p, f))
          /\ ~IsLeaf => call.kind = "pointer" /\ ~Differs(p, f)
      BY <2>1, <2>3, FieldDiffers
    <3>2. CASE Leaf
      <4>1. IsLeaf
        BY <3>2 DEF Leaf
      <4>2. /\ LeafChange \in Changes /\ LeafChange.of = call.of /\ LeafChange.path = call.path
            /\ SameLeaf => out' = out
            /\ ~SameLeaf => out' = Append(out, LeafChange)
        BY <3>2, LeafReports
      <4>3. For(LeafChange, p, f)
        BY <2>3, <4>2 DEF For
      <4>4. \/ ~Differs(p, f) /\ out' = out
            \/ Differs(p, f) /\ \E c \in Changes : out' = Append(out, c) /\ For(c, p, f)
        BY <3>1, <4>1, <4>2, <4>3
      <4> QED
        BY <1>1, <2>1, <2>2, <2>3, <3>1, <4>4, TallyEnds
    <3>3. CASE BothNil \/ Revisit
      <4>1. ~IsLeaf /\ out' = out
        BY <3>3 DEF BothNil, Revisit, IsPair
      <4>2. \/ ~Differs(p, f) /\ out' = out
            \/ Differs(p, f) /\ \E c \in Changes : out' = Append(out, c) /\ For(c, p, f)
        BY <3>1, <4>1
      <4> QED
        BY <1>1, <2>1, <2>2, <2>3, <3>1, <4>2, TallyEnds
    <3>4. CASE SliceDone
      <4>1. call.kind = "slice" /\ ~IsLeaf
        BY <3>4 DEF SliceDone, IsSlice, IsLeaf
      <4> QED
        BY <3>1, <4>1
    <3> QED
      BY <1>2, <3>2, <3>3, <3>4 DEF PopStep
  <2>4. CASE ~For(call, p, f)
    <3>1. out' = out \/ \E c \in Changes : out' = Append(out, c) /\ ~For(c, p, f)
      <4>1. CASE Leaf
        <5>1. /\ LeafChange \in Changes /\ LeafChange.of = call.of /\ LeafChange.path = call.path
              /\ out' = out \/ out' = Append(out, LeafChange)
          BY <4>1, LeafReports
        <5>2. ~For(LeafChange, p, f)
          BY <2>4, <5>1 DEF For
        <5> QED
          BY <5>1, <5>2
      <4>2. CASE BothNil \/ Revisit \/ SliceDone
        BY <4>2 DEF BothNil, Revisit, SliceDone
      <4> QED
        BY <1>2, <4>1, <4>2 DEF PopStep
    <3> QED
      BY <1>1, <2>1, <2>2, <2>4, <3>1, TallyOthers
  <2> QED
    BY <2>3, <2>4
<1>3. CASE Enter
  <2>1. IsPair /\ call.b # Nil /\ ~Seen /\ stack # <<>> /\ stack' = FieldCalls \o rest /\ ~IsLeaf
    BY <1>3 DEF Enter, IsPair
  <2>2. /\ UNCHANGED heap /\ out' = out
        /\ visited' = visited \cup {<<call.b, call.a>>}
    BY <1>3, EnterCalls
  <2>3. FieldCalls \in Seq(Calls)
    BY <2>1, FieldCallsAre
  <2>4. CASE p = <<call.b, call.a>>
    <3>1. p \notin visited /\ p \in visited'
      BY <2>1, <2>2, <2>4 DEF Seen
    <3>2. Never(stack, p, f) /\ Never(out, p, f)
      BY <1>1, <3>1 DEF Tally
    <3>3. Once(FieldCalls, p, f)
      BY <2>1, <2>4, FieldCallsCount
    <3>4. Once(stack', p, f)
      BY <2>1, <2>3, <3>2, <3>3, CountsPushed
    <3>5. Never(out, p, f)' = Never(out', p, f) /\ Once(stack, p, f)' = Once(stack', p, f)
      BY CountKeeps
    <3> QED
      BY <2>2, <3>1, <3>2, <3>4, <3>5 DEF Tally
  <2>5. CASE p # <<call.b, call.a>>
    <3>1. Never(FieldCalls, p, f)
      BY <2>1, <2>5, FieldCallsCount
    <3>2. p \in visited' <=> p \in visited
      BY <2>2, <2>5
    <3>3. PICK new \in Seq(Calls) : new = FieldCalls
      BY <2>3
    <3>4. stack' = new \o rest /\ Never(new, p, f)
      BY <2>1, <3>1, <3>3
    <3>5. CASE For(call, p, f)
      <4>1. p \in visited /\ ~Differs(p, f)
        BY <2>1, <3>5, FieldDiffers
      <4>2. p \in visited'
        BY <3>2, <4>1
      <4> QED
        BY <1>1, <2>1, <2>2, <3>4, <3>5, <4>1, <4>2, TallyEnds
    <3>6. CASE ~For(call, p, f)
      BY <1>1, <2>1, <2>2, <3>2, <3>4, <3>6, TallyOthers
    <3> QED
      BY <3>5, <3>6
  <2> QED
    BY <2>4, <2>5
<1>4. CASE SliceStep
  <2>1. PICK new \in Seq(Calls) :
             /\ stack # <<>> /\ IsSlice /\ stack' = new \o rest
             /\ CallsIn(stack') = CallsIn(new) \cup CallsIn(rest)
             /\ UNCHANGED <<heap, root, visited>>
             /\ \A k \in 1..Len(new) :
                  \/ ~IsField(new[k])
                  \/ /\ new[k].path = call.path /\ new[k].of = call.of /\ new[k].kind = call.kind
                     /\ new[k].masked = call.masked /\ new[k].b = call.b /\ new[k].a = call.a
    BY <1>4, SliceSteps
  <2>2. ~For(call, p, f)
    <3>1. call.kind = "slice" /\ ~IsLeaf
      BY <2>1 DEF IsSlice, IsLeaf
    <3> QED
      BY <2>1, <3>1, FieldDiffers
  <2>3. Never(new, p, f)
    <3>1. ASSUME NEW k \in 1..Len(new) PROVE ~For(new[k], p, f)
      <4>1. CASE ~IsField(new[k])
        BY <4>1, ForIsField
      <4>2. CASE new[k].path = call.path /\ new[k].of = call.of
        BY <2>2, <4>2 DEF For
      <4> QED
        BY <2>1, <4>1, <4>2
    <3> QED
      BY <3>1 DEF Never
  <2>4. out' = out \/ \E c \in Changes : out' = Append(out, c) /\ ~For(c, p, f)
    <3>1. CASE Keep \/ PairUp
      BY <3>1 DEF Keep, PairUp
    <3>2. CASE Delete \/ Insert
      <4>1. PICK c \in Changes, k \in Nat \ {0} : out' = Append(out, c) /\ c.path = Element(k)
        BY <3>2, UnpairedReports
      <4>2. c.path[Len(c.path)][2] = k
        BY <2>1, <4>1, ElementType
      <4>3. ~For(c, p, f)
        BY <4>2, ForIsField DEF IsField
      <4> QED
        BY <4>1, <4>3
    <3> QED
      BY <1>4, <3>1, <3>2 DEF SliceStep
  <2>5. UNCHANGED heap /\ (p \in visited' <=> p \in visited)
    BY <2>1
  <2> QED
    BY <1>1, <2>1, <2>2, <2>3, <2>4, <2>5, TallyOthers
<1>5. CASE UNCHANGED vars
  <2>1. Differs(p, f)' = Differs(p, f)
    BY <1>5, DiffersKeeps DEF vars
  <2>2. /\ Never(stack, p, f)' = Never(stack', p, f) /\ Once(stack, p, f)' = Once(stack', p, f)
        /\ Never(out, p, f)' = Never(out', p, f) /\ Once(out, p, f)' = Once(out', p, f)
    BY CountKeeps
  <2> QED
    BY <1>1, <1>5, <2>1, <2>2 DEF vars, Tally
<1> QED
  BY <1>2, <1>3, <1>4, <1>5, NextIs

\* What Reports counts.
LEMMA ReportsCounted ==
    ASSUME NEW p, NEW f
    PROVE  /\ Never(out, p, f) => Cardinality(Reports(p, f)) = 0
           /\ Once(out, p, f) => Cardinality(Reports(p, f)) = 1
<1>1. Reports(p, f) = {k \in 1..Len(out) : For(out[k], p, f)}
  BY DEF Reports, For
<1>2. ASSUME Never(out, p, f) PROVE Reports(p, f) = {}
  BY <1>1, <1>2 DEF Never
<1>3. ASSUME Once(out, p, f) PROVE \E k : Reports(p, f) = {k}
  BY <1>1, <1>3 DEF Once
<1> QED
  BY <1>2, <1>3, FS_EmptySet, FS_Singleton

LEMMA TallyTells == Typing /\ ReachInv /\ TallyInv => DifferencesOnce
<1> SUFFICES ASSUME Typing, ReachInv, TallyInv, Done, NEW p \in Met, NEW f \in Shown, Whole(f)
             PROVE  Cardinality(Reports(p, f)) = IF Differs(p, f) THEN 1 ELSE 0
  BY DEF DifferencesOnce, Whole
<1>1. p \in visited
  BY MetAreVisited
<1>2. p \in Objects \X Objects
  BY <1>1 DEF Typing
<1>3. Tally(p, f)
  BY <1>2 DEF TallyInv
<1>4. ~Once(stack, p, f)
  <2>1. Len(stack) = 0
    BY DEF Done
  <2> QED
    BY <2>1 DEF Once
<1>5. IF Differs(p, f) THEN Once(out, p, f) ELSE Never(out, p, f)
  BY <1>1, <1>3, <1>4 DEF Tally
<1> QED
  BY <1>5, ReportsCounted

\* DifferencesOnce: on every heap, each field of each pair of structs that pointers lead
\* to is reported once if it differs, and never if it does not.
THEOREM EveryDifferenceOnce == Spec => []DifferencesOnce
<1> DEFINE Inv == Typing /\ FieldsInv /\ ReachInv /\ TallyInv
<1>1. Init => Inv
  BY TypingInit, FieldsInit, ReachInit, TallyInit
<1>2. Inv /\ [Next]_vars => Inv'
  BY TypingNext, FieldsNext, ReachNext, TallyNext
<1>3. Inv => DifferencesOnce
  BY TallyTells
<1> QED
  BY <1>1, <1>2, <1>3, PTL DEF Spec
-----------------------------------------------------------------------------
(* The recursion ends.                                                     *)

\* The calls that a stack may hold.
Fitting == {c \in Calls : Fits(c)}

LEMMA WeightType == ASSUME NEW c \in Fitting PROVE Weight(c) \in Nat \ {0}
<1>1. c \in Calls /\ Fits(c) /\ c.i \in Nat /\ c.j \in Nat
  BY DEF Fitting, Calls
<1>2. CASE c.kind = "slice"
  <2>1. Len(c.b) \in Nat /\ Len(c.a) \in Nat /\ c.i <= Len(c.b) /\ c.j <= Len(c.a)
    BY <1>1, <1>2 DEF Fits, ValuesOf
  <2>2. (Len(c.b) - c.i) + (Len(c.a) - c.j) \in Nat
    BY <1>1, <2>1
  <2> QED
    BY <1>2, <2>2 DEF Weight
<1>3. CASE c.kind # "slice"
  BY <1>3 DEF Weight
<1> QED
  BY <1>2, <1>3

\* w are the weights of the first calls of s, added up.
Sums(w, s) ==
    /\ w[0] = 0
    /\ \A k \in 1..Len(s) : w[k] = w[k - 1] + Weight(s[k])

Iterates(e, T, x, F) == e \in [Nat -> T] /\ e[0] = x /\ \A k \in Nat : e[k + 1] = F[e[k]]

LEMMA Iteration ==
    ASSUME NEW T, NEW x \in T, NEW F \in [T -> T]
    PROVE  \E e : Iterates(e, T, x, F)
BY IterationExists DEF Iterates

LEMMA WorkIsSum ==
    ASSUME NEW s \in Seq(Fitting)
    PROVE  \E w : Sums(w, s) /\ WorkOf(s) = w[Len(s)]
<1> DEFINE len == Len(s)
           T == Nat \X Int
           F == [x \in T |-> <<x[1] + 1, IF x[1] + 1 \in 1..len THEN x[2] + Weight(s[x[1] + 1])
                                         ELSE x[2]>>]
           Round(e) == [k \in 0..len |-> IF k = 0 THEN 0 ELSE e[k - 1] + Weight(s[k])]
           w == CHOOSE e : e = Round(e)
           start == <<0, 0>>
<1>1. len \in Nat /\ \A k \in 1..len : Weight(s[k]) \in Nat
  BY WeightType
<1>2. start \in T /\ start[1] = 0 /\ start[2] = 0
  OBVIOUS
<1> HIDE DEF len
<1>3. \E e : Iterates(e, T, start, F)
  <2>1. ASSUME NEW x \in T PROVE F[x] \in T
    BY <1>1
  <2>2. F = [x \in T |-> F[x]]
    OBVIOUS
  <2>3. start \in T
    BY <1>2
  <2> HIDE DEF F, T, start
  <2>4. F \in [T -> T]
    BY <2>1, <2>2
  <2> QED
    BY <2>3, <2>4, Iteration
<1>4. PICK e \in [Nat -> T] : e[0] = start /\ \A k \in Nat : e[k + 1] = F[e[k]]
  <2> HIDE DEF F, T, start
  <2> QED
    BY <1>3 DEF Iterates
<1> HIDE DEF start
<1>5. \A k \in Nat : e[k][1] = k /\ e[k] \in T
  <2> DEFINE S == {k \in Nat : e[k][1] = k}
  <2>1. 0 \in S
    BY <1>2, <1>4
  <2>2. ASSUME NEW k \in Nat, k \in S PROVE k + 1 \in S
    <3>1. e[k] \in T /\ e[k][1] = k /\ e[k + 1] = F[e[k]]
      BY <1>4, <2>2
    <3>2. F[e[k]][1] = e[k][1] + 1
      BY <3>1
    <3> HIDE DEF F, T
    <3> QED
      BY <2>2, <3>1, <3>2
  <2> HIDE DEF S
  <2>3. Nat \subseteq S
    BY <2>1, <2>2, AllNumbers
  <2> QED
    BY <1>4, <2>3 DEF S
<1>6. \E r : r = Round(r)
  <2> DEFINE r == [k \in 0..len |-> e[k][2]]
  <2>1. ASSUME NEW k \in 0..len, k # 0 PROVE e[k][2] = e[k - 1][2] + Weight(s[k])
    <3>1. k - 1 \in Nat /\ (k - 1) + 1 = k /\ k \in 1..len
      BY <1>1, <2>1
    <3>2. e[k - 1] \in T /\ e[k - 1][1] = k - 1 /\ e[(k - 1) + 1] = F[e[k - 1]]
      BY <1>4, <1>5, <3>1
    <3>3. F[e[k - 1]][2] = e[k - 1][2] + Weight(s[k])
      BY <3>1, <3>2
    <3> HIDE DEF F, T
    <3> QED
      BY <3>1, <3>2, <3>3
  <2>2. \A k \in 0..len : r[k] = e[k][2]
    OBVIOUS
  <2>3. e[0][2] = 0
    BY <1>2, <1>4
  <2> HIDE DEF r
  <2>4. \A k \in 0..len : k # 0 => k - 1 \in 0..len
    BY <1>1
  <2>5. r = [k \in 0..len |-> IF k = 0 THEN 0 ELSE r[k - 1] + Weight(s[k])]
    BY <2>1, <2>2, <2>3, <2>4 DEF r
  <2> QED
    BY <2>5
<1>7. w = Round(w)
  <2> HIDE DEF Round
  <2> QED
    BY <1>6
<1>8. WorkOf(s) = w[len]
  BY DEF WorkOf, len
<1> HIDE DEF w, F, T
<1>9. w[0] = 0 /\ \A k \in 1..len : w[k] = w[k - 1] + Weight(s[k])
  <2>1. 0 \in 0..len /\ \A k \in 1..len : k \in 0..len /\ k # 0
    BY <1>1
  <2>2. Round(w)[0] = 0
    BY <2>1
  <2>3. ASSUME NEW k \in 1..len PROVE Round(w)[k] = w[k - 1] + Weight(s[k])
    BY <2>1
  <2> HIDE DEF Round
  <2> QED
    BY <1>7, <2>2, <2>3
<1> QED
  BY <1>8, <1>9 DEF Sums, len

LEMMA SumsAreNumbers ==
    ASSUME NEW s \in Seq(Fitting), NEW w, Sums(w, s), NEW k \in 0..Len(s)
    PROVE  w[k] \in Nat
<1> DEFINE S == {l \in Nat : l <= Len(s) => w[l] \in Nat}
<1>1. 0 \in S
  BY DEF Sums
<1>2. ASSUME NEW l \in Nat, l \in S PROVE l + 1 \in S
  <2>1. CASE l + 1 <= Len(s)
    <3>1. Len(s) \in Nat
      OBVIOUS
    <3>2. l + 1 \in 1..Len(s) /\ l <= Len(s) /\ (l + 1) - 1 = l
      BY <2>1, <3>1
    <3>3. w[l + 1] = w[l] + Weight(s[l + 1]) /\ w[l] \in Nat
      BY <1>2, <3>2 DEF Sums
    <3>4. Weight(s[l + 1]) \in Nat
      BY <3>2, WeightType
    <3> QED
      BY <3>3, <3>4
  <2> QED
    BY <2>1
<1> HIDE DEF S
<1>3. k \in Nat /\ k <= Len(s)
  OBVIOUS
<1>4. k \in S
  BY <1>1, <1>2, <1>3, AllNumbers
<1> QED
  BY <1>3, <1>4 DEF S

LEMMA WorkOfBoth ==
    ASSUME NEW s \in Seq(Fitting), NEW t \in Seq(Fitting)
    PROVE  /\ WorkOf(s \o t) = WorkOf(s) + WorkOf(t)
           /\ WorkOf(s) \in Nat /\ WorkOf(t) \in Nat /\ WorkOf(s \o t) \in Nat
<1> DEFINE u == s \o t
           m == Len(s)
           n == Len(t)
<1>1. /\ m \in Nat /\ n \in Nat /\ Len(u) = m + n /\ u \in Seq(Fitting)
      /\ \A k \in 1..(m + n) : u[k] = IF k <= m THEN s[k] ELSE t[k - m]
  BY ConcatProperties, LenProperties
<1> HIDE DEF u
<1>2. PICK x : Sums(x, s) /\ WorkOf(s) = x[m]
  BY WorkIsSum
<1>3. PICK y : Sums(y, t) /\ WorkOf(t) = y[n]
  BY WorkIsSum
<1>4. PICK z : Sums(z, u) /\ WorkOf(u) = z[Len(u)]
  BY <1>1, WorkIsSum
<1>5. \A k \in 0..n : y[k] \in Nat
  BY <1>3, SumsAreNumbers
<1>6. x[m] \in Nat /\ z[Len(u)] \in Nat /\ y[n] \in Nat
  <2>1. m \in 0..m /\ n \in 0..n /\ Len(u) \in 0..Len(u)
    BY <1>1
  <2> QED
    BY <1>1, <1>2, <1>3, <1>4, <2>1, SumsAreNumbers
<1> HIDE DEF m, n
<1>7. z[m] = x[m]
  <2> DEFINE S == {l \in Nat : l <= m => z[l] = x[l]}
  <2>1. 0 \in S
    BY <1>2, <1>4 DEF Sums
  <2>2. ASSUME NEW l \in Nat, l \in S PROVE l + 1 \in S
    <3>1. CASE l + 1 <= m
      <4>1. l + 1 \in 1..m /\ l + 1 \in 1..(m + n) /\ l <= m /\ (l + 1) - 1 = l
        BY <1>1, <3>1
      <4>2. u[l + 1] = s[l + 1]
        BY <1>1, <3>1, <4>1
      <4>3. z[l + 1] = z[l] + Weight(u[l + 1]) /\ x[l + 1] = x[l] + Weight(s[l + 1])
        BY <1>1, <1>2, <1>4, <4>1 DEF Sums, m
      <4> QED
        BY <2>2, <4>1, <4>2, <4>3
    <3> QED
      BY <3>1
  <2> HIDE DEF S
  <2>3. m \in S
    BY <1>1, <2>1, <2>2, AllNumbers
  <2> QED
    BY <1>1, <2>3 DEF S
<1>8. z[m + n] = x[m] + y[n]
  <2> DEFINE S == {l \in Nat : l <= n => z[m + l] = x[m] + y[l]}
  <2>1. 0 \in S
    <3>1. m + 0 = m /\ y[0] = 0
      BY <1>1, <1>3 DEF Sums
    <3> QED
      BY <1>6, <1>7, <3>1
  <2>2. ASSUME NEW l \in Nat, l \in S PROVE l + 1 \in S
    <3>1. CASE l + 1 <= n
      <4>1. /\ l + 1 \in 1..n /\ m + (l + 1) \in 1..(m + n) /\ l \in 0..n /\ (l + 1) - 1 = l
            /\ (m + (l + 1)) - 1 = m + l /\ ~(m + (l + 1) <= m) /\ (m + (l + 1)) - m = l + 1
        BY <1>1, <3>1
      <4>2. u[m + (l + 1)] = t[l + 1]
        BY <1>1, <4>1
      <4>3. /\ z[m + (l + 1)] = z[m + l] + Weight(u[m + (l + 1)])
            /\ y[l + 1] = y[l] + Weight(t[l + 1])
        BY <1>1, <1>3, <1>4, <4>1 DEF Sums, n
      <4>4. Weight(t[l + 1]) \in Nat
        BY <4>1, WeightType DEF n
      <4>5. z[m + l] = x[m] + y[l] /\ y[l] \in Nat
        BY <1>5, <2>2, <3>1, <4>1 DEF n
      <4>6. z[m + (l + 1)] = x[m] + y[l + 1]
        BY <1>6, <4>2, <4>3, <4>4, <4>5
      <4> QED
        BY <2>2, <4>6
    <3> QED
      BY <3>1
  <2> HIDE DEF S
  <2>3. n \in S
    BY <1>1, <2>1, <2>2, AllNumbers
  <2> QED
    BY <1>1, <2>3 DEF S
<1> QED
  BY <1>1, <1>2, <1>3, <1>4, <1>6, <1>8 DEF u

LEMMA WorkOfOne ==
    ASSUME NEW c \in Fitting
    PROVE  <<c>> \in Seq(Fitting) /\ WorkOf(<<c>>) = Weight(c)
<1> DEFINE s == <<c>>
<1>1. s \in Seq(Fitting) /\ Len(s) = 1 /\ s[1] = c
  OBVIOUS
<1> HIDE DEF s
<1>2. PICK w : Sums(w, s) /\ WorkOf(s) = w[Len(s)]
  BY <1>1, WorkIsSum
<1>3. 1 \in 1..1 /\ 1 - 1 = 0
  OBVIOUS
<1>4. w[1] = 0 + Weight(c)
  BY <1>1, <1>2, <1>3 DEF Sums
<1> QED
  BY <1>1, <1>2, <1>4, WeightType DEF s

LEMMA Innermost ==
    ASSUME Typing, stack # <<>>
    PROVE  /\ call \in Fitting /\ rest \in Seq(Fitting)
           /\ Work = Weight(call) + WorkOf(rest) /\ WorkOf(rest) \in Nat
<1>1. stack \in Seq(Fitting)
  <2>1. \A k \in 1..Len(stack) : stack[k] \in Fitting
    BY DEF Typing, CallsIn, Fitting
  <2> QED
    BY <2>1 DEF Typing
<1>2. call \in Fitting /\ rest \in Seq(Fitting) /\ stack = <<call>> \o rest
  BY <1>1, HeadTailProperties DEF call, rest
<1>3. <<call>> \in Seq(Fitting) /\ WorkOf(<<call>>) = Weight(call)
  BY <1>2, WorkOfOne
<1> QED
  BY <1>2, <1>3, WorkOfBoth DEF Work

\* Less is left, when what replaces the innermost call weighs less than it.
LEMMA LessWork ==
    ASSUME Typing, stack # <<>>, NEW new \in Seq(Fitting), stack' = new \o rest,
           WorkOf(new) < Weight(call)
    PROVE  Work' < Work
<1>1. /\ call \in Fitting /\ rest \in Seq(Fitting)
      /\ Work = Weight(call) + WorkOf(rest) /\ WorkOf(rest) \in Nat
  BY Innermost
<1>2. Weight(call) \in Nat
  BY <1>1, WeightType
<1>3. WorkOf(new \o rest) = WorkOf(new) + WorkOf(rest) /\ WorkOf(new) \in Nat
  BY <1>1, WorkOfBoth
<1>4. Work' = WorkOf(new \o rest)
  BY DEF Work
<1> QED
  BY <1>1, <1>2, <1>3, <1>4

LEMMA WorkOfNone == <<>> \in Seq(Fitting) /\ WorkOf(<<>>) = 0
<1>1. <<>> \in Seq(Fitting) /\ Len(<<>>) = 0
  BY EmptySeq
<1>2. PICK w : Sums(w, <<>>) /\ WorkOf(<<>>) = w[Len(<<>>)]
  BY <1>1, WorkIsSum
<1> QED
  BY <1>1, <1>2 DEF Sums

LEMMA TwoLess ==
    ASSUME NEW p \in Nat, NEW q \in Nat, NEW i \in Nat, NEW j \in Nat,
           NEW di \in Nat, NEW dj \in Nat
    PROVE  1 + 2 * ((p - (i + di)) + (q - (j + dj)))
             = (1 + 2 * ((p - i) + (q - j))) - 2 * (di + dj)
OBVIOUS

\* A slice that goes on weighs 2 less for each element that it leaves behind.
LEMMA AdvanceWeighs ==
    ASSUME Typing, IsSlice, NEW di \in 0..1, NEW dj \in 0..1,
           call.i + di <= Len(call.b), call.j + dj <= Len(call.a)
    PROVE  /\ AdvanceBy(di, dj) \in Fitting
           /\ Weight(AdvanceBy(di, dj)) = Weight(call) - 2 * (di + dj)
<1> DEFINE c == AdvanceBy(di, dj)
<1>1. /\ c \in Calls /\ Fits(c) /\ c.kind = "slice"
      /\ c.b = call.b /\ c.a = call.a /\ c.i = call.i + di /\ c.j = call.j + dj
  BY AdvanceType
<1> HIDE DEF c
<1>2. /\ call \in Calls /\ call.b \in Seq(Objects) /\ call.a \in Seq(Objects)
      /\ call.kind = "slice"
  BY InnermostCall DEF IsSlice
<1> DEFINE p == Len(call.b)
           q == Len(call.a)
           i == call.i
           j == call.j
<1>3. p \in Nat /\ q \in Nat /\ i \in Nat /\ j \in Nat
  BY <1>2 DEF Calls
<1>4. /\ Weight(c) = 1 + 2 * ((p - (i + di)) + (q - (j + dj)))
      /\ Weight(call) = 1 + 2 * ((p - i) + (q - j))
  BY <1>1, <1>2 DEF Weight
<1>5. di \in Nat /\ dj \in Nat
  OBVIOUS
<1> HIDE DEF p, q, i, j
<1>6. Weight(c) = Weight(call) - 2 * (di + dj)
  BY <1>3, <1>4, <1>5, TwoLess
<1> QED
  BY <1>1, <1>6 DEF Fitting, c

LEMMA SliceWork == ASSUME Typing, SliceStep PROVE Work' < Work
<1>1. stack # <<>> /\ IsSlice
  BY DEF SliceStep, Keep, PairUp, Delete, Insert, IsSlice
<1>2. 0 \in 0..1 /\ 1 \in 0..1
  OBVIOUS
<1>3. Weight(call) \in Nat
  BY <1>1, Innermost, WeightType
\* One call: the slice goes on.
<1>4. ASSUME NEW di \in 0..1, NEW dj \in 0..1, di + dj > 0,
             call.i + di <= Len(call.b), call.j + dj <= Len(call.a),
             stack' = <<AdvanceBy(di, dj)>> \o rest
      PROVE  Work' < Work
  <2> DEFINE c == AdvanceBy(di, dj)
  <2>1. c \in Fitting /\ Weight(c) = Weight(call) - 2 * (di + dj)
    BY <1>1, <1>4, AdvanceWeighs
  <2>2. stack' = <<c>> \o rest
    BY <1>4
  <2> HIDE DEF c
  <2>3. <<c>> \in Seq(Fitting) /\ WorkOf(<<c>>) = Weight(c)
    BY <2>1, WorkOfOne
  <2>4. WorkOf(<<c>>) < Weight(call)
    BY <1>3, <1>4, <2>1, <2>3
  <2> QED
    BY <1>1, <2>2, <2>3, <2>4, LessWork
<1>5. CASE Keep
  <2>1. stack' = <<AdvanceBy(1, 1)>> \o rest
    BY <1>5 DEF Keep
  <2>2. call.i + 1 <= Len(call.b) /\ call.j + 1 <= Len(call.a)
    BY <1>5, KeepCalls
  <2> QED
    BY <1>2, <1>4, <2>1, <2>2
<1>6. CASE Delete
  <2>1. stack' = <<AdvanceBy(1, 0)>> \o rest /\ Unpaired(1, 0)
    BY <1>6 DEF Delete
  <2>2. call.i + 1 <= Len(call.b) /\ call.j + 0 <= Len(call.a)
    BY <1>1, <1>2, <2>1, UnpairedCalls
  <2> QED
    BY <1>2, <1>4, <2>1, <2>2
<1>7. CASE Insert
  <2>1. stack' = <<AdvanceBy(0, 1)>> \o rest /\ Unpaired(0, 1)
    BY <1>7 DEF Insert
  <2>2. call.i + 0 <= Len(call.b) /\ call.j + 1 <= Len(call.a)
    BY <1>1, <1>2, <2>1, UnpairedCalls
  <2> QED
    BY <1>2, <1>4, <2>1, <2>2
\* Two calls: the elements' weighs 1.
<1>8. CASE PairUp
  <2> DEFINE c == AdvanceBy(1, 1)
             p == PairCall
  <2>1. stack' = <<p, c>> \o rest
    BY <1>8 DEF PairUp, PairCall
  <2>2. /\ call.i + 1 <= Len(call.b) /\ call.j + 1 <= Len(call.a)
        /\ p \in Fitting
    BY <1>8, PairUpCalls DEF Fitting
  <2>3. c \in Fitting /\ Weight(c) = Weight(call) - 2 * (1 + 1)
    BY <1>1, <1>2, <2>2, AdvanceWeighs
  <2>4. Weight(p) = 1
    BY DEF PairCall, PointerCall, Weight
  <2> HIDE DEF c, p
  <2>5. /\ <<p>> \in Seq(Fitting) /\ WorkOf(<<p>>) = 1
        /\ <<c>> \in Seq(Fitting) /\ WorkOf(<<c>>) = Weight(c)
    BY <2>2, <2>3, <2>4, WorkOfOne
  <2>6. <<p, c>> = <<p>> \o <<c>>
    BY <2>2, <2>3
  <2>7. <<p, c>> \in Seq(Fitting)
    BY <2>2, <2>3
  <2>8. WorkOf(<<p, c>>) = 1 + Weight(c)
    BY <2>5, <2>6, WorkOfBoth
  <2>9. WorkOf(<<p, c>>) < Weight(call)
    BY <1>3, <2>3, <2>8
  <2> QED
    BY <1>1, <2>1, <2>7, <2>9, LessWork
<1> QED
  BY <1>5, <1>6, <1>7, <1>8 DEF SliceStep

LEMMA EachStepEnds ==
    Typing /\ [Next]_vars =>
        [ \/ visited' # visited /\ visited \subseteq visited'
          \/ visited' = visited /\ Work' < Work ]_vars
<1> SUFFICES ASSUME Typing, [Next]_vars, ~(UNCHANGED vars)
             PROVE  \/ visited' # visited /\ visited \subseteq visited'
                    \/ visited' = visited /\ Work' < Work
  OBVIOUS
<1>1. CASE PopStep
  <2>1. stack # <<>> /\ stack' = <<>> \o rest /\ visited' = visited
    BY <1>1, PopSteps
  <2>2. Weight(call) \in Nat \ {0}
    BY <2>1, Innermost, WeightType
  <2>3. <<>> \in Seq(Fitting) /\ WorkOf(<<>>) < Weight(call)
    BY <2>2, WorkOfNone
  <2> QED
    BY <2>1, <2>3, LessWork
<1>2. CASE SliceStep
  <2>1. visited' = visited
    BY <1>2 DEF SliceStep, Keep, PairUp, Delete, Insert
  <2> QED
    BY <1>2, <2>1, SliceWork
<1>3. CASE Enter
  BY <1>3, EnterCalls DEF Enter, Seen
<1> QED
  BY <1>1, <1>2, <1>3, NextIs

\* EndsOnCycles: on every heap, cyclic or not, each step of the recursion compares a pair
\* that was not compared before, of which there are finitely many, or leaves less to do.
THEOREM RecursionEnds == Spec => EndsOnCycles
<1>1. Spec => []Typing
  BY TypingAlways
<1>2. Typing /\ [Next]_vars =>
        [ \/ visited' # visited /\ visited \subseteq visited'
          \/ visited' = visited /\ Work' < Work ]_vars
  BY EachStepEnds
<1> QED
  BY <1>1, <1>2, PTL DEF Spec, EndsOnCycles
=============================================================================
