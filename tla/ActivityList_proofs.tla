------------------------- MODULE ActivityList_proofs -------------------------
(***************************************************************************)
(* Proofs about ActivityList, for any documents, page sizes, windows and   *)
(* clock.                                                                  *)
(***************************************************************************)
EXTENDS ActivityList, FiniteSetTheorems, TLAPS
-----------------------------------------------------------------------------
(* Integers.                                                               *)

LEMMA TimesMonotone ==
    ASSUME NEW a \in Int, NEW b \in Int, a <= b, NEW c \in Nat
    PROVE  a * c <= b * c
OBVIOUS

LEMMA DivMonotone ==
    ASSUME NEW x \in Int, NEW y \in Int, x <= y, NEW d \in Nat \ {0}
    PROVE  x \div d \in Int /\ y \div d \in Int /\ x \div d <= y \div d
<1> DEFINE p == x \div d
           q == y \div d
<1>1. p \in Int /\ p * d <= x /\ x < p * d + d
  OBVIOUS
<1>2. q \in Int /\ q * d <= y /\ y < q * d + d
  OBVIOUS
<1> HIDE DEF p, q
<1>3. CASE q < p
  <2>1. (q + 1) * d <= p * d
    BY <1>1, <1>2, <1>3, TimesMonotone
  <2>2. (q + 1) * d = q * d + d
    BY <1>2
  <2> QED
    BY <1>1, <1>2, <2>1, <2>2
<1>4. p <= q
  BY <1>1, <1>2, <1>3
<1> QED
  BY <1>1, <1>2, <1>4 DEF p, q

LEMMA MilliMonotone ==
    ASSUME NEW x \in Int, NEW y \in Int, x <= y
    PROVE  Milli(x) \in Int /\ Milli(y) \in Int /\ Milli(x) <= Milli(y)
BY DivMonotone, ListAssumption DEF Milli

Ints == -(IntMax + 1)..IntMax

\* What is left of an integer in an int is an int, and an int is left alone.
LEMMA WrapType ==
    ASSUME NEW x \in Int
    PROVE  Wrap(x) \in Ints /\ (x \in Ints => Wrap(x) = x)
<1> DEFINE m == 2 * (IntMax + 1)
           y == x + IntMax + 1
<1>1. m \in Nat \ {0} /\ y \in Int
  BY ListAssumption
<1>2. y % m \in 0..(m - 1)
  <2> HIDE DEF m, y
  <2> QED
    BY <1>1
<1>3. m = 2 * (IntMax + 1)
  OBVIOUS
<1> DEFINE rest == y % m
<1>4. Wrap(x) = IF -(IntMax + 1) <= x /\ x <= IntMax THEN x ELSE rest - (IntMax + 1)
  BY DEF Wrap
<1> HIDE DEF rest, y, m
<1>5. rest \in 0..(m - 1)
  BY <1>2 DEF rest
<1> QED
  BY <1>3, <1>4, <1>5, ListAssumption DEF Ints

\* A set of naturals has a least element.
LEMMA LeastNatural ==
    ASSUME NEW S \in SUBSET Nat, S # {}
    PROVE  Least(S) \in S /\ \A y \in S : Least(S) <= y
<1> DEFINE below == OpToRel(<, Nat)
<1>1. PICK x \in S : \A y \in S : ~(<<y, x>> \in below)
  <2>1. IsWellFoundedOn(below, Nat)
    BY NatLessThanWellFounded
  <2> HIDE DEF below
  <2> QED
    BY <2>1, WFMin
<1>2. ASSUME NEW y \in S PROVE x <= y
  <2>1. CASE y < x
    <3>1. <<y, x>> \in below
      BY <2>1 DEF OpToRel
    <3> QED
      BY <1>1, <3>1
  <2> QED
    BY <2>1
<1>3. \E z \in S : \A y \in S : z <= y
  BY <1>2
<1> QED
  BY <1>3 DEF Least
-----------------------------------------------------------------------------
(* Pages of a list that is sorted by descending key.                       *)

IsKey(key) == IsFiniteSet(DOMAIN key) /\ key = [x \in DOMAIN key |-> key[x]]
              /\ \A x \in DOMAIN key : key[x] \in Int

Distinct(key) == \A x, y \in DOMAIN key : x # y => key[x] # key[y]

AboveOf(key, x) == {y \in DOMAIN key : key[y] > key[x]}

\* The position of item x in the list, counted from 0.
Rank(key, x) == Cardinality(AboveOf(key, x))

\* The items at positions from .. from + size - 1.
PageAt(key, from, size) ==
    {x \in DOMAIN key : from <= Rank(key, x) /\ Rank(key, x) < from + size}

LEMMA AboveIsFinite ==
    ASSUME NEW key, IsKey(key), NEW x \in DOMAIN key
    PROVE  /\ AboveOf(key, x) \in SUBSET (DOMAIN key) /\ x \notin AboveOf(key, x)
           /\ IsFiniteSet(AboveOf(key, x)) /\ Rank(key, x) \in Nat
<1>1. AboveOf(key, x) \in SUBSET (DOMAIN key)
  BY DEF AboveOf
<1>2. x \notin AboveOf(key, x)
  <2>1. key[x] \in Int
    BY DEF IsKey
  <2> QED
    BY <2>1 DEF AboveOf
<1>3. IsFiniteSet(AboveOf(key, x)) /\ Rank(key, x) \in Nat
  BY <1>1, FS_Subset, FS_CardinalityType DEF IsKey, Rank
<1> QED
  BY <1>1, <1>2, <1>3

\* Every position is one of the list.
LEMMA RankType ==
    ASSUME NEW key, IsKey(key), NEW x \in DOMAIN key
    PROVE  Rank(key, x) \in 0..(Cardinality(DOMAIN key) - 1)
<1>1. /\ AboveOf(key, x) \in SUBSET (DOMAIN key) /\ x \notin AboveOf(key, x)
      /\ Rank(key, x) \in Nat
  BY AboveIsFinite
<1>2. /\ Rank(key, x) <= Cardinality(DOMAIN key)
      /\ Rank(key, x) = Cardinality(DOMAIN key) => AboveOf(key, x) = DOMAIN key
  <2> DEFINE D == DOMAIN key
             A == AboveOf(key, x)
  <2>1. IsFiniteSet(D) /\ A \in SUBSET D /\ Rank(key, x) = Cardinality(A)
    BY <1>1 DEF IsKey, Rank
  <2> HIDE DEF A, D
  <2>2. Cardinality(A) <= Cardinality(D) /\ (Cardinality(D) = Cardinality(A) => D = A)
    BY <2>1, FS_Subset
  <2> QED
    BY <2>1, <2>2 DEF A, D
<1>3. Cardinality(DOMAIN key) \in Nat
  BY FS_CardinalityType DEF IsKey
<1> QED
  BY <1>1, <1>2, <1>3

\* A larger key comes earlier.
LEMMA RankOrder ==
    ASSUME NEW key, IsKey(key), NEW x \in DOMAIN key, NEW y \in DOMAIN key, key[x] > key[y]
    PROVE  Rank(key, x) < Rank(key, y)
<1> DEFINE A == AboveOf(key, x)
           B == AboveOf(key, y)
<1>1. key[x] \in Int /\ key[y] \in Int /\ \A z \in DOMAIN key : key[z] \in Int
  BY DEF IsKey
<1>2. A \subseteq B
  BY <1>1 DEF AboveOf
<1>3. x \in B /\ x \notin A
  BY <1>1 DEF AboveOf
<1>4. IsFiniteSet(B) /\ Cardinality(A) \in Nat /\ Cardinality(B) \in Nat
  BY AboveIsFinite DEF Rank
<1>5. Cardinality(A) = Rank(key, x) /\ Cardinality(B) = Rank(key, y)
  BY DEF Rank
<1> HIDE DEF A, B
<1>6. Cardinality(A) <= Cardinality(B) /\ Cardinality(A) # Cardinality(B)
  BY <1>2, <1>3, <1>4, FS_Subset
<1> QED
  BY <1>4, <1>5, <1>6

\* Without two equal keys no two items have one position, and no position is empty.
LEMMA RankBijection ==
    ASSUME NEW key, IsKey(key), Distinct(key)
    PROVE  [x \in DOMAIN key |-> Rank(key, x)]
             \in Bijection(DOMAIN key, 0..(Cardinality(DOMAIN key) - 1))
<1> DEFINE D == DOMAIN key
           n == Cardinality(D)
           f == [x \in D |-> Rank(key, x)]
<1>1. IsFiniteSet(D) /\ n \in Nat
  BY FS_CardinalityType DEF IsKey
<1>2. f \in [D -> 0..(n - 1)]
  BY RankType
<1>3. ASSUME NEW x \in D, NEW y \in D, x # y PROVE f[x] # f[y]
  <2>1. key[x] # key[y] /\ key[x] \in Int /\ key[y] \in Int
    BY <1>3 DEF Distinct, IsKey
  <2>2. f[x] = Rank(key, x) /\ f[y] = Rank(key, y) /\ f[x] \in Nat /\ f[y] \in Nat
    BY AboveIsFinite
  <2> HIDE DEF f
  <2>3. CASE key[x] > key[y]
    BY <2>2, <2>3, RankOrder
  <2>4. CASE key[y] > key[x]
    BY <2>2, <2>4, RankOrder
  <2> QED
    BY <2>1, <2>3, <2>4
<1> HIDE DEF f
<1>4. f \in Injection(D, 0..(n - 1))
  BY <1>2, <1>3 DEF Injection, IsInjective
<1>5. IsFiniteSet(0..(n - 1)) /\ Cardinality(0..(n - 1)) = n
  <2> HIDE DEF n
  <2> QED
    BY <1>1, FS_Interval
<1>6. f \in Surjection(D, 0..(n - 1))
  <2> DEFINE T == 0..(n - 1)
  <2>1. IsFiniteSet(T) /\ Cardinality(D) = Cardinality(T) /\ f \in Injection(D, T)
    BY <1>4, <1>5
  <2> HIDE DEF T
  <2>2. f \in Surjection(D, T)
    BY <2>1, FS_Injection
  <2> QED
    BY <2>2 DEF T
<1>7. f \in Bijection(D, 0..(n - 1))
  BY <1>4, <1>6 DEF Bijection
<1> QED
  BY <1>7 DEF f

\* A page with an item after it is full.
LEMMA PageBeforeIsFull ==
    ASSUME NEW key, IsKey(key), Distinct(key), NEW from \in Nat, NEW size \in Nat,
           NEW x \in DOMAIN key, Rank(key, x) >= from + size
    PROVE  Cardinality(PageAt(key, from, size)) = size
<1> DEFINE D == DOMAIN key
           n == Cardinality(D)
           P == PageAt(key, from, size)
           I == from..(from + size - 1)
           f == [y \in D |-> Rank(key, y)]
           g == [y \in P |-> Rank(key, y)]
<1>1. f \in Bijection(D, 0..(n - 1))
  BY RankBijection
<1>2. P \subseteq D /\ \A y \in D : f[y] = Rank(key, y)
  BY DEF PageAt
<1>3. \A y \in P : g[y] = f[y]
  BY <1>2
<1>4. Rank(key, x) \in 0..(n - 1) /\ n \in Nat
  BY RankType, FS_CardinalityType DEF IsKey
<1>5. I \subseteq 0..(n - 1)
  <2> HIDE DEF n
  <2> QED
    BY <1>4
<1>6. \A y \in D : y \in P <=> Rank(key, y) \in I
  <2>1. \A y \in D : Rank(key, y) \in Nat
    BY AboveIsFinite
  <2> QED
    BY <2>1 DEF PageAt
<1>7. g \in [P -> I]
  BY <1>2, <1>6
<1>8. IsFiniteSet(I) /\ Cardinality(I) = size
  BY FS_Interval
<1> HIDE DEF D, n, P, I, f, g
<1>9. g \in Injection(P, I)
  BY <1>1, <1>2, <1>3, <1>7 DEF Bijection, Injection, IsInjective
<1>10. g \in Surjection(P, I)
  <2>1. ASSUME NEW i \in I PROVE \E y \in P : g[y] = i
    <3>1. PICK y \in D : f[y] = i
      BY <1>1, <1>5 DEF Bijection, Surjection
    <3>2. y \in P
      BY <1>2, <1>6, <3>1
    <3> QED
      BY <1>3, <3>1, <3>2
  <2> QED
    BY <1>7, <2>1 DEF Surjection
<1>11. Cardinality(P) = Cardinality(I)
  BY <1>8, <1>9, <1>10, FS_Injection
<1> QED
  BY <1>8, <1>11 DEF P

\* Without two equal keys a page shows just the items at its positions.
LEMMA PageOfDistinct ==
    ASSUME NEW key, IsKey(key), Distinct(key), NEW from \in Nat, NEW size \in Nat,
           NEW P \in PagesOf(key, from, size)
    PROVE  P = PageAt(key, from, size)
<1> DEFINE Equal(x) == {y \in DOMAIN key : key[y] = key[x]}
           Stretch(x) == (Rank(key, x) + 1)..(Rank(key, x) + Cardinality(Equal(x)))
           I == (from + 1)..(from + size)
<1>1. /\ P \subseteq DOMAIN key
      /\ \A x \in DOMAIN key : Cardinality(P \cap Equal(x)) = Cardinality(Stretch(x) \cap I)
  BY DEF PagesOf, Rank, AboveOf
<1>2. ASSUME NEW x \in DOMAIN key
      PROVE  x \in P <=> from <= Rank(key, x) /\ Rank(key, x) < from + size
  <2> DEFINE r == Rank(key, x)
  <2>1. r \in Nat
    BY AboveIsFinite
  <2>2. Equal(x) = {x}
    BY DEF Distinct
  <2>3. Cardinality(Equal(x)) = 1
    BY <2>2, FS_Singleton
  <2>4. Stretch(x) = {r + 1}
    <3>1. Stretch(x) = (r + 1)..(r + 1)
      BY <2>3
    <3> HIDE DEF r
    <3> QED
      BY <2>1, <3>1
  <2>5. Cardinality(P \cap {x}) = Cardinality({r + 1} \cap I)
    BY <1>1, <2>2, <2>4
  <2>6. r + 1 \in I <=> from <= r /\ r < from + size
    BY <2>1
  <2> HIDE DEF r, I
  <2>7. ASSUME NEW S, NEW e
        PROVE  Cardinality({e} \cap S) = IF e \in S THEN 1 ELSE 0
    <3>1. CASE e \in S
      <4>1. {e} \cap S = {e}
        BY <3>1
      <4> QED
        BY <3>1, <4>1, FS_Singleton
    <3>2. CASE e \notin S
      <4>1. {e} \cap S = {}
        BY <3>2
      <4> QED
        BY <3>2, <4>1, FS_EmptySet
    <3> QED
      BY <3>1, <3>2
  <2>8. P \cap {x} = {x} \cap P
    OBVIOUS
  <2>9. x \in P <=> r + 1 \in I
    BY <2>5, <2>7, <2>8
  <2> QED
    BY <2>6, <2>9 DEF r
<1> QED
  BY <1>1, <1>2 DEF PageAt
-----------------------------------------------------------------------------
(* The inductive invariant.                                                *)

Modes == {"flat", "trace"}
Param == {Unset, Garbage} \cup Ints

Typing ==
    /\ TypeOK
    /\ IsFiniteSet(DOMAIN written)
    /\ raw \in [mode : {"flat", "trace", "other"}, num : Param, size : Param,
                start : Times, end : Times, conds : {"valid", "malformed", "unknown"}]
    /\ req \in [mode : Modes, num : Ints, size : Ints]
    /\ esReq \in [start : Int, end : Int, from : Ints, size : 0..MaxPageSize]
    /\ walk.pages \in Nat /\ walk.changed \in BOOLEAN
    /\ walk.ties \in BOOLEAN /\ walk.done \in BOOLEAN

\* What a parameter that was not sent stands for.
Sent(v) == IF v = Unset THEN 0 ELSE v

\* req is what the query parameters say.
ParsedInv ==
    stage \in {"build", "search", "ok", "internalError"} =>
        /\ req.mode = raw.mode
        /\ raw.num # Garbage /\ req.num = Sent(raw.num)
        /\ raw.size # Garbage /\ req.size = Sent(raw.size)

\* The range a request has, if it is built at instant t.
EndAt(r, t) == IF r.end = Unset THEN t ELSE r.end
StartAt(r, t) == IF r.start = Unset THEN EndAt(r, t) - DefaultTimeWindow ELSE r.start

\* The search is for the page of req, over a range that was current when it was
\* built.
BuiltInv ==
    stage \in {"search", "ok", "internalError"} =>
        /\ FieldsValid /\ WindowHolds
        /\ esReq.from = From /\ esReq.size = PageSize
        /\ esReq.end <= EndAt(raw, now) /\ esReq.start <= StartAt(raw, now)

\* An error has one of two causes.
ErrorInv == stage = "internalError" => esFailed \/ EsRefuses

\* The page size of the walk.
WalkSize == IF Sent(raw.size) = 0 THEN DefaultPageSize ELSE Sent(raw.size)

\* The pages of the walk so far lie within the window of the search.
WalkInv ==
    /\ walk.pages = 0 => walk = NoWalk
    /\ walk.pages > 0 =>
         /\ raw.mode \in Modes /\ raw.size # Garbage /\ WalkSize \in 1..MaxPageSize
         /\ walk.pages * WalkSize <= MaxResultWindow

\* A walk over a list that stays as it is has shown the first positions of it.
WholeInv ==
    /\ walk.pages > 0 /\ ~walk.changed => walk.last = walk.first
    /\ walk.pages > 0 /\ ~walk.changed /\ ~walk.ties /\ AllKept(walk.first)
       => /\ walk.seen = PageAt(walk.first, 0, walk.pages * WalkSize)
          /\ walk.twice = {}
          /\ walk.done => walk.seen = DOMAIN walk.first

\* The rows of a flat walk are the documents of its range, which moves forward.
RangeInv ==
    raw.mode = "flat" /\ walk.pages > 0 =>
        /\ DOMAIN walk.first \subseteq DOMAIN written /\ DOMAIN walk.last \subseteq DOMAIN written
        /\ \A x \in DOMAIN walk.last : walk.last[x] = written[x].at
        /\ \A x \in DOMAIN walk.first \cup DOMAIN walk.last :
             /\ Milli(written[x].at) <= Milli(EndAt(raw, now))
             /\ stage = "search" => Milli(written[x].at) <= Milli(esReq.end)
        /\ \A x \in DOMAIN walk.first \ DOMAIN walk.last :
             /\ Milli(written[x].at) < Milli(StartAt(raw, now))
             /\ stage = "search" => Milli(written[x].at) < Milli(esReq.start)

\* A row listed from the first page to the last has been shown or is still to come.
MissInv ==
    raw.mode = "flat" /\ walk.pages > 0 /\ ~walk.ties =>
        \A x \in DOMAIN walk.first \cap DOMAIN walk.last :
            \/ x \in walk.seen
            \/ ~walk.done /\ Rank(walk.last, x) >= walk.pages * WalkSize

ListInv ==
    /\ Typing /\ ParsedInv /\ BuiltInv /\ ErrorInv
    /\ WalkInv /\ WholeInv /\ RangeInv /\ MissInv
-----------------------------------------------------------------------------
(* Steps that do not add to the walk.                                      *)

LEMMA RangeType ==
    ASSUME Typing, NEW t \in Int
    PROVE  EndAt(raw, t) \in Int /\ StartAt(raw, t) \in Int
<1>1. raw.start \in Times /\ raw.end \in Times /\ DefaultTimeWindow \in Nat /\ Times \subseteq {Unset} \cup Int
  BY ListAssumption DEF Typing, TypeOK, Times
<1>2. EndAt(raw, t) \in Int
  BY <1>1 DEF EndAt
<1> QED
  BY <1>1, <1>2 DEF StartAt

\* The range of a request never moves back.
LEMMA RangeMovesOn ==
    ASSUME Typing, NEW t \in Int, NEW u \in Int, t <= u
    PROVE  EndAt(raw, t) <= EndAt(raw, u) /\ StartAt(raw, t) <= StartAt(raw, u)
<1>1. EndAt(raw, t) \in Int /\ EndAt(raw, u) \in Int /\ DefaultTimeWindow \in Nat
      /\ StartAt(raw, t) \in Int
  BY RangeType, ListAssumption
<1>2. EndAt(raw, t) <= EndAt(raw, u)
  BY <1>1 DEF EndAt
<1>3. CASE raw.start = Unset
  <2>1. StartAt(raw, t) = EndAt(raw, t) - DefaultTimeWindow
        /\ StartAt(raw, u) = EndAt(raw, u) - DefaultTimeWindow
    BY <1>3 DEF StartAt
  <2> QED
    BY <1>1, <1>2, <2>1
<1>4. CASE raw.start # Unset
  BY <1>1, <1>2, <1>4 DEF StartAt
<1> QED
  BY <1>2, <1>3, <1>4

\* What the walk has shown stands when time passes, documents become visible and
\* the next page is asked for.
LEMMA WalkKept ==
    ASSUME Typing, WalkInv, WholeInv, RangeInv, MissInv,
           now \in Int, now' \in Int, now <= now',
           DOMAIN written \subseteq DOMAIN written',
           \A d \in DOMAIN written : written'[d].at = written[d].at /\ written[d].at \in Int,
           walk' = walk,
           raw'.mode = raw.mode, raw'.size = raw.size, raw'.start = raw.start, raw'.end = raw.end,
           stage' = "search" =>
               \/ stage = "search" /\ esReq' = esReq
               \/ esReq'.end = EndAt(raw, now) /\ esReq'.start = StartAt(raw, now)
    PROVE  WalkInv' /\ WholeInv' /\ RangeInv' /\ MissInv'
<1>1. WalkSize' = WalkSize
  BY DEF WalkSize, Sent
<1>2. WalkInv'
  BY <1>1 DEF WalkInv
<1>3. WholeInv'
  BY <1>1 DEF WholeInv, AllKept
<1>4. MissInv'
  BY <1>1 DEF MissInv
<1>5. RangeInv'
  <2> SUFFICES ASSUME raw.mode = "flat", walk.pages > 0
      PROVE  /\ DOMAIN walk.first \subseteq DOMAIN written' /\ DOMAIN walk.last \subseteq DOMAIN written'
             /\ \A x \in DOMAIN walk.last : walk.last[x] = written'[x].at
             /\ \A x \in DOMAIN walk.first \cup DOMAIN walk.last :
                  /\ Milli(written'[x].at) <= Milli(EndAt(raw', now'))
                  /\ stage' = "search" => Milli(written'[x].at) <= Milli(esReq'.end)
             /\ \A x \in DOMAIN walk.first \ DOMAIN walk.last :
                  /\ Milli(written'[x].at) < Milli(StartAt(raw', now'))
                  /\ stage' = "search" => Milli(written'[x].at) < Milli(esReq'.start)
    BY DEF RangeInv
  <2>1. /\ DOMAIN walk.first \subseteq DOMAIN written /\ DOMAIN walk.last \subseteq DOMAIN written
        /\ \A x \in DOMAIN walk.last : walk.last[x] = written[x].at
    BY DEF RangeInv
  <2>2. EndAt(raw', now') = EndAt(raw, now') /\ StartAt(raw', now') = StartAt(raw, now')
    BY DEF EndAt, StartAt
  <2>3. /\ Milli(EndAt(raw, now)) \in Int /\ Milli(EndAt(raw, now')) \in Int
        /\ Milli(EndAt(raw, now)) <= Milli(EndAt(raw, now'))
    BY RangeType, RangeMovesOn, MilliMonotone
  <2>4. /\ Milli(StartAt(raw, now)) \in Int /\ Milli(StartAt(raw, now')) \in Int
        /\ Milli(StartAt(raw, now)) <= Milli(StartAt(raw, now'))
    BY RangeType, RangeMovesOn, MilliMonotone
  <2>5. ASSUME NEW x \in DOMAIN walk.first \cup DOMAIN walk.last
        PROVE  /\ Milli(written'[x].at) <= Milli(EndAt(raw', now'))
               /\ stage' = "search" => Milli(written'[x].at) <= Milli(esReq'.end)
    <3>1. written'[x].at = written[x].at /\ Milli(written[x].at) \in Int
      BY <2>1, MilliMonotone
    <3>2. /\ Milli(written[x].at) <= Milli(EndAt(raw, now))
          /\ stage = "search" => Milli(written[x].at) <= Milli(esReq.end)
      BY DEF RangeInv
    <3> QED
      BY <2>2, <2>3, <3>1, <3>2
  <2>6. ASSUME NEW x \in DOMAIN walk.first \ DOMAIN walk.last
        PROVE  /\ Milli(written'[x].at) < Milli(StartAt(raw', now'))
               /\ stage' = "search" => Milli(written'[x].at) < Milli(esReq'.start)
    <3>1. written'[x].at = written[x].at /\ Milli(written[x].at) \in Int
      BY <2>1, MilliMonotone
    <3>2. /\ Milli(written[x].at) < Milli(StartAt(raw, now))
          /\ stage = "search" => Milli(written[x].at) < Milli(esReq.start)
      BY DEF RangeInv
    <3> QED
      BY <2>2, <2>4, <3>1, <3>2
  <2>7. \A x \in DOMAIN walk.last : walk.last[x] = written'[x].at
    BY <2>1
  <2> QED
    BY <2>1, <2>5, <2>6, <2>7
<1> QED
  BY <1>2, <1>3, <1>4, <1>5

LEMMA InstantsAreInts ==
    ASSUME Typing
    PROVE  /\ now \in Nat /\ IsFiniteSet(DOMAIN written) /\ DOMAIN written \subseteq Docs
           /\ \A d \in DOMAIN written : written[d].at \in Nat /\ written[d].trace \in Traces
BY ListAssumption DEF Typing, TypeOK
-----------------------------------------------------------------------------
(* Every step keeps the invariant.                                         *)

LEMMA Sizes0 ==
    /\ 0 \in Ints /\ 0 \in 0..MaxPageSize /\ 0 \in Int /\ Unset \in Param /\ Unset \in Times
    /\ MaxPageSize \in Nat \ {0} /\ MaxPageSize \in Ints /\ MaxResultWindow \in Ints
    /\ Ints \subseteq Int
BY ListAssumption DEF Ints, Param, Times

LEMMA InitList == ASSUME Init PROVE ListInv
<1>1. Typing
  <2>1. DOMAIN written = {}
    BY DEF Init
  <2>2. IsFiniteSet(DOMAIN written)
    BY <2>1, FS_EmptySet
  <2>3. raw \in [mode : {"flat", "trace", "other"}, num : Param, size : Param,
                 start : Times, end : Times, conds : {"valid", "malformed", "unknown"}]
    BY Sizes0 DEF Init
  <2>4. req \in [mode : Modes, num : Ints, size : Ints]
    BY Sizes0 DEF Init, Modes
  <2>5. esReq \in [start : Int, end : Int, from : Ints, size : 0..MaxPageSize]
    BY Sizes0 DEF Init
  <2>6. /\ walk.pages \in Nat /\ walk.changed \in BOOLEAN /\ walk.ties \in BOOLEAN
        /\ walk.done \in BOOLEAN /\ walk.seen = {} /\ walk.twice = {}
    BY DEF Init, NoWalk
  <2>7. /\ raw.mode \in {"flat", "trace", "other"} /\ raw.start \in Times /\ raw.end \in Times
        /\ req.num \in -(IntMax + 1)..IntMax /\ req.size \in -(IntMax + 1)..IntMax
        /\ esReq.from \in -(IntMax + 1)..IntMax /\ esReq.size \in 0..MaxPageSize
    BY <2>3, <2>4, <2>5 DEF Ints
  <2>8. /\ now \in 0..MaxTime /\ esFailed = FALSE
        /\ stage \in {"idle", "parse", "build", "search", "ok", "badRequest", "internalError"}
    BY ListAssumption DEF Init
  <2>9. TypeOK
    BY <2>1, <2>6, <2>7, <2>8 DEF TypeOK
  <2> QED
    BY <2>2, <2>3, <2>4, <2>5, <2>6, <2>9 DEF Typing
<1>2. ParsedInv /\ BuiltInv /\ ErrorInv
  BY DEF Init, ParsedInv, BuiltInv, ErrorInv
<1>3. walk = NoWalk /\ walk.pages = 0
  BY DEF Init, NoWalk
<1>4. WalkInv /\ WholeInv /\ RangeInv /\ MissInv
  BY <1>3 DEF WalkInv, WholeInv, RangeInv, MissInv
<1> QED
  BY <1>1, <1>2, <1>4 DEF ListInv

LEMMA TickKeeps == ASSUME ListInv, Tick PROVE ListInv'
<1>1. /\ now' = now + 1 /\ now < MaxTime
      /\ UNCHANGED <<written, stage, raw, req, esReq, esFailed, walk>>
  BY DEF Tick
<1>2. Typing /\ now \in Nat /\ \A d \in DOMAIN written : written[d].at \in Nat
  BY InstantsAreInts DEF ListInv
<1>3. Typing'
  <2>1. now' \in 0..MaxTime /\ \A t \in 0..now : t \in 0..now'
    BY <1>1, <1>2, ListAssumption DEF Typing, TypeOK
  <2>2. \A d \in DOMAIN written' : written'[d].at \in 0..now' /\ written'[d].trace \in Traces
    BY <1>1, <1>2, <2>1 DEF Typing, TypeOK
  <2>3. TypeOK'
    BY <1>1, <1>2, <2>1, <2>2 DEF Typing, TypeOK
  <2> QED
    BY <1>1, <1>2, <2>3 DEF Typing
<1>4. ParsedInv' /\ ErrorInv'
  BY <1>1 DEF ListInv, ParsedInv, ErrorInv, EsRefuses
<1>5. BuiltInv'
  <2> SUFFICES ASSUME stage \in {"search", "ok", "internalError"}
               PROVE  /\ FieldsValid /\ WindowHolds
                      /\ esReq.from = From /\ esReq.size = PageSize
                      /\ esReq.end <= EndAt(raw, now') /\ esReq.start <= StartAt(raw, now')
    BY <1>1 DEF BuiltInv, FieldsValid, WindowHolds, From, PageNum, PageSize
  <2>1. /\ FieldsValid /\ WindowHolds /\ esReq.from = From /\ esReq.size = PageSize
        /\ esReq.end <= EndAt(raw, now) /\ esReq.start <= StartAt(raw, now)
    BY DEF ListInv, BuiltInv
  <2>2. EndAt(raw, now) <= EndAt(raw, now') /\ StartAt(raw, now) <= StartAt(raw, now')
    BY <1>1, <1>2, RangeMovesOn
  <2>3. /\ EndAt(raw, now) \in Int /\ EndAt(raw, now') \in Int
        /\ StartAt(raw, now) \in Int /\ StartAt(raw, now') \in Int
    BY <1>1, <1>2, RangeType
  <2>4. esReq.end \in Int /\ esReq.start \in Int
    BY <1>2 DEF Typing
  <2> QED
    BY <2>1, <2>2, <2>3, <2>4
<1>6. WalkInv' /\ WholeInv' /\ RangeInv' /\ MissInv'
  BY <1>1, <1>2, WalkKept DEF ListInv
<1> QED
  BY <1>3, <1>4, <1>5, <1>6 DEF ListInv

LEMMA WriteKeeps ==
    ASSUME ListInv, NEW d \in Docs, NEW t \in 0..now, NEW tr \in Traces, Write(d, t, tr)
    PROVE  ListInv'
<1>1. /\ d \notin DOMAIN written
      /\ written' = [e \in DOMAIN written \cup {d} |->
                       IF e = d THEN [at |-> t, trace |-> tr] ELSE written[e]]
      /\ UNCHANGED <<now, stage, raw, req, esReq, esFailed, walk>>
  BY DEF Write
<1>2. /\ Typing /\ now \in Nat /\ IsFiniteSet(DOMAIN written)
      /\ \A e \in DOMAIN written : written[e].at \in Nat
  BY InstantsAreInts DEF ListInv
<1>3. /\ DOMAIN written' = DOMAIN written \cup {d}
      /\ \A e \in DOMAIN written : written'[e] = written[e]
      /\ written'[d].at = t /\ written'[d].trace = tr
  BY <1>1
<1>4. Typing'
  <2>1. IsFiniteSet(DOMAIN written')
    BY <1>2, <1>3, FS_AddElement
  <2>2. \A e \in DOMAIN written' : written'[e].at \in 0..now' /\ written'[e].trace \in Traces
    BY <1>1, <1>2, <1>3 DEF Typing, TypeOK
  <2>3. TypeOK'
    BY <1>1, <1>2, <1>3, <2>2 DEF Typing, TypeOK
  <2> QED
    BY <1>1, <1>2, <2>1, <2>3 DEF Typing
<1>5. ParsedInv' /\ ErrorInv'
  BY <1>1 DEF ListInv, ParsedInv, ErrorInv, EsRefuses
<1>6. BuiltInv'
  BY <1>1 DEF ListInv, BuiltInv, FieldsValid, WindowHolds, From, PageNum, PageSize, EndAt, StartAt
<1>7. WalkInv' /\ WholeInv' /\ RangeInv' /\ MissInv'
  BY <1>1, <1>2, <1>3, WalkKept DEF ListInv
<1> QED
  BY <1>4, <1>5, <1>6, <1>7 DEF ListInv

\* A new request has no search yet.
LEMMA ForgetType ==
    ASSUME Forget
    PROVE  /\ req' \in [mode : Modes, num : Ints, size : Ints]
           /\ esReq' \in [start : Int, end : Int, from : Ints, size : 0..MaxPageSize]
           /\ req'.num \in Ints /\ req'.size \in Ints /\ esReq'.from \in Ints
           /\ esReq'.size \in 0..MaxPageSize
           /\ esFailed' \in BOOLEAN
BY Sizes0 DEF Forget, Modes

LEMMA AskKeeps == ASSUME ListInv, NEW r \in Requests, Ask(r) PROVE ListInv'
<1>1. stage' = "parse" /\ raw' = r /\ walk' = NoWalk /\ UNCHANGED <<now, written>> /\ Forget
  BY DEF Ask
<1>2. Typing /\ now \in 0..MaxTime
  BY DEF ListInv, Typing, TypeOK
<1>3. r \in [mode : {"flat", "trace", "other"}, num : Param, size : Param,
             start : Times, end : Times, conds : {"valid", "malformed", "unknown"}]
  <2>1. Nums \cup {Unset} \subseteq Param /\ Sizes \cup {Unset} \subseteq Param
    BY ListAssumption DEF Param, Ints
  <2>2. {Unset, 0} \subseteq Times /\ {Unset, now} \subseteq Times
    BY <1>2, ListAssumption DEF Times
  <2>3. Garbage \in Param /\ Unset \in Param /\ Unset \in Times
    BY DEF Param, Times
  <2>4. CASE r \in [mode : {"flat", "trace"}, num : Nums \cup {Unset}, size : Sizes \cup {Unset},
                    start : {Unset, 0}, end : {Unset, now}, conds : {"valid"}]
    BY <2>1, <2>2, <2>4
  <2>5. CASE r \in {[Plain EXCEPT !.mode = "other"], [Plain EXCEPT !.num = Garbage],
                    [Plain EXCEPT !.size = Garbage]}
    BY <2>3, <2>5 DEF Plain
  <2>6. CASE r \in {[Plain EXCEPT !.conds = c] : c \in {"malformed", "unknown"}}
    BY <2>3, <2>6 DEF Plain
  <2> QED
    BY <2>4, <2>5, <2>6 DEF Requests
<1>4. Typing'
  <2>1. /\ walk'.pages \in Nat /\ walk'.changed \in BOOLEAN /\ walk'.ties \in BOOLEAN
        /\ walk'.done \in BOOLEAN /\ walk'.seen = {} /\ walk'.twice = {}
    BY <1>1 DEF NoWalk
  <2>2. /\ raw'.mode \in {"flat", "trace", "other"} /\ raw'.start \in Times /\ raw'.end \in Times
    BY <1>1, <1>3
  <2>3. TypeOK'
    BY <1>1, <1>2, <2>1, <2>2, ForgetType DEF Typing, TypeOK, Ints
  <2> QED
    BY <1>1, <1>2, <1>3, <2>1, <2>3, ForgetType DEF Typing
<1>5. ParsedInv' /\ BuiltInv' /\ ErrorInv'
  BY <1>1 DEF ParsedInv, BuiltInv, ErrorInv
<1>6. walk' = NoWalk /\ walk'.pages = 0
  BY <1>1 DEF NoWalk
<1>7. WalkInv' /\ WholeInv' /\ RangeInv' /\ MissInv'
  BY <1>6 DEF WalkInv, WholeInv, RangeInv, MissInv
<1> QED
  BY <1>4, <1>5, <1>7 DEF ListInv

\* The next page has a number that is an int.
LEMMA NextPageNumber ==
    ASSUME Typing, WalkInv
    PROVE  walk.pages \in Ints /\ walk.pages + 1 \in Ints
<1>1. CASE walk.pages = 0
  BY <1>1, ListAssumption DEF Ints
<1>2. CASE walk.pages > 0
  <2> DEFINE k == walk.pages
             size == WalkSize
  <2>1. k \in Nat /\ size \in Nat /\ 1 <= size /\ k * size <= MaxResultWindow
    BY <1>2, Sizes0 DEF Typing, WalkInv
  <2> HIDE DEF k, size
  <2>2. 1 * k <= size * k
    BY <2>1, TimesMonotone
  <2>3. size * k = k * size
    BY <2>1
  <2>4. k <= MaxResultWindow
    BY <2>1, <2>2, <2>3, ListAssumption
  <2> QED
    BY <2>1, <2>4, ListAssumption DEF Ints, k
<1> QED
  BY <1>1, <1>2 DEF Typing

LEMMA AskNextKeeps == ASSUME ListInv, AskNext PROVE ListInv'
<1>1. /\ stage' = "parse" /\ raw' = [raw EXCEPT !.num = walk.pages + 1]
      /\ UNCHANGED <<now, written, walk>> /\ Forget
  BY DEF AskNext
<1>2. Typing /\ now \in Nat /\ \A d \in DOMAIN written : written[d].at \in Nat
  BY InstantsAreInts DEF ListInv
<1>3. /\ raw' \in [mode : {"flat", "trace", "other"}, num : Param, size : Param,
                   start : Times, end : Times, conds : {"valid", "malformed", "unknown"}]
      /\ raw'.mode = raw.mode /\ raw'.size = raw.size
      /\ raw'.start = raw.start /\ raw'.end = raw.end
  <2>1. walk.pages + 1 \in Param
    BY NextPageNumber DEF ListInv, Param
  <2> QED
    BY <1>1, <1>2, <2>1 DEF Typing
<1>4. Typing'
  <2>1. TypeOK'
    BY <1>1, <1>2, <1>3, ForgetType DEF Typing, TypeOK, Ints
  <2> QED
    BY <1>1, <1>2, <1>3, <2>1, ForgetType DEF Typing
<1>5. ParsedInv' /\ BuiltInv' /\ ErrorInv'
  BY <1>1 DEF ParsedInv, BuiltInv, ErrorInv
<1>6. WalkInv' /\ WholeInv' /\ RangeInv' /\ MissInv'
  BY <1>1, <1>2, <1>3, WalkKept DEF ListInv
<1> QED
  BY <1>4, <1>5, <1>6 DEF ListInv

LEMMA ParseKeeps == ASSUME ListInv, Parse PROVE ListInv'
<1> DEFINE bad == \/ raw.mode = "other" \/ raw.num = Garbage \/ raw.size = Garbage
                  \/ raw.conds = "malformed"
<1>1. Typing /\ now \in Nat /\ \A d \in DOMAIN written : written[d].at \in Nat
  BY InstantsAreInts DEF ListInv
<1>2. UNCHANGED <<now, written, raw, esReq, esFailed, walk>>
  BY DEF Parse
<1>3. /\ stage' \in {"badRequest", "build"}
      /\ req' \in [mode : Modes, num : Ints, size : Ints]
      /\ stage' = "build" =>
           /\ req'.mode = raw.mode
           /\ raw.num # Garbage /\ req'.num = Sent(raw.num)
           /\ raw.size # Garbage /\ req'.size = Sent(raw.size)
  <2>1. CASE bad
    <3>1. stage' = "badRequest" /\ req' = req
      BY <2>1 DEF Parse
    <3> QED
      BY <1>1, <3>1 DEF Typing
  <2>2. CASE ~bad
    <3>1. /\ stage' = "build"
          /\ req' = [mode |-> raw.mode, num |-> Sent(raw.num), size |-> Sent(raw.size)]
      BY <2>2 DEF Parse, Sent
    <3>2. raw.mode \in {"flat", "trace", "other"} /\ raw.num \in Param /\ raw.size \in Param
      BY <1>1 DEF Typing
    <3>3. raw.mode \in Modes /\ Sent(raw.num) \in Ints /\ Sent(raw.size) \in Ints
      BY <2>2, <3>2, Sizes0 DEF Param, Sent, Modes
    <3> QED
      BY <2>2, <3>1, <3>3
  <2> QED
    BY <2>1, <2>2
<1>4. Typing'
  <2>1. req'.num \in Ints /\ req'.size \in Ints
    BY <1>3
  <2>2. TypeOK'
    BY <1>1, <1>2, <1>3, <2>1 DEF Typing, TypeOK, Ints
  <2> QED
    BY <1>1, <1>2, <1>3, <2>2 DEF Typing
<1>5. ParsedInv'
  BY <1>2, <1>3 DEF ParsedInv
<1>6. BuiltInv' /\ ErrorInv'
  BY <1>3 DEF BuiltInv, ErrorInv
<1>7. WalkInv' /\ WholeInv' /\ RangeInv' /\ MissInv'
  BY <1>1, <1>2, <1>3, WalkKept DEF ListInv
<1> QED
  BY <1>4, <1>5, <1>6, <1>7 DEF ListInv

LEMMA BuildKeeps == ASSUME ListInv, Build PROVE ListInv'
<1>1. Typing /\ now \in Nat /\ \A d \in DOMAIN written : written[d].at \in Nat
  BY InstantsAreInts DEF ListInv
<1>2. stage = "build" /\ UNCHANGED <<now, written, raw, req, esFailed, walk>>
  BY DEF Build
<1>3. CASE ~(FieldsValid /\ WindowHolds)
  <2>1. stage' = "badRequest" /\ esReq' = esReq
    BY <1>3 DEF Build
  <2>2. Typing'
    BY <1>1, <1>2, <2>1 DEF Typing, TypeOK
  <2>3. ParsedInv' /\ BuiltInv' /\ ErrorInv'
    BY <2>1 DEF ParsedInv, BuiltInv, ErrorInv
  <2>4. WalkInv' /\ WholeInv' /\ RangeInv' /\ MissInv'
    BY <1>1, <1>2, <2>1, WalkKept DEF ListInv
  <2> QED
    BY <2>2, <2>3, <2>4 DEF ListInv
<1>4. CASE FieldsValid /\ WindowHolds
  <2>1. /\ stage' = "search"
        /\ esReq' = [start |-> StartAt(raw, now), end |-> EndAt(raw, now),
                     from |-> From, size |-> PageSize]
    BY <1>4 DEF Build, StartAt, EndAt
  <2>2. /\ esReq'.start = StartAt(raw, now) /\ esReq'.end = EndAt(raw, now)
        /\ esReq'.from = From /\ esReq'.size = PageSize
    BY <2>1
  <2>3. StartAt(raw, now) \in Int /\ EndAt(raw, now) \in Int
    BY <1>1, RangeType
  <2>4. PageSize \in 0..MaxPageSize /\ PageNum \in Ints
    BY <1>1, <1>4, ListAssumption DEF Typing, FieldsValid, PageSize, PageNum, Ints
  <2>5. From \in Ints
    <3>1. PageNum - 1 \in Int
      BY <2>4, Sizes0
    <3>2. Wrap(PageNum - 1) \in Ints
      BY <3>1, WrapType
    <3>3. Wrap(PageNum - 1) \in Int
      BY <3>2, Sizes0
    <3>4. PageSize \in Int
      BY <2>4
    <3>5. Wrap(PageNum - 1) * PageSize \in Int
      BY <3>3, <3>4
    <3> QED
      BY <3>5, WrapType DEF From
  <2>6. Typing'
    <3>1. esReq' \in [start : Int, end : Int, from : Ints, size : 0..MaxPageSize]
      BY <2>1, <2>3, <2>4, <2>5
    <3>2. TypeOK'
      BY <1>1, <1>2, <2>1, <2>2, <2>4, <2>5 DEF Typing, TypeOK, Ints
    <3> QED
      BY <1>1, <1>2, <3>1, <3>2 DEF Typing
  <2>7. ParsedInv'
    BY <1>2 DEF ListInv, ParsedInv
  <2>8. BuiltInv'
    <3>1. /\ FieldsValid' = FieldsValid /\ WindowHolds' = WindowHolds
          /\ From' = From /\ PageSize' = PageSize
      BY <1>2 DEF FieldsValid, WindowHolds, From, PageNum, PageSize
    <3>2. StartAt(raw, now)' = StartAt(raw, now) /\ EndAt(raw, now)' = EndAt(raw, now)
      BY <1>2 DEF StartAt, EndAt
    <3> QED
      BY <1>4, <2>2, <2>3, <3>1, <3>2 DEF BuiltInv
  <2>9. ErrorInv'
    BY <2>1 DEF ErrorInv
  <2>10. WalkInv' /\ WholeInv' /\ RangeInv' /\ MissInv'
    BY <1>1, <1>2, <2>2, WalkKept DEF ListInv
  <2> QED
    BY <2>6, <2>7, <2>8, <2>9, <2>10 DEF ListInv
<1> QED
  BY <1>3, <1>4

LEMMA SearchFailsKeeps == ASSUME ListInv, SearchFails PROVE ListInv'
<1>1. Typing /\ now \in Nat /\ \A d \in DOMAIN written : written[d].at \in Nat
  BY InstantsAreInts DEF ListInv
<1>2. /\ stage = "search" /\ stage' = "internalError"
      /\ UNCHANGED <<now, written, raw, req, esReq, walk>>
      /\ (EsRefuses /\ esFailed' = esFailed) \/ esFailed' = TRUE
  BY DEF SearchFails
<1>3. Typing'
  BY <1>1, <1>2 DEF Typing, TypeOK
<1>4. ParsedInv'
  BY <1>2 DEF ListInv, ParsedInv
<1>5. BuiltInv'
  BY <1>2 DEF ListInv, BuiltInv, FieldsValid, WindowHolds, From, PageNum, PageSize, EndAt, StartAt
<1>6. ErrorInv'
  <2>1. EsRefuses' = EsRefuses
    BY <1>2 DEF EsRefuses
  <2> QED
    BY <1>2, <2>1 DEF ErrorInv
<1>7. WalkInv' /\ WholeInv' /\ RangeInv' /\ MissInv'
  BY <1>1, <1>2, WalkKept DEF ListInv
<1> QED
  BY <1>3, <1>4, <1>5, <1>6, <1>7 DEF ListInv

LEMMA StutterKeeps == ASSUME ListInv, UNCHANGED vars PROVE ListInv'
<1>1. Typing /\ now \in Nat /\ \A d \in DOMAIN written : written[d].at \in Nat
  BY InstantsAreInts DEF ListInv
<1>2. UNCHANGED <<now, written, stage, raw, req, esReq, esFailed, walk>>
  BY DEF vars
<1>3. Typing'
  BY <1>1, <1>2 DEF Typing, TypeOK
<1>4. ParsedInv' /\ ErrorInv'
  BY <1>2 DEF ListInv, ParsedInv, ErrorInv, EsRefuses
<1>5. BuiltInv'
  BY <1>2 DEF ListInv, BuiltInv, FieldsValid, WindowHolds, From, PageNum, PageSize, EndAt, StartAt
<1>6. WalkInv' /\ WholeInv' /\ RangeInv' /\ MissInv'
  BY <1>1, <1>2, WalkKept DEF ListInv
<1> QED
  BY <1>3, <1>4, <1>5, <1>6 DEF ListInv
-----------------------------------------------------------------------------
(* The searches.                                                           *)

\* The page the walk has come to begins where the one before it ended.
LEMMA WalkPage ==
    ASSUME ListInv, stage = "search", ~EsRefuses, PageNum = walk.pages + 1
    PROVE  /\ WalkSize \in 1..MaxPageSize /\ WalkSize \in Nat \ {0} /\ walk.pages \in Nat
           /\ walk.pages * WalkSize \in Nat
           /\ esReq.size = WalkSize /\ esReq.from = walk.pages * WalkSize
           /\ (walk.pages + 1) * WalkSize = walk.pages * WalkSize + WalkSize
           /\ (walk.pages + 1) * WalkSize <= MaxResultWindow
           /\ raw.mode \in Modes /\ raw.size # Garbage
<1>1. /\ Typing /\ WalkInv /\ FieldsValid /\ esReq.from = From /\ esReq.size = PageSize
      /\ req.mode = raw.mode /\ raw.size # Garbage /\ req.size = Sent(raw.size)
  BY DEF ListInv, BuiltInv, ParsedInv
<1>2. PageSize = WalkSize
  BY <1>1 DEF PageSize, WalkSize
<1>3. PageSize \in 1..MaxPageSize /\ PageSize \in Nat \ {0}
  BY <1>1, ListAssumption DEF Typing, FieldsValid, PageSize, Ints
<1>4. walk.pages \in Nat /\ walk.pages \in Ints
  BY <1>1, NextPageNumber DEF Typing
<1>5. walk.pages * WalkSize \in Nat /\ walk.pages * WalkSize \in Ints
  <2>1. CASE walk.pages = 0
    <3>1. walk.pages * WalkSize = 0
      BY <1>2, <1>3, <2>1
    <3> QED
      BY <3>1, Sizes0
  <2>2. CASE walk.pages > 0
    <3>1. walk.pages * WalkSize <= MaxResultWindow
      BY <1>1, <2>2 DEF WalkInv
    <3>2. walk.pages * WalkSize \in Nat
      BY <1>2, <1>3, <1>4
    <3> QED
      BY <3>1, <3>2, ListAssumption DEF Ints
  <2> QED
    BY <1>4, <2>1, <2>2
<1>6. From = walk.pages * WalkSize
  <2>1. Wrap(PageNum - 1) = walk.pages
    <3>1. PageNum - 1 = walk.pages /\ walk.pages \in Int
      BY <1>4
    <3> QED
      BY <1>4, <3>1, WrapType
  <2>2. walk.pages * WalkSize \in Int
    BY <1>5
  <2> QED
    BY <1>2, <1>5, <2>1, <2>2, WrapType DEF From
<1>7. (walk.pages + 1) * WalkSize = walk.pages * WalkSize + WalkSize
  BY <1>2, <1>3, <1>4
<1>8. walk.pages * WalkSize + WalkSize <= MaxResultWindow
  BY <1>1, <1>2, <1>3, <1>5, <1>6, ListAssumption DEF EsRefuses
<1>9. raw.mode \in Modes
  BY <1>1 DEF Typing
<1> QED
  BY <1>1, <1>2, <1>3, <1>4, <1>5, <1>6, <1>7, <1>8, <1>9

\* The page that follows the first from positions.
LEMMA PagesJoin ==
    ASSUME NEW key, IsKey(key), NEW from \in Nat, NEW size \in Nat
    PROVE  /\ PageAt(key, 0, from) \cup PageAt(key, from, size) = PageAt(key, 0, from + size)
           /\ PageAt(key, 0, from) \cap PageAt(key, from, size) = {}
           /\ PageAt(key, 0, 0) = {}
<1>1. \A x \in DOMAIN key : Rank(key, x) \in Nat
  BY AboveIsFinite
<1> QED
  BY <1>1 DEF PageAt

\* A short page is the last one.
LEMMA ShortPageIsLast ==
    ASSUME NEW key, IsKey(key), Distinct(key), NEW from \in Nat, NEW size \in Nat,
           Cardinality(PageAt(key, from, size)) < size, NEW x \in DOMAIN key
    PROVE  Rank(key, x) < from + size
<1>1. Rank(key, x) \in Nat /\ from + size \in Nat
  BY AboveIsFinite
<1>2. CASE Rank(key, x) >= from + size
  BY <1>2, PageBeforeIsFull
<1> QED
  BY <1>1, <1>2

\* What the search shows of a list without equal keys, the walk has come to.
LEMMA ShowWhole ==
    ASSUME ListInv, stage = "search", ~EsRefuses, PageNum = walk.pages + 1,
           raw' = raw,
           NEW key, IsKey(key), NEW tied \in BOOLEAN, ~tied => Distinct(key),
           NEW P, ~tied /\ AllKept(key)
                    => P = PageAt(key, esReq.from, esReq.size),
           Show(key, tied, P)
    PROVE  WholeInv'
<1> DEFINE k == walk.pages
           size == WalkSize
<1>1. /\ size \in Nat \ {0} /\ k \in Nat /\ k * size \in Nat
      /\ esReq.size = size /\ esReq.from = k * size /\ (k + 1) * size = k * size + size
  BY WalkPage
<1>2. walk' = [seen    |-> walk.seen \cup P,
               twice   |-> walk.twice \cup (walk.seen \cap P),
               first   |-> IF k = 0 THEN key ELSE walk.first,
               last    |-> key,
               pages   |-> k + 1,
               changed |-> walk.changed \/ (k > 0 /\ key # walk.first),
               ties    |-> walk.ties \/ tied,
               done    |-> Cardinality(P) < esReq.size]
  BY DEF Show
<1>3. WalkSize' = size
  BY DEF WalkSize, Sent
<1>4. ASSUME ~walk'.changed
      PROVE  /\ walk'.first = key /\ walk'.last = key
             /\ k > 0 => ~walk.changed /\ walk.first = key
  <2>1. /\ walk'.first = (IF k = 0 THEN key ELSE walk.first) /\ walk'.last = key
        /\ walk'.changed = (walk.changed \/ (k > 0 /\ key # walk.first))
    BY <1>2
  <2>2. k > 0 => ~walk.changed /\ walk.first = key
    BY <1>4, <2>1
  <2>3. k = 0 \/ k > 0
    BY <1>1
  <2> QED
    BY <2>1, <2>2, <2>3
<1>5. ASSUME ~walk'.changed, ~walk'.ties, AllKept(key)
      PROVE  /\ walk'.seen = PageAt(key, 0, (k + 1) * size)
             /\ walk'.twice = {}
             /\ walk'.done => walk'.seen = DOMAIN key
  <2>1. ~tied /\ ~walk.ties
    BY <1>2, <1>5
  <2>2. Distinct(key) /\ P = PageAt(key, k * size, size)
    BY <1>1, <1>5, <2>1
  <2>3. walk.seen = PageAt(key, 0, k * size) /\ walk.twice = {}
    <3>1. CASE k = 0
      <4>1. walk.seen = {} /\ walk.twice = {}
        BY <3>1 DEF ListInv, WalkInv, NoWalk
      <4>2. k * size = 0
        BY <1>1, <3>1
      <4> QED
        BY <4>1, <4>2, PagesJoin
    <3>2. CASE k > 0
      <4>1. ~walk.changed /\ walk.first = key
        BY <1>4, <1>5, <3>2
      <4> QED
        BY <1>5, <2>1, <3>2, <4>1 DEF ListInv, WholeInv
    <3>3. k = 0 \/ k > 0
      BY <1>1
    <3> QED
      BY <3>1, <3>2, <3>3
  <2>4. walk'.seen = walk.seen \cup P /\ walk'.twice = walk.twice \cup (walk.seen \cap P)
        /\ walk'.done = (Cardinality(P) < size)
    BY <1>1, <1>2
  <2> HIDE DEF k, size
  <2>5. walk'.seen = PageAt(key, 0, k * size + size) /\ walk'.twice = {}
    BY <1>1, <2>2, <2>3, <2>4, PagesJoin
  <2>6. ASSUME walk'.done PROVE walk'.seen = DOMAIN key
    <3>1. ASSUME NEW x \in DOMAIN key PROVE 0 <= Rank(key, x) /\ Rank(key, x) < k * size + size
      <4>1. Cardinality(PageAt(key, k * size, size)) < size
        BY <2>2, <2>4, <2>6
      <4>2. k * size \in Nat /\ size \in Nat
        BY <1>1
      <4>3. Rank(key, x) < k * size + size
        BY <2>2, <4>1, <4>2, ShortPageIsLast
      <4>4. Rank(key, x) \in Nat
        BY AboveIsFinite
      <4> QED
        BY <4>3, <4>4
    <3>2. 0 + (k * size + size) = k * size + size
      BY <1>1
    <3> QED
      BY <2>5, <3>1, <3>2 DEF PageAt
  <2> QED
    BY <1>1, <2>5, <2>6
<1>6. walk'.pages = k + 1
  BY <1>2
<1>7. ASSUME ~walk'.changed PROVE AllKept(walk.first)' = AllKept(key)
  BY <1>4, <1>7 DEF AllKept
<1> HIDE DEF k, size
<1> QED
  BY <1>3, <1>4, <1>5, <1>6, <1>7 DEF WholeInv

\* The rows of a flat search are the documents of its range.
LEMMA ShowRange ==
    ASSUME ListInv, stage = "search", PageNum = walk.pages + 1,
           UNCHANGED <<now, written, raw>>, stage' = "ok", raw.mode = "flat",
           NEW tied, NEW P, Show(RowKeys(Matching(esReq)), tied, P)
    PROVE  RangeInv'
<1> DEFINE D == Matching(esReq)
           key == RowKeys(D)
           lo == Milli(esReq.start)
           hi == Milli(esReq.end)
<1>1. /\ Typing /\ esReq.start \in Int /\ esReq.end \in Int
      /\ \A d \in DOMAIN written : written[d].at \in Int /\ Milli(written[d].at) \in Int
      /\ now \in Int
  BY InstantsAreInts, MilliMonotone DEF ListInv, Typing
<1>2. /\ lo \in Int /\ Milli(StartAt(raw, now)) \in Int /\ lo <= Milli(StartAt(raw, now))
      /\ hi \in Int /\ Milli(EndAt(raw, now)) \in Int /\ hi <= Milli(EndAt(raw, now))
  <2>1. esReq.start <= StartAt(raw, now) /\ esReq.end <= EndAt(raw, now)
    BY DEF ListInv, BuiltInv
  <2> QED
    BY <1>1, <2>1, RangeType, MilliMonotone
<1>3. \A d \in DOMAIN written : d \in D <=> lo <= Milli(written[d].at) /\ Milli(written[d].at) <= hi
  BY DEF Matching
<1>4. D \subseteq DOMAIN written /\ DOMAIN key = D /\ \A d \in D : key[d] = written[d].at
  BY DEF Matching, RowKeys
<1> HIDE DEF D, lo, hi
<1>5. walk'.last = key /\ walk'.first = (IF walk.pages = 0 THEN key ELSE walk.first)
  BY DEF Show, D
<1>6. ASSUME walk.pages > 0
      PROVE  /\ DOMAIN walk.first \subseteq DOMAIN written /\ DOMAIN walk.last \subseteq DOMAIN written
             /\ \A x \in DOMAIN walk.first \cup DOMAIN walk.last : Milli(written[x].at) <= hi
             /\ \A x \in DOMAIN walk.first \ DOMAIN walk.last : Milli(written[x].at) < lo
  BY <1>6 DEF ListInv, RangeInv, lo, hi
<1>7. walk.pages \in Nat
  BY <1>1 DEF Typing
<1> HIDE DEF key
<1>8. ASSUME NEW x \in DOMAIN walk'.first
      PROVE  /\ x \in DOMAIN written /\ Milli(written[x].at) <= hi
             /\ x \notin D => Milli(written[x].at) < lo
  <2>1. CASE walk.pages = 0
    BY <1>3, <1>4, <1>5, <2>1
  <2>2. CASE walk.pages > 0
    <3>1. x \in DOMAIN walk.first
      BY <1>5, <2>2
    <3>2. x \in DOMAIN written /\ Milli(written[x].at) <= hi
      BY <1>6, <2>2, <3>1
    <3>3. ASSUME x \notin D PROVE Milli(written[x].at) < lo
      BY <1>1, <1>2, <1>3, <3>2, <3>3
    <3> QED
      BY <3>2, <3>3
  <2> QED
    BY <1>7, <2>1, <2>2
<1>9. ASSUME NEW x \in DOMAIN walk'.last
      PROVE  x \in DOMAIN written /\ Milli(written[x].at) <= hi /\ walk'.last[x] = written[x].at
  BY <1>3, <1>4, <1>5, <1>9
<1>10. /\ DOMAIN walk'.first \subseteq DOMAIN written' /\ DOMAIN walk'.last \subseteq DOMAIN written'
       /\ \A x \in DOMAIN walk'.last : walk'.last[x] = written'[x].at
  BY <1>8, <1>9
<1>11. \A x \in DOMAIN walk'.first \cup DOMAIN walk'.last : Milli(written'[x].at) <= Milli(EndAt(raw', now'))
  BY <1>1, <1>2, <1>8, <1>9
<1>12. \A x \in DOMAIN walk'.first \ DOMAIN walk'.last : Milli(written'[x].at) < Milli(StartAt(raw', now'))
  BY <1>1, <1>2, <1>4, <1>5, <1>8
<1> QED
  BY <1>10, <1>11, <1>12 DEF RangeInv

\* A row that was passed over is never passed by: of the rows above it none falls
\* out of the range before it does.
LEMMA ShowMiss ==
    ASSUME ListInv, stage = "search", ~EsRefuses, PageNum = walk.pages + 1,
           UNCHANGED <<now, written, raw>>, raw.mode = "flat",
           NEW tied \in BOOLEAN, NEW P, IsKey(RowKeys(Matching(esReq))),
           ~tied => /\ Distinct(RowKeys(Matching(esReq)))
                    /\ P = PageAt(RowKeys(Matching(esReq)), esReq.from, esReq.size),
           Show(RowKeys(Matching(esReq)), tied, P)
    PROVE  MissInv'
<1> DEFINE D == Matching(esReq)
           key == RowKeys(D)
           k == walk.pages
           size == WalkSize
           lo == Milli(esReq.start)
           hi == Milli(esReq.end)
<1>1. /\ size \in Nat \ {0} /\ k \in Nat /\ k * size \in Nat
      /\ esReq.size = size /\ esReq.from = k * size /\ (k + 1) * size = k * size + size
  BY WalkPage
<1>2. /\ walk'.seen = walk.seen \cup P
      /\ walk'.first = (IF k = 0 THEN key ELSE walk.first)
      /\ walk'.last = key
      /\ walk'.pages = k + 1
      /\ walk'.ties = (walk.ties \/ tied)
      /\ walk'.done = (Cardinality(P) < size)
  BY <1>1 DEF Show
<1>3. WalkSize' = size
  BY DEF WalkSize, Sent
<1>4. /\ \A d \in DOMAIN written : written[d].at \in Int /\ Milli(written[d].at) \in Int
      /\ lo \in Int /\ hi \in Int
  BY InstantsAreInts, MilliMonotone DEF ListInv, Typing
<1>5. /\ D = {d \in DOMAIN written : lo <= Milli(written[d].at) /\ Milli(written[d].at) <= hi}
      /\ DOMAIN key = D /\ \A d \in D : key[d] = written[d].at
  BY DEF Matching, RowKeys
<1>6. IsKey(key) /\ (~tied => Distinct(key) /\ P = PageAt(key, k * size, size))
  BY <1>1
<1>7. ASSUME ~walk.ties, k > 0
      PROVE  /\ DOMAIN walk.last \subseteq DOMAIN written /\ DOMAIN walk.first \subseteq DOMAIN written
             /\ \A x \in DOMAIN walk.last : walk.last[x] = written[x].at /\ Milli(written[x].at) <= hi
             /\ \A x \in DOMAIN walk.first \ DOMAIN walk.last : Milli(written[x].at) < lo
             /\ \A x \in DOMAIN walk.first \cap DOMAIN walk.last :
                  x \in walk.seen \/ Rank(walk.last, x) >= k * size
  BY <1>7 DEF ListInv, RangeInv, MissInv
<1>8. k = 0 \/ k > 0
  BY <1>1
<1> HIDE DEF D, key, k, size, lo, hi
<1>9. ASSUME ~walk'.ties, NEW x \in DOMAIN walk'.first \cap DOMAIN walk'.last
      PROVE  x \in walk'.seen \/ (~walk'.done /\ Rank(key, x) >= (k + 1) * size)
  <2>1. ~tied /\ ~walk.ties
    BY <1>2, <1>9
  <2>2. x \in D /\ x \in DOMAIN key /\ Rank(key, x) \in Nat
    BY <1>2, <1>5, <1>6, AboveIsFinite
  <2>3. x \in walk.seen \/ Rank(key, x) >= k * size
    <3>1. CASE k = 0
      <4>1. k * size = 0
        BY <1>1, <3>1
      <4> QED
        BY <2>2, <4>1
    <3>2. CASE k > 0
      <4> DEFINE last == walk.last
      <4>1. /\ DOMAIN last \subseteq DOMAIN written /\ DOMAIN walk.first \subseteq DOMAIN written
            /\ \A y \in DOMAIN last : last[y] = written[y].at /\ Milli(written[y].at) <= hi
            /\ \A y \in DOMAIN walk.first \ DOMAIN last : Milli(written[y].at) < lo
            /\ \A y \in DOMAIN walk.first \cap DOMAIN last : y \in walk.seen \/ Rank(last, y) >= k * size
        BY <1>7, <2>1, <3>2
      <4>2. x \in DOMAIN walk.first /\ x \in DOMAIN last
        <5>1. x \in DOMAIN walk.first
          BY <1>1, <1>2, <3>2
        <5>2. x \in DOMAIN written /\ lo <= Milli(written[x].at)
          BY <1>5, <2>2
        <5> QED
          BY <1>4, <4>1, <5>1, <5>2
      <4> HIDE DEF last
      <4>3. AboveOf(last, x) \subseteq AboveOf(key, x)
        <5> SUFFICES ASSUME NEW y \in DOMAIN last, last[y] > last[x]
                     PROVE  y \in DOMAIN key /\ key[y] > key[x]
          BY DEF AboveOf
        <5>1. /\ y \in DOMAIN written /\ x \in DOMAIN written
              /\ last[y] = written[y].at /\ last[x] = written[x].at
              /\ Milli(written[y].at) <= hi /\ lo <= Milli(written[x].at)
          BY <1>5, <2>2, <4>1, <4>2
        <5>2. Milli(written[x].at) <= Milli(written[y].at)
          <6>1. written[x].at \in Int /\ written[y].at \in Int /\ written[x].at <= written[y].at
            BY <1>4, <5>1
          <6> QED
            BY <6>1, MilliMonotone
        <5>3. lo <= Milli(written[y].at)
          BY <1>4, <5>1, <5>2
        <5>4. y \in D
          BY <1>5, <5>1, <5>3
        <5> QED
          BY <1>5, <2>2, <5>1, <5>4
      <4>4. Rank(last, x) <= Rank(key, x) /\ Rank(last, x) \in Nat
        <5>1. IsFiniteSet(AboveOf(key, x))
          BY <1>6, <2>2, AboveIsFinite
        <5> QED
          BY <4>3, <5>1, FS_Subset, FS_CardinalityType DEF Rank
      <4>5. x \in walk.seen \/ Rank(last, x) >= k * size
        BY <4>1, <4>2
      <4> QED
        BY <1>1, <2>2, <4>4, <4>5
    <3> QED
      BY <1>8, <3>1, <3>2
  <2>4. Distinct(key) /\ P = PageAt(key, k * size, size)
    BY <1>6, <2>1
  <2>5. CASE x \in walk.seen
    BY <1>2, <2>5
  <2>6. CASE x \notin walk.seen /\ Rank(key, x) < k * size + size
    <3>1. x \in P
      BY <2>2, <2>3, <2>4, <2>6 DEF PageAt
    <3> QED
      BY <1>2, <3>1
  <2>7. CASE Rank(key, x) >= k * size + size
    <3>1. size \in Nat /\ k * size \in Nat
      BY <1>1
    <3>2. Cardinality(P) = size
      BY <1>6, <2>2, <2>4, <2>7, <3>1, PageBeforeIsFull
    <3>3. ~(Cardinality(P) < size)
      BY <3>1, <3>2
    <3>4. ~walk'.done
      BY <1>2, <3>3
    <3> QED
      BY <1>1, <2>7, <3>4
  <2> QED
    BY <1>1, <2>2, <2>5, <2>6, <2>7
<1> QED
  BY <1>2, <1>3, <1>9 DEF MissInv

\* What every search that succeeds keeps, whatever it shows.
LEMMA SearchKeeps ==
    ASSUME ListInv, stage = "search", ~EsRefuses, stage' = "ok",
           UNCHANGED <<now, written, raw, req, esReq, esFailed>>,
           NEW key, IsKey(key), DOMAIN key \subseteq Items,
           NEW tied \in BOOLEAN, ~tied => Distinct(key),
           NEW P \in SUBSET (DOMAIN key),
           ~tied /\ AllKept(key)
               => P = PageAt(key, esReq.from, esReq.size),
           raw.mode = "flat" =>
               /\ key = RowKeys(Matching(esReq))
               /\ ~tied => P = PageAt(key, esReq.from, esReq.size),
           Show(key, tied, P)
    PROVE  ListInv'
<1>1. /\ Typing /\ now \in Nat /\ \A d \in DOMAIN written : written[d].at \in Nat
      /\ WalkInv /\ WholeInv /\ RangeInv /\ MissInv
  BY InstantsAreInts DEF ListInv
<1>2. ParsedInv'
  BY DEF ListInv, ParsedInv
<1>3. BuiltInv'
  BY DEF ListInv, BuiltInv, FieldsValid, WindowHolds, From, PageNum, PageSize, EndAt, StartAt
<1>4. ErrorInv'
  BY DEF ErrorInv
<1>5. CASE PageNum # walk.pages + 1
  <2>1. walk' = walk
    BY <1>5 DEF Show
  <2>2. Typing'
    BY <1>1, <2>1 DEF Typing, TypeOK
  <2>3. WalkInv' /\ WholeInv' /\ RangeInv' /\ MissInv'
    BY <1>1, <2>1, WalkKept
  <2> QED
    BY <1>2, <1>3, <1>4, <2>2, <2>3 DEF ListInv
<1>6. CASE PageNum = walk.pages + 1
  <2>1. /\ walk'.seen = walk.seen \cup P
        /\ walk'.twice = walk.twice \cup (walk.seen \cap P)
        /\ walk'.pages = walk.pages + 1
        /\ walk'.changed = (walk.changed \/ (walk.pages > 0 /\ key # walk.first))
        /\ walk'.ties = (walk.ties \/ tied)
        /\ walk'.done = (Cardinality(P) < esReq.size)
    BY <1>6 DEF Show
  <2>2. Typing'
    <3>1. /\ walk'.pages \in Nat /\ walk'.changed \in BOOLEAN
          /\ walk'.ties \in BOOLEAN /\ walk'.done \in BOOLEAN
      BY <1>1, <2>1 DEF Typing
    <3>2. walk'.seen \subseteq Items /\ walk'.twice \subseteq walk'.seen
      BY <1>1, <2>1 DEF Typing, TypeOK
    <3>3. TypeOK'
      BY <1>1, <3>2 DEF Typing, TypeOK
    <3> QED
      BY <1>1, <3>1, <3>3 DEF Typing
  <2>3. WalkInv'
    <3>1. /\ WalkSize \in 1..MaxPageSize /\ walk.pages \in Nat
          /\ (walk.pages + 1) * WalkSize <= MaxResultWindow
          /\ raw.mode \in Modes /\ raw.size # Garbage
      BY <1>6, WalkPage
    <3>2. WalkSize' = WalkSize
      BY DEF WalkSize, Sent
    <3>3. walk'.pages # 0
      BY <2>1, <3>1
    <3> QED
      BY <2>1, <3>1, <3>2, <3>3 DEF WalkInv
  <2>4. WholeInv'
    BY <1>6, ShowWhole
  <2>5. RangeInv'
    <3>1. CASE raw.mode = "flat"
      BY <1>6, <3>1, ShowRange
    <3>2. CASE raw.mode # "flat"
      BY <3>2 DEF RangeInv
    <3> QED
      BY <3>1, <3>2
  <2>6. MissInv'
    <3>1. CASE raw.mode = "flat"
      BY <1>6, <3>1, ShowMiss
    <3>2. CASE raw.mode # "flat"
      BY <3>2 DEF MissInv
    <3> QED
      BY <3>1, <3>2
  <2> QED
    BY <1>2, <1>3, <1>4, <2>2, <2>3, <2>4, <2>5, <2>6 DEF ListInv
<1> QED
  BY <1>5, <1>6

LEMMA MatchingType ==
    ASSUME Typing
    PROVE  /\ Matching(esReq) \subseteq DOMAIN written /\ Matching(esReq) \subseteq Docs
           /\ IsFiniteSet(Matching(esReq))
           /\ \A d \in Matching(esReq) : written[d].at \in Nat /\ written[d].trace \in Traces
<1>1. Matching(esReq) \in SUBSET (DOMAIN written)
  BY DEF Matching
<1> QED
  BY <1>1, InstantsAreInts, FS_Subset

LEMMA SearchFlatKeeps == ASSUME ListInv, SearchFlat PROVE ListInv'
<1> DEFINE D == Matching(esReq)
           key == RowKeys(D)
<1>1. PICK P \in PagesOf(key, esReq.from, esReq.size) : Show(key, SameInstant(D), P)
  BY DEF SearchFlat
<1>2. /\ stage = "search" /\ ~EsRefuses /\ stage' = "ok"
      /\ UNCHANGED <<now, written, raw, req, esReq, esFailed>>
  BY DEF SearchFlat
<1>3. /\ Typing /\ D \subseteq Docs /\ IsFiniteSet(D) /\ \A d \in D : written[d].at \in Nat
  BY MatchingType DEF ListInv
<1> HIDE DEF D
<1>4. DOMAIN key = D /\ (\A d \in D : key[d] = written[d].at) /\ key = [x \in DOMAIN key |-> key[x]]
  BY DEF RowKeys
<1> HIDE DEF key
<1>5. IsKey(key)
  BY <1>3, <1>4 DEF IsKey
<1>6. DOMAIN key \subseteq Items
  BY <1>3, <1>4 DEF Items
<1>7. SameInstant(D) \in BOOLEAN
  BY DEF SameInstant
<1>8. ~SameInstant(D) => Distinct(key)
  BY <1>4 DEF SameInstant, Distinct
<1>9. P \in SUBSET (DOMAIN key)
  BY <1>1 DEF PagesOf
<1>10. esReq.from \in Nat /\ esReq.size \in Nat
  BY <1>2, <1>3 DEF Typing, EsRefuses, Ints
<1>11. ~SameInstant(D) => P = PageAt(key, esReq.from, esReq.size)
  BY <1>1, <1>5, <1>8, <1>10, PageOfDistinct
<1>12. key = RowKeys(Matching(esReq))
  BY DEF key, D
<1> DEFINE tied == SameInstant(D)
<1>13. tied \in BOOLEAN /\ (~tied => Distinct(key)) /\ (~tied => P = PageAt(key, esReq.from, esReq.size))
       /\ Show(key, tied, P)
  BY <1>1, <1>7, <1>8, <1>11
<1> HIDE DEF tied
<1> QED
  BY <1>2, <1>5, <1>6, <1>9, <1>12, <1>13, SearchKeeps

\* The groups of a search and their first_ts.
LEMMA GroupKeysType ==
    ASSUME Typing
    PROVE  /\ IsKey(GroupKeys(Matching(esReq)))
           /\ DOMAIN GroupKeys(Matching(esReq)) = TracesOf(Matching(esReq))
           /\ TracesOf(Matching(esReq)) \subseteq Traces
           /\ IsFiniteSet(TracesOf(Matching(esReq)))
<1> DEFINE D == Matching(esReq)
           T == TracesOf(D)
           key == GroupKeys(D)
<1>1. IsFiniteSet(D) /\ \A d \in D : written[d].at \in Nat /\ written[d].trace \in Traces
  BY MatchingType
<1> HIDE DEF D
<1>2. T \subseteq Traces
  BY <1>1 DEF TracesOf
<1>3. IsFiniteSet(T)
  <2> DEFINE f == [d \in D |-> written[d].trace]
  <2>1. f \in Surjection(D, T)
    BY DEF Surjection, TracesOf
  <2> HIDE DEF f, T
  <2> QED
    BY <1>1, <2>1, FS_Surjection
<1>4. ASSUME NEW t \in T PROVE key[t] \in Int
  <2> DEFINE S == {Milli(written[d].at) : d \in OfTrace(t, D)}
  <2>1. S \in SUBSET Nat
    <3>1. ASSUME NEW d \in D PROVE Milli(written[d].at) \in Nat
      <4>1. written[d].at \in Int /\ 0 <= written[d].at
        BY <1>1
      <4>2. Milli(written[d].at) \in Int /\ Milli(0) <= Milli(written[d].at)
        BY <4>1, MilliMonotone
      <4>3. Milli(0) = 0
        BY ListAssumption DEF Milli
      <4> QED
        BY <4>2, <4>3
    <3> QED
      BY <3>1 DEF OfTrace
  <2>2. S # {}
    BY DEF TracesOf, OfTrace
  <2>3. key[t] = Least(S)
    BY DEF GroupKeys
  <2>4. Least(S) \in Nat
    <3> HIDE DEF S
    <3> QED
      BY <2>1, <2>2, LeastNatural
  <2> QED
    BY <2>3, <2>4
<1>5. DOMAIN key = T /\ key = [x \in DOMAIN key |-> key[x]]
  BY DEF GroupKeys
<1> HIDE DEF key, T
<1>6. IsKey(key)
  BY <1>3, <1>4, <1>5 DEF IsKey
<1> QED
  BY <1>2, <1>3, <1>5, <1>6 DEF D, T, key

LEMMA SearchTracesKeeps == ASSUME ListInv, SearchTraces PROVE ListInv'
<1> DEFINE D == Matching(esReq)
           key == GroupKeys(D)
           T == TracesOf(D)
           tied == SameKey(key)
<1>1. PICK K \in KeptTraces(D) :
        \E P \in PagesOf([t \in K |-> key[t]], esReq.from, esReq.size) : Show(key, tied, P)
  BY DEF SearchTraces
<1>2. PICK P \in PagesOf([t \in K |-> key[t]], esReq.from, esReq.size) : Show(key, tied, P)
  BY <1>1
<1>3. /\ stage = "search" /\ ~EsRefuses /\ stage' = "ok" /\ req.mode = "trace"
      /\ UNCHANGED <<now, written, raw, req, esReq, esFailed>>
  BY DEF SearchTraces
<1>4. raw.mode = "trace"
  BY <1>3 DEF ListInv, ParsedInv
<1>5. Typing /\ IsKey(key) /\ DOMAIN key = T /\ T \subseteq Traces /\ IsFiniteSet(T)
  BY GroupKeysType DEF ListInv
<1>6. K \in SUBSET T /\ Cardinality(K) = Least({AggTermsSize, Cardinality(T)})
  BY DEF KeptTraces
<1> HIDE DEF D, T, key
<1>7. Cardinality(T) <= AggTermsSize => K = T
  <2>1. Cardinality(T) \in Nat /\ AggTermsSize \in Nat
    BY <1>5, FS_CardinalityType, ListAssumption
  <2> DEFINE S == {AggTermsSize, Cardinality(T)}
  <2>2. S \in SUBSET Nat /\ S # {} /\ Cardinality(T) \in S
    BY <2>1
  <2>3. Least(S) \in S /\ Least(S) <= Cardinality(T)
    <3> HIDE DEF S
    <3> QED
      BY <2>2, LeastNatural
  <2>4. Cardinality(T) <= AggTermsSize => Least(S) = Cardinality(T)
    BY <2>1, <2>3
  <2> QED
    BY <1>5, <1>6, <2>4, FS_Subset
<1>8. P \in SUBSET (DOMAIN key)
  <2>1. P \subseteq K
    BY <1>2 DEF PagesOf
  <2> QED
    BY <1>5, <1>6, <2>1
<1>9. tied \in BOOLEAN /\ (~tied => Distinct(key))
  BY DEF SameKey, Distinct
<1>10. esReq.from \in Nat /\ esReq.size \in Nat
  BY <1>3, <1>5 DEF Typing, EsRefuses, Ints
<1> HIDE DEF tied
<1>11. ASSUME ~tied, AllKept(key)
       PROVE  P = PageAt(key, esReq.from, esReq.size)
  <2>1. [t \in K |-> key[t]] = key
    BY <1>4, <1>5, <1>7, <1>11 DEF IsKey, AllKept
  <2>2. P \in PagesOf(key, esReq.from, esReq.size)
    BY <1>2, <2>1
  <2> QED
    BY <1>5, <1>9, <1>10, <1>11, <2>2, PageOfDistinct
<1>12. DOMAIN key \subseteq Items
  BY <1>5 DEF Items
<1> QED
  BY <1>2, <1>3, <1>4, <1>5, <1>8, <1>9, <1>11, <1>12, SearchKeeps
-----------------------------------------------------------------------------
(* The theorems.                                                           *)

\* The invariant holds in every behaviour.
THEOREM ListInvariant == Spec => []ListInv
<1>1. Init => ListInv
  BY InitList
<1>2. ListInv /\ [Next]_vars => ListInv'
  <2> SUFFICES ASSUME ListInv, [Next]_vars PROVE ListInv'
    OBVIOUS
  <2> HIDE DEF ListInv
  <2>1. CASE Tick
    BY <2>1, TickKeeps
  <2>2. CASE \E d \in Docs, t \in 0..now, tr \in Traces : Write(d, t, tr)
    BY <2>2, WriteKeeps
  <2>3. CASE \E r \in Requests : Ask(r)
    BY <2>3, AskKeeps
  <2>4. CASE AskNext
    BY <2>4, AskNextKeeps
  <2>5. CASE Parse
    BY <2>5, ParseKeeps
  <2>6. CASE Build
    BY <2>6, BuildKeeps
  <2>7. CASE SearchFlat
    BY <2>7, SearchFlatKeeps
  <2>8. CASE SearchTraces
    BY <2>8, SearchTracesKeeps
  <2>9. CASE SearchFails
    BY <2>9, SearchFailsKeeps
  <2>10. CASE UNCHANGED vars
    BY <2>10, StutterKeeps
  <2> QED
    BY <2>1, <2>2, <2>3, <2>4, <2>5, <2>6, <2>7, <2>8, <2>9, <2>10 DEF Next
<1> QED
  BY <1>1, <1>2, PTL DEF Spec

\* TypeOK holds: no page number and no offset leaves the range of an int, and a
\* page is never longer than maxPageSize (list.go).
THEOREM ListTypeCorrect == Spec => []TypeOK
<1>1. ListInv => TypeOK
  BY DEF ListInv, Typing
<1> QED
  BY <1>1, ListInvariant, PTL

\* WalkShowsAllOnce holds: from, size and the order of the sort in es/query.go cut
\* a list that stays as it is into pages that neither overlap nor leave a gap.
THEOREM WalksShowAllOnce == Spec => []WalkShowsAllOnce
<1>1. ListInv => WalkShowsAllOnce
  <2> SUFFICES ASSUME ListInv, walk.done, ~walk.changed, ~walk.ties,
                      AllKept(walk.first)
               PROVE  walk.seen = DOMAIN walk.first /\ walk.twice = {}
    BY DEF WalkShowsAllOnce
  <2>1. walk.pages > 0
    <3>1. walk.pages # 0
      BY DEF ListInv, WalkInv, NoWalk
    <3> QED
      BY <3>1 DEF ListInv, Typing
  <2> QED
    BY <2>1 DEF ListInv, WholeInv
<1> QED
  BY <1>1, ListInvariant, PTL

\* NoRowMissed holds: rows only ever move towards later pages, because the default
\* range of list.go moves forward and the sort is by descending time.
THEOREM NoRowIsMissed == Spec => []NoRowMissed
<1>1. ListInv => NoRowMissed
  <2> SUFFICES ASSUME ListInv, raw.mode = "flat", walk.done, ~walk.ties,
                      NEW x \in (DOMAIN walk.first) \cap (DOMAIN walk.last)
               PROVE  x \in walk.seen
    BY DEF NoRowMissed
  <2>1. walk.pages > 0
    <3>1. walk.pages # 0
      BY DEF ListInv, WalkInv, NoWalk
    <3> QED
      BY <3>1 DEF ListInv, Typing
  <2> QED
    BY <2>1 DEF ListInv, MissInv
<1> QED
  BY <1>1, ListInvariant, PTL

\* ServerErrorsAreNotTheClients holds: what buildQueryRequest lets through is never
\* rejected by Elasticsearch, if the last position of the page is an int.
THEOREM ServerErrorsAreTheServers == Spec => []ServerErrorsAreNotTheClients
<1>1. ListInv => ServerErrorsAreNotTheClients
  <2> SUFFICES ASSUME ListInv, stage = "internalError", PageNum * PageSize <= IntMax
               PROVE  esFailed
    BY DEF ServerErrorsAreNotTheClients
  <2>1. /\ Typing /\ FieldsValid /\ WindowHolds /\ esReq.from = From /\ esReq.size = PageSize
        /\ esFailed \/ EsRefuses
    BY DEF ListInv, BuiltInv, ErrorInv
  <2> DEFINE num == PageNum
             size == PageSize
             begin == (num - 1) * size
  <2>2. num \in Nat \ {0} /\ size \in Nat \ {0} /\ num \in Ints
    BY <2>1, ListAssumption DEF Typing, FieldsValid, PageSize, PageNum, Ints
  <2>3. Wrap(num - 1) = num - 1
    <3>1. num - 1 \in Int /\ num - 1 \in Ints
      BY <2>2, ListAssumption DEF Ints
    <3> QED
      BY <3>1, WrapType
  <2>4. From = Wrap(begin) /\ WindowHolds = (Wrap(From + size) <= MaxResultWindow)
    BY <2>3 DEF From, WindowHolds
  <2>5. num * size <= IntMax
    OBVIOUS
  <2> HIDE DEF num, size
  <2>6. begin \in Nat /\ begin + size = num * size
    <3>1. 0 * size <= (num - 1) * size
      BY <2>2, TimesMonotone
    <3>2. (num - 1) * size = num * size - size /\ num * size \in Int
      BY <2>2
    <3> QED
      BY <2>2, <3>1, <3>2
  <2> HIDE DEF begin
  <2>7. begin \in Int /\ begin \in Ints /\ begin + size \in Int /\ begin + size \in Ints
    BY <2>2, <2>5, <2>6, ListAssumption DEF Ints
  <2>8. Wrap(begin) = begin /\ Wrap(begin + size) = begin + size
    BY <2>7, WrapType
  <2>9. begin + size <= MaxResultWindow
    BY <2>1, <2>4, <2>8
  <2>10. esReq.from = begin /\ esReq.size = size
    BY <2>1, <2>4, <2>8 DEF size
  <2>11. ~EsRefuses
    BY <2>2, <2>6, <2>9, <2>10, ListAssumption DEF EsRefuses
  <2> QED
    BY <2>1, <2>11
<1> QED
  BY <1>1, ListInvariant, PTL
=============================================================================
