---------------------------- MODULE ZenPage_proofs ----------------------------
(***************************************************************************)
(* Proofs about ZenPage, for ints of any width, any limits, any parameters *)
(* and a table of any size.                                                *)
(***************************************************************************)
EXTENDS ZenPage, TLAPS
-----------------------------------------------------------------------------
(* Integers.                                                               *)

LEMMA TimesMonotone ==
    ASSUME NEW a \in Int, NEW b \in Int, a <= b, NEW c \in Nat
    PROVE  a * c <= b * c
OBVIOUS

LEMMA DivBounds ==
    ASSUME NEW x \in Int, NEW d \in Nat \ {0}
    PROVE  x \div d \in Int /\ (x \div d) * d <= x /\ x < (x \div d) * d + d
OBVIOUS

LEMMA DivUnique ==
    ASSUME NEW x \in Int, NEW d \in Nat \ {0}, NEW q \in Int, q * d <= x, x < q * d + d
    PROVE  x \div d = q
<1> DEFINE p == x \div d
<1>1. p \in Int /\ p * d <= x /\ x < p * d + d
  BY DivBounds
<1> HIDE DEF p
<1>2. CASE p < q
  <2>1. (p + 1) * d <= q * d
    BY <1>1, <1>2, TimesMonotone
  <2>2. (p + 1) * d = p * d + d
    BY <1>1
  <2> QED
    BY <1>1, <2>1, <2>2
<1>3. CASE q < p
  <2>1. (q + 1) * d <= p * d
    BY <1>1, <1>3, TimesMonotone
  <2>2. (q + 1) * d = q * d + d
    OBVIOUS
  <2> QED
    BY <1>1, <2>1, <2>2
<1>4. p = q
  BY <1>1, <1>2, <1>3
<1> QED
  BY <1>4 DEF p

\* An int is left alone, and what wraps is not larger than it was.
LEMMA WrapFits ==
    ASSUME NEW x \in -(IntMax + 1)..IntMax PROVE Wrap(x) = x
BY IntAssumption DEF Wrap

LEMMA WrapNotLarger ==
    ASSUME NEW x \in Nat PROVE Wrap(x) \in Int /\ Wrap(x) <= x
<1> DEFINE m == 2 * (IntMax + 1)
           y == x + IntMax + 1
<1>1. m \in Nat \ {0} /\ y \in Nat
  BY IntAssumption
<1>2. y % m \in Int /\ y % m <= y
  <2> HIDE DEF m, y
  <2>1. y \div m \in Int /\ y = (y \div m) * m + (y % m) /\ y % m \in 0..(m - 1)
    BY <1>1
  <2>2. y \div m >= 0
    BY <1>1
  <2>3. (y \div m) * m >= 0
    BY <1>1, <2>1, <2>2, TimesMonotone
  <2> QED
    BY <1>1, <2>1, <2>3
<1> QED
  BY <1>2, IntAssumption DEF Wrap
-----------------------------------------------------------------------------
(* The operators of the model.                                             *)

Param == {Unset, Garbage} \cup Int

\* The most rows a page may have: Parse returns DefaultPageSize without looking
\* at MaxPageSize.
LongestPage(l) ==
    IF l.DefaultPageSize > l.MaxPageSize THEN l.DefaultPageSize ELSE l.MaxPageSize

\* The rows a page starting at offset o shows.
RowsFrom(o, size, n) == {r \in 1..n : o < r /\ r <= o + size}

\* The integers a server may be set up with are ints.
LEMMA LimitsAreInts ==
    ASSUME NEW l \in LimitsChoices
    PROVE  /\ l.DefaultPageSize \in -(IntMax + 1)..IntMax
           /\ l.MaxPageSize \in -(IntMax + 1)..IntMax
           /\ l.MaxPageNum \in -(IntMax + 1)..IntMax
<1>1. {l.DefaultPageSize, l.MaxPageSize, l.MaxPageNum} \subseteq -(IntMax + 1)..IntMax
  BY IntAssumption
<1> QED
  BY <1>1

\* A parameter without a problem is the default or within its bounds.
LEMMA ParseOneBounds ==
    ASSUME NEW v \in Param, NEW def \in Int, NEW max \in Int, ~Problem(v, max)
    PROVE  /\ ParseOne(v, def, max) \in {def} \cup 1..max
           /\ v \in Int => v \in 1..max /\ ParseOne(v, def, max) = v
BY ParameterAssumption DEF Param, Problem, ParseOne

\* The last page holds the last row.
LEMMA LastPageHoldsLastRow ==
    ASSUME NEW n \in Nat \ {0}, NEW size \in Nat \ {0}
    PROVE  /\ LastPage(n, size) \in Nat \ {0}
           /\ (LastPage(n, size) - 1) * size < n
           /\ n <= (LastPage(n, size) - 1) * size + size
<1> DEFINE q == (n + size - 1) \div size
<1>1. LastPage(n, size) = q
  BY DEF LastPage
<1>2. q \in Int /\ q * size <= n + size - 1 /\ n + size - 1 < q * size + size
  BY DivBounds
<1> HIDE DEF q
<1>3. q > 0
  <2>1. CASE q <= 0
    <3>1. q * size <= 0 * size
      BY <1>2, <2>1, TimesMonotone
    <3> QED
      BY <1>2, <3>1
  <2> QED
    BY <1>2, <2>1
<1>4. (q - 1) * size = q * size - size
  BY <1>2
<1> QED
  BY <1>1, <1>2, <1>3, <1>4

LEMMA LastPageType ==
    ASSUME NEW n \in Nat, NEW size \in Int
    PROVE  LastPage(n, size) \in Nat \ {0}
<1>1. CASE size < 1 \/ n <= 0
  BY <1>1 DEF LastPage
<1>2. CASE ~(size < 1 \/ n <= 0)
  BY <1>2, LastPageHoldsLastRow
<1> QED
  BY <1>1, <1>2

\* Offset is never beyond where the page begins, and is exactly there when that
\* is an int.
LEMMA OffsetOfPage ==
    ASSUME NEW p, p.num \in 1..IntMax, p.size \in Nat \ {0}
    PROVE  /\ (p.num - 1) * p.size \in Nat
           /\ Offset(p) \in Int
           /\ Offset(p) <= (p.num - 1) * p.size
           /\ (p.num - 1) * p.size <= IntMax => Offset(p) = (p.num - 1) * p.size
<1> DEFINE begin == (p.num - 1) * p.size
<1>1. begin \in Nat
  <2>1. p.num - 1 \in Int /\ 0 <= p.num - 1
    BY IntAssumption
  <2>2. 0 * p.size <= (p.num - 1) * p.size
    BY <2>1, TimesMonotone
  <2> QED
    BY <2>1, <2>2
<1>2. Wrap(p.num - 1) = p.num - 1
  BY WrapFits, IntAssumption
<1>3. Offset(p) = Wrap(begin)
  BY <1>2, IntAssumption DEF Offset
<1> HIDE DEF begin
<1>4. Wrap(begin) \in Int /\ Wrap(begin) <= begin
  BY <1>1, WrapNotLarger
<1>5. begin <= IntMax => Wrap(begin) = begin
  BY <1>1, WrapFits, IntAssumption
<1>6. begin = (p.num - 1) * p.size
  BY DEF begin
<1> QED
  BY <1>1, <1>3, <1>4, <1>5, <1>6

LEMMA OffsetType ==
    ASSUME NEW p, p.num \in Int, p.size \in Int
    PROVE  Offset(p) \in Int
<1>1. ASSUME NEW x \in Int PROVE Wrap(x) \in Int
  <2>1. (x + IntMax + 1) % (2 * (IntMax + 1)) \in Int
    BY IntAssumption
  <2> QED
    BY <2>1, IntAssumption DEF Wrap
<1>2. Wrap(p.num - 1) \in Int
  BY <1>1
<1>3. Wrap(p.num - 1) * p.size \in Int
  BY <1>2
<1>4. Wrap(Wrap(p.num - 1) * p.size) \in Int
  BY <1>1, <1>3
<1> QED
  BY <1>4 DEF Offset

\* The rows of a page are the size rows after (num - 1) * size.
LEMMA PageOfRow ==
    ASSUME NEW r \in Nat \ {0}, NEW size \in Nat \ {0}, NEW num \in Nat
    PROVE  PageOf(r, size) = num <=> (num - 1) * size < r /\ r <= (num - 1) * size + size
<1> DEFINE q == (r - 1) \div size
<1>1. q \in Int /\ q * size <= r - 1 /\ r - 1 < q * size + size
  BY DivBounds
<1>2. (num - 1) * size \in Int /\ num - 1 \in Int
  OBVIOUS
<1>3. ASSUME (num - 1) * size <= r - 1, r - 1 < (num - 1) * size + size
      PROVE  q = num - 1
  BY <1>2, <1>3, DivUnique
<1>4. PageOf(r, size) = q + 1
  BY DEF PageOf
<1> HIDE DEF q
<1>5. CASE q = num - 1
  BY <1>1, <1>2, <1>4, <1>5
<1>6. CASE q # num - 1
  BY <1>1, <1>2, <1>3, <1>4, <1>6
<1> QED
  BY <1>5, <1>6
-----------------------------------------------------------------------------
(* The inductive invariant.                                                *)

Typing ==
    /\ raw \in [num : Param, size : Param]
    /\ params \in [num : Int, size : Int]
    /\ TypeOK

\* A request that was not refused had no problem, and params are its parameters.
Accepted ==
    /\ LimitsUsable(lim)
    /\ ~Problem(raw.num, lim.MaxPageNum) /\ ~Problem(raw.size, lim.MaxPageSize)
    /\ params.num = ParseOne(raw.num, 1, lim.MaxPageNum)
    /\ params.size = ParseOne(raw.size, lim.DefaultPageSize, lim.MaxPageSize)

AcceptedInv == stage \in {"count", "fetch", "answered", "dbError"} => Accepted

\* The count is that of the table as long as nothing changes.
CountInv == stage \in {"fetch", "answered"} /\ stable => total = rows

\* What was answered last.
AnswerInv ==
    stage = "answered" =>
        /\ Offset(params) >= 0
        /\ lastPage = LastPage(total, params.size)
        /\ stable => list = RowsFrom(Offset(params), params.size, rows)

\* A second request names the page of the last row, with the first one's pageSize.
RetryInv ==
    retried /\ stable =>
        /\ stage \in {"parse", "count", "fetch", "answered", "dbError"}
        /\ LimitsUsable(lim)
        /\ ~Problem(raw.size, lim.MaxPageSize)
        /\ rows > 0
        /\ raw.num \in 1..lim.MaxPageNum
        /\ raw.num = LastPage(rows, ParseOne(raw.size, lim.DefaultPageSize, lim.MaxPageSize))

\* Limits that fit leave the database nothing to complain of.
NoDbError == Fits(lim) => stage # "dbError"

PageInv == Typing /\ AcceptedInv /\ CountInv /\ AnswerInv /\ RetryInv /\ NoDbError

\* What Parse accepts is within the limits.
LEMMA AcceptedBounds ==
    ASSUME Typing, Accepted
    PROVE  /\ params.num \in 1..lim.MaxPageNum /\ lim.MaxPageNum \in 1..IntMax
           /\ params.num \in 1..IntMax
           /\ params.size \in 1..LongestPage(lim) /\ params.size \in Nat \ {0}
           /\ LongestPage(lim) \in 1..IntMax
<1>1. lim \in LimitsChoices /\ raw.num \in Param /\ raw.size \in Param
  BY DEF Typing, TypeOK
<1>2. /\ lim.DefaultPageSize \in 1..IntMax /\ lim.MaxPageSize \in 1..IntMax
      /\ lim.MaxPageNum \in 1..IntMax
  BY <1>1, LimitsAreInts, IntAssumption DEF Accepted, LimitsUsable
<1>3. params.num \in {1} \cup 1..lim.MaxPageNum
  <2>1. ~Problem(raw.num, lim.MaxPageNum) /\ params.num = ParseOne(raw.num, 1, lim.MaxPageNum)
    BY DEF Accepted
  <2> QED
    BY <1>1, <1>2, <2>1, ParseOneBounds
<1>4. params.size \in {lim.DefaultPageSize} \cup 1..lim.MaxPageSize
  <2>1. /\ ~Problem(raw.size, lim.MaxPageSize)
        /\ params.size = ParseOne(raw.size, lim.DefaultPageSize, lim.MaxPageSize)
    BY DEF Accepted
  <2> QED
    BY <1>1, <1>2, <2>1, ParseOneBounds
<1> QED
  BY <1>2, <1>3, <1>4, IntAssumption DEF LongestPage

\* With limits that fit no offset wraps.
LEMMA FittingOffset ==
    ASSUME Typing, Accepted, Fits(lim)
    PROVE  Offset(params) = (params.num - 1) * params.size /\ Offset(params) >= 0
<1> DEFINE num == params.num
           size == params.size
           max == lim.MaxPageNum
           longest == LongestPage(lim)
<1>1. /\ num \in 1..max /\ max \in 1..IntMax /\ num \in 1..IntMax
      /\ size \in 1..longest /\ size \in Nat \ {0} /\ longest \in 1..IntMax
  BY AcceptedBounds
<1>2. max * longest <= IntMax
  BY DEF Fits, LongestPage
<1>3. /\ (num - 1) * size \in Nat
      /\ (num - 1) * size <= IntMax => Offset(params) = (num - 1) * size
  BY <1>1, OffsetOfPage
<1> HIDE DEF num, size, max, longest
<1>4. (num - 1) * size <= max * size
  BY <1>1, IntAssumption, TimesMonotone
<1>5. size * max <= longest * max
  BY <1>1, IntAssumption, TimesMonotone
<1>6. max * size = size * max /\ max * longest = longest * max /\ max * size \in Int /\ max * longest \in Int
  BY <1>1, IntAssumption
<1>7. (num - 1) * size <= IntMax
  BY <1>2, <1>3, <1>4, <1>5, <1>6, IntAssumption
<1>8. Offset(params) = (num - 1) * size /\ (num - 1) * size \in Nat
  BY <1>3, <1>7
<1> QED
  BY <1>8 DEF num, size

\* The step the whole of lastPage is for: a page beyond the end has a later
\* number than the last page, so the second request is accepted.
LEMMA BeyondTheEnd ==
    ASSUME Typing, Accepted, Offset(params) >= 0, rows > 0,
           RowsFrom(Offset(params), params.size, rows) = {}
    PROVE  LastPage(rows, params.size) \in 1..lim.MaxPageNum
<1> DEFINE num == params.num
           size == params.size
           max == lim.MaxPageNum
           o == Offset(params)
           last == LastPage(rows, size)
<1>1. /\ num \in 1..max /\ max \in 1..IntMax /\ num \in 1..IntMax /\ size \in Nat \ {0}
  BY AcceptedBounds
<1>2. (num - 1) * size \in Nat /\ o \in Int /\ o <= (num - 1) * size
  BY <1>1, OffsetOfPage
<1>3. rows \in Nat \ {0}
  BY IntAssumption DEF Typing, TypeOK
<1>4. last \in Nat \ {0} /\ (last - 1) * size < rows
  BY <1>1, <1>3, LastPageHoldsLastRow
<1>5. o >= 0 /\ RowsFrom(o, size, rows) = {}
  OBVIOUS
<1> HIDE DEF num, size, max, o, last
<1>6. o >= rows
  <2>1. CASE o < rows
    <3>1. o + 1 \in RowsFrom(o, size, rows)
      BY <1>1, <1>2, <1>3, <1>5, <2>1 DEF RowsFrom
    <3> QED
      BY <1>5, <3>1
  <2> QED
    BY <1>2, <1>3, <2>1
<1>7. last < num
  <2>1. CASE num <= last
    <3>1. (num - 1) * size <= (last - 1) * size
      BY <1>1, <1>4, <2>1, IntAssumption, TimesMonotone
    <3>2. (last - 1) * size \in Int
      BY <1>1, <1>4
    <3> QED
      BY <1>2, <1>3, <1>4, <1>6, <3>1, <3>2
  <2> QED
    BY <1>1, <1>4, <2>1, IntAssumption
<1>8. last \in 1..max
  BY <1>1, <1>4, <1>7, IntAssumption
<1> QED
  BY <1>8 DEF last, size, max
-----------------------------------------------------------------------------
(* Every step keeps it.                                                    *)

LEMMA InitPage == ASSUME Init PROVE PageInv
<1>1. Typing
  <2>1. Unset \in Param
    BY DEF Param
  <2>2. raw \in [num : Param, size : Param] /\ params \in [num : Int, size : Int]
    BY <2>1 DEF Init
  <2>3. raw.num \in {Unset, Garbage} \cup Int /\ raw.size \in {Unset, Garbage} \cup Int
    BY DEF Init
  <2>4. params.num \in Int /\ params.size \in Int
    BY <2>2
  <2>5. /\ lim \in LimitsChoices /\ rows \in 0..MaxRows
        /\ stage \in {"idle", "parse", "count", "fetch", "answered", "refused", "dbError"}
        /\ total \in 0..MaxRows /\ list \subseteq 1..MaxRows /\ lastPage \in Nat \ {0}
    BY IntAssumption DEF Init
  <2>6. retried \in BOOLEAN /\ stable \in BOOLEAN
    BY DEF Init
  <2>7. TypeOK
    BY <2>3, <2>4, <2>5, <2>6 DEF TypeOK
  <2> QED
    BY <2>2, <2>7 DEF Typing
<1>2. AcceptedInv /\ CountInv /\ AnswerInv /\ RetryInv /\ NoDbError
  BY DEF Init, AcceptedInv, CountInv, AnswerInv, RetryInv, NoDbError
<1> QED
  BY <1>1, <1>2 DEF PageInv

LEMMA AskKeeps ==
    ASSUME PageInv, NEW num \in Nums \cup {Unset, Garbage},
           NEW size \in Sizes \cup {Unset, Garbage}, Ask(num, size)
    PROVE  PageInv'
<1>1. num \in Param /\ size \in Param
  BY IntAssumption DEF Param
<1>2. Typing'
  <2>1. /\ raw' \in [num : Param, size : Param] /\ params' \in [num : Int, size : Int]
        /\ raw'.num = num /\ raw'.size = size
    BY <1>1 DEF Ask
  <2>2. raw'.num \in {Unset, Garbage} \cup Int /\ raw'.size \in {Unset, Garbage} \cup Int
    BY <1>1, <2>1 DEF Param
  <2>3. params'.num \in Int /\ params'.size \in Int
    BY <2>1
  <2>4. /\ lim' \in LimitsChoices /\ rows' \in 0..MaxRows
        /\ stage' \in {"idle", "parse", "count", "fetch", "answered", "refused", "dbError"}
        /\ total' \in 0..MaxRows /\ list' \subseteq 1..MaxRows /\ lastPage' \in Nat \ {0}
    BY IntAssumption DEF Ask, PageInv, Typing, TypeOK
  <2>5. retried' \in BOOLEAN /\ stable' \in BOOLEAN
    BY DEF Ask
  <2>6. TypeOK'
    BY <2>2, <2>3, <2>4, <2>5 DEF TypeOK
  <2> QED
    BY <2>1, <2>6 DEF Typing
<1>3. AcceptedInv' /\ CountInv' /\ AnswerInv' /\ RetryInv' /\ NoDbError'
  BY DEF Ask, AcceptedInv, CountInv, AnswerInv, RetryInv, NoDbError
<1> QED
  BY <1>2, <1>3 DEF PageInv

LEMMA RetryKeeps == ASSUME PageInv, Retry PROVE PageInv'
<1> USE DEF PageInv
<1>1. /\ raw'.num = lastPage /\ raw'.size = raw.size
      /\ raw' \in [num : {lastPage} \cup Param, size : Param]
  BY DEF Retry, Typing
<1>2. Typing'
  <2>1. lastPage \in Param
    BY DEF Typing, TypeOK, Param
  <2> QED
    BY <1>1, <2>1, IntAssumption DEF Typing, TypeOK, Retry
<1>3. AcceptedInv' /\ CountInv' /\ AnswerInv' /\ NoDbError'
  BY DEF Retry, AcceptedInv, CountInv, AnswerInv, NoDbError
<1>4. ASSUME stable PROVE RetryInv'
  <2>1. Accepted /\ total = rows /\ rows > 0 /\ list = {}
    BY <1>4, IntAssumption DEF Retry, AcceptedInv, CountInv
  <2>2. /\ Offset(params) >= 0 /\ lastPage = LastPage(total, params.size)
        /\ RowsFrom(Offset(params), params.size, rows) = {}
    BY <1>4, <2>1 DEF Retry, AnswerInv
  <2>3. LastPage(rows, params.size) \in 1..lim.MaxPageNum
    BY <2>1, <2>2, BeyondTheEnd
  <2> QED
    BY <1>1, <2>1, <2>2, <2>3 DEF Retry, RetryInv, Accepted
<1>5. ASSUME ~stable PROVE RetryInv'
  <2>1. stable \in BOOLEAN /\ stable' = stable
    BY DEF Retry, Typing, TypeOK
  <2>2. ~(retried' /\ stable')
    BY <1>5, <2>1
  <2> QED
    BY <2>2 DEF RetryInv
<1> QED
  BY <1>2, <1>3, <1>4, <1>5

LEMMA ParseKeeps == ASSUME PageInv, Parse PROVE PageInv'
<1> USE DEF PageInv
<1> DEFINE fine == /\ LimitsUsable(lim)
                   /\ ~Problem(raw.num, lim.MaxPageNum) /\ ~Problem(raw.size, lim.MaxPageSize)
<1>1. CASE ~fine
  <2>1. stage' = "refused" /\ UNCHANGED <<lim, rows, raw, params, total, list, lastPage, retried, stable>>
    BY <1>1 DEF Parse
  <2>2. Typing'
    BY <2>1 DEF Typing, TypeOK
  <2>3. AcceptedInv' /\ CountInv' /\ AnswerInv' /\ NoDbError'
    BY <2>1 DEF AcceptedInv, CountInv, AnswerInv, NoDbError
  <2>4. RetryInv'
    <3>1. ASSUME retried, stable PROVE FALSE
      <4>1. lim \in LimitsChoices /\ raw.num \in 1..lim.MaxPageNum
        BY <3>1 DEF RetryInv, Typing, TypeOK
      <4>2. ~Problem(raw.num, lim.MaxPageNum)
        BY <4>1, LimitsAreInts, IntAssumption, ParameterAssumption DEF Problem
      <4> QED
        BY <1>1, <3>1, <4>2 DEF RetryInv
    <3> QED
      BY <2>1, <3>1 DEF RetryInv
  <2> QED
    BY <2>2, <2>3, <2>4
<1>2. CASE fine
  <2>1. /\ stage' = "count"
        /\ params' = [num  |-> ParseOne(raw.num, 1, lim.MaxPageNum),
                      size |-> ParseOne(raw.size, lim.DefaultPageSize, lim.MaxPageSize)]
        /\ UNCHANGED <<lim, rows, raw, total, list, lastPage, retried, stable>>
    BY <1>2 DEF Parse
  <2>2. params'.num \in Int /\ params'.size \in Int
    <3>1. /\ lim \in LimitsChoices /\ raw.num \in Param /\ raw.size \in Param
          /\ lim.DefaultPageSize \in Int /\ lim.MaxPageSize \in Int /\ lim.MaxPageNum \in Int
      BY LimitsAreInts, IntAssumption DEF Typing, TypeOK
    <3>2. ParseOne(raw.num, 1, lim.MaxPageNum) \in {1} \cup 1..lim.MaxPageNum
      BY <1>2, <3>1, ParseOneBounds
    <3>3. ParseOne(raw.size, lim.DefaultPageSize, lim.MaxPageSize)
            \in {lim.DefaultPageSize} \cup 1..lim.MaxPageSize
      BY <1>2, <3>1, ParseOneBounds
    <3> QED
      BY <2>1, <3>1, <3>2, <3>3
  <2>3. Typing'
    BY <2>1, <2>2 DEF Typing, TypeOK
  <2>4. AcceptedInv'
    BY <1>2, <2>1 DEF AcceptedInv, Accepted
  <2>5. CountInv' /\ AnswerInv' /\ NoDbError'
    BY <2>1 DEF CountInv, AnswerInv, NoDbError
  <2>6. RetryInv'
    BY <2>1 DEF RetryInv
  <2> QED
    BY <2>3, <2>4, <2>5, <2>6
<1> QED
  BY <1>1, <1>2

LEMMA CountKeeps == ASSUME PageInv, Count PROVE PageInv'
<1> USE DEF PageInv, Count
<1>1. Typing'
  BY DEF Typing, TypeOK
<1>2. AcceptedInv'
  BY DEF AcceptedInv, Accepted
<1>3. CountInv' /\ AnswerInv' /\ NoDbError'
  BY DEF CountInv, AnswerInv, NoDbError
<1>4. RetryInv'
  BY DEF RetryInv
<1> QED
  BY <1>1, <1>2, <1>3, <1>4

LEMMA FetchKeeps == ASSUME PageInv, Fetch PROVE PageInv'
<1> USE DEF PageInv
<1>1. Accepted /\ Typing
  BY DEF Fetch, AcceptedInv
<1>2. params.size \in Nat \ {0} /\ params.num \in 1..IntMax /\ Offset(params) \in Int
  BY <1>1, AcceptedBounds, OffsetOfPage
<1>3. /\ list' = RowsFrom(Offset(params), params.size, rows)
      /\ lastPage' = LastPage(total, params.size)
      /\ stage' = IF Offset(params) < 0 THEN "dbError" ELSE "answered"
      /\ UNCHANGED <<lim, rows, raw, params, total, retried, stable>>
  BY DEF Fetch, RowsFrom
<1>4. Typing'
  <2>1. lastPage' \in Nat \ {0}
    BY <1>1, <1>2, <1>3, LastPageType, IntAssumption DEF Typing, TypeOK
  <2>2. list' \subseteq 1..MaxRows
    BY <1>1, <1>3, IntAssumption DEF Typing, TypeOK, RowsFrom
  <2> QED
    BY <1>1, <1>3, <2>1, <2>2 DEF Typing, TypeOK
<1>5. AcceptedInv'
  BY <1>1, <1>3 DEF AcceptedInv, Accepted
<1>6. CountInv'
  BY <1>3 DEF Fetch, CountInv
<1>7. AnswerInv'
  <2>1. Offset(params)' = Offset(params)
    BY <1>3 DEF Offset
  <2> QED
    BY <1>2, <1>3, <2>1 DEF AnswerInv
<1>8. RetryInv'
  BY <1>3 DEF Fetch, RetryInv
<1>9. NoDbError'
  <2>1. ASSUME Fits(lim) PROVE stage' = "answered"
    BY <1>1, <1>2, <1>3, <2>1, FittingOffset
  <2> QED
    BY <1>3, <2>1 DEF NoDbError
<1> QED
  BY <1>4, <1>5, <1>6, <1>7, <1>8, <1>9

LEMMA ChangeKeeps ==
    ASSUME PageInv, NEW n \in 0..MaxRows, Change(n)
    PROVE  PageInv'
<1> USE DEF PageInv, Change
<1>1. Typing'
  BY DEF Typing, TypeOK
<1>2. AcceptedInv'
  BY DEF AcceptedInv, Accepted
<1>3. CountInv' /\ NoDbError' /\ RetryInv'
  BY DEF CountInv, NoDbError, RetryInv
<1>4. AnswerInv'
  <2>1. Offset(params)' = Offset(params)
    BY DEF Offset
  <2> QED
    BY <2>1 DEF AnswerInv
<1> QED
  BY <1>1, <1>2, <1>3, <1>4

LEMMA StutterKeeps == ASSUME PageInv, UNCHANGED vars PROVE PageInv'
<1> USE DEF PageInv, vars
<1>1. Typing'
  BY DEF Typing, TypeOK
<1>2. AcceptedInv'
  BY DEF AcceptedInv, Accepted
<1>3. CountInv' /\ NoDbError' /\ RetryInv'
  BY DEF CountInv, NoDbError, RetryInv
<1>4. AnswerInv'
  <2>1. Offset(params)' = Offset(params)
    BY DEF Offset
  <2> QED
    BY <2>1 DEF AnswerInv
<1> QED
  BY <1>1, <1>2, <1>3, <1>4
-----------------------------------------------------------------------------
(* The theorems.                                                           *)

\* The invariant holds in every behaviour.
THEOREM PageInvariant == Spec => []PageInv
<1>1. Init => PageInv
  BY InitPage
<1>2. PageInv /\ [Next]_vars => PageInv'
  <2> SUFFICES ASSUME PageInv, [Next]_vars PROVE PageInv'
    OBVIOUS
  <2> HIDE DEF PageInv
  <2>1. CASE \E num \in Nums \cup {Unset, Garbage}, size \in Sizes \cup {Unset, Garbage} : Ask(num, size)
    BY <2>1, AskKeeps
  <2>2. CASE Retry
    BY <2>2, RetryKeeps
  <2>3. CASE Parse
    BY <2>3, ParseKeeps
  <2>4. CASE Count
    BY <2>4, CountKeeps
  <2>5. CASE Fetch
    BY <2>5, FetchKeeps
  <2>6. CASE \E n \in 0..MaxRows : Change(n)
    BY <2>6, ChangeKeeps
  <2>7. CASE UNCHANGED vars
    BY <2>7, StutterKeeps
  <2> QED
    BY <2>1, <2>2, <2>3, <2>4, <2>5, <2>6, <2>7 DEF Next
<1> QED
  BY <1>1, <1>2, PTL DEF Spec

\* TypeOK holds: lastPage is never below 1 (result.go).
THEOREM PageTypeCorrect == Spec => []TypeOK
<1>1. PageInv => TypeOK
  BY DEF PageInv, Typing
<1> QED
  BY <1>1, PageInvariant, PTL

\* AnswerIsPage holds: with limits whose last page fits an int, what Offset and
\* PageSize select is exactly the page asked for (page.go).
THEOREM AnswerIsAlwaysPage == Spec => []AnswerIsPage
<1>1. PageInv => AnswerIsPage
  <2> SUFFICES ASSUME PageInv, Fits(lim)
               PROVE  /\ stage # "dbError"
                      /\ stage = "answered" /\ stable =>
                           list = {r \in 1..rows : PageOf(r, params.size) = params.num}
    BY DEF AnswerIsPage
  <2>1. stage # "dbError"
    BY DEF PageInv, NoDbError
  <2>2. ASSUME stage = "answered", stable
        PROVE  list = {r \in 1..rows : PageOf(r, params.size) = params.num}
    <3> DEFINE num == params.num
               size == params.size
               o == Offset(params)
    <3>1. Typing /\ Accepted /\ list = RowsFrom(o, size, rows)
      BY <2>2 DEF PageInv, AcceptedInv, AnswerInv
    <3>2. num \in 1..IntMax /\ size \in Nat \ {0} /\ o = (num - 1) * size
      BY <3>1, AcceptedBounds, FittingOffset
    <3> HIDE DEF num, size, o
    <3>3. ASSUME NEW r \in 1..rows
          PROVE  PageOf(r, size) = num <=> o < r /\ r <= o + size
      <4>1. rows \in Nat
        BY <3>1, IntAssumption DEF Typing, TypeOK
      <4>2. r \in Nat \ {0} /\ num \in Nat
        BY <3>2, <4>1, IntAssumption
      <4> QED
        BY <3>2, <4>2, PageOfRow
    <3>4. list = {r \in 1..rows : PageOf(r, size) = num}
      BY <3>1, <3>3 DEF RowsFrom
    <3> QED
      BY <3>4 DEF num, size
  <2> QED
    BY <2>1, <2>2
<1> QED
  BY <1>1, PageInvariant, PTL

\* RetryFindsLastRow holds: the lastPage of a page beyond the end is a page
\* number Parse accepts, and the last row is on that page (result.go).
THEOREM RetryAlwaysFindsLastRow == Spec => []RetryFindsLastRow
<1>1. PageInv => RetryFindsLastRow
  <2> SUFFICES ASSUME PageInv, retried, stable
               PROVE  stage # "refused" /\ (stage = "answered" => rows \in list)
    BY DEF RetryFindsLastRow
  <2>1. stage # "refused"
    BY DEF PageInv, RetryInv
  <2>2. ASSUME stage = "answered" PROVE rows \in list
    <3> DEFINE num == params.num
               size == params.size
               o == Offset(params)
    <3>1. Typing /\ Accepted /\ list = RowsFrom(o, size, rows)
      BY <2>2 DEF PageInv, AcceptedInv, AnswerInv
    <3>2. num \in 1..IntMax /\ size \in Nat \ {0}
      BY <3>1, AcceptedBounds
    <3>3. rows \in 1..IntMax
      BY <3>1, IntAssumption DEF PageInv, RetryInv, Typing, TypeOK
    <3>4. num = LastPage(rows, size)
      <4>1. lim \in LimitsChoices /\ raw.num \in Param /\ raw.num \in 1..lim.MaxPageNum
        BY <3>1 DEF PageInv, RetryInv, Typing, TypeOK
      <4>2. num = raw.num
        BY <3>1, <4>1, ParseOneBounds, LimitsAreInts, IntAssumption DEF Accepted
      <4> QED
        BY <3>1, <4>2 DEF PageInv, RetryInv, Accepted
    <3>5. (num - 1) * size < rows /\ rows <= (num - 1) * size + size
      <4> HIDE DEF num, size
      <4>1. rows \in Nat \ {0} /\ size \in Nat \ {0}
        BY <3>2, <3>3, IntAssumption
      <4>2. /\ (LastPage(rows, size) - 1) * size < rows
            /\ rows <= (LastPage(rows, size) - 1) * size + size
        BY <4>1, LastPageHoldsLastRow
      <4> QED
        BY <3>4, <4>2
    <3>6. o = (num - 1) * size
      <4>1. (num - 1) * size \in Nat
        BY <3>2, OffsetOfPage
      <4>2. (num - 1) * size <= IntMax
        <5> HIDE DEF num, size
        <5> QED
          BY <3>3, <3>5, <4>1, IntAssumption
      <4> QED
        BY <3>2, <4>2, OffsetOfPage
    <3> HIDE DEF num, size, o
    <3> QED
      BY <3>1, <3>3, <3>5, <3>6 DEF RowsFrom
  <2> QED
    BY <2>1, <2>2
<1> QED
  BY <1>1, PageInvariant, PTL
=============================================================================
