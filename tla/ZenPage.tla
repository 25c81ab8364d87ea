------------------------------- MODULE ZenPage -------------------------------
(***************************************************************************)
(* zenpage (page.go, result.go) in the use it is made for: a client asks   *)
(* for a page, the server parses the parameters, counts the rows, fetches  *)
(* those of the page with LIMIT and OFFSET, and answers with lastPage; a   *)
(* client that finds an empty page of a non-empty list asks once more, for *)
(* lastPage.  Rows come and go between any two of these steps.             *)
(*                                                                         *)
(* An int holds -(IntMax + 1) .. IntMax and wraps.  The client and the     *)
(* table are not part of the repository.                                   *)
(***************************************************************************)
EXTENDS Integers

CONSTANTS
    IntMax,         \* largest int
    LimitsChoices,  \* the Limits a server may be set up with
    Sizes, Nums,    \* the integers clients send
    Unset, Garbage, \* a parameter not sent, and one that is no integer
    MaxRows         \* bound: rows in the table

ASSUME IntAssumption ==
    /\ IntMax \in Nat /\ MaxRows \in 0..IntMax
    /\ Sizes \cup Nums \subseteq -(IntMax + 1)..IntMax
    /\ \A l \in LimitsChoices :
          {l.DefaultPageSize, l.MaxPageSize, l.MaxPageNum} \subseteq -(IntMax + 1)..IntMax

ASSUME ParameterAssumption == Unset \notin Int /\ Garbage \notin Int /\ Unset # Garbage

VARIABLES
    lim,        \* the server's Limits
    rows,       \* number of rows in the table
    stage,      \* "idle", "parse", "count", "fetch", "answered", "refused", "dbError"
    raw,        \* the parameters of the request: pageNum and pageSize
    params,     \* the Params that Parse produced
    total,      \* Result.Total
    list,       \* Result.List: the rows, numbered from 1
    lastPage,   \* Result.LastPage
    retried,    \* the request is the client's second one
    stable      \* history: no row came or went since the first count

vars == <<lim, rows, stage, raw, params, total, list, lastPage, retried, stable>>

TypeOK ==
    /\ lim \in LimitsChoices /\ rows \in 0..MaxRows
    /\ stage \in {"idle", "parse", "count", "fetch", "answered", "refused", "dbError"}
    /\ raw.num \in {Unset, Garbage} \cup Int /\ raw.size \in {Unset, Garbage} \cup Int
    /\ params.num \in Int /\ params.size \in Int
    /\ total \in 0..MaxRows
    /\ list \subseteq 1..MaxRows
    /\ lastPage \in Nat \ {0}
    /\ retried \in BOOLEAN /\ stable \in BOOLEAN
-----------------------------------------------------------------------------
(* page.go and result.go                                                   *)

\* What is left of the integer x in an int.
Wrap(x) ==
    IF -(IntMax + 1) <= x /\ x <= IntMax THEN x
    ELSE ((x + IntMax + 1) % (2 * (IntMax + 1))) - (IntMax + 1)

\* The problems parseOne finds in one parameter.
Problem(v, max) == v = Garbage \/ (v # Unset /\ (v < 1 \/ v > max))

\* The value parseOne returns.
ParseOne(v, def, max) == IF v = Unset \/ Problem(v, max) THEN def ELSE v

LimitsUsable(l) == l.DefaultPageSize > 0 /\ l.MaxPageSize > 0 /\ l.MaxPageNum > 0

\* Altered: the first page starts at OFFSET pageSize.
OffsetShifted(p) ==
    IF p.num < 1 \/ p.size < 1 THEN 0 ELSE Wrap(p.num * p.size)

Offset(p) ==
    IF p.num < 1 \/ p.size < 1 THEN 0 ELSE Wrap(Wrap(p.num - 1) * p.size)

\* Altered: the number of full pages.
LastPageFloor(n, size) ==
    IF size < 1 \/ n < size THEN 1 ELSE n \div size

\* lastPage(total, pageSize)
LastPage(n, size) ==
    IF size < 1 \/ n <= 0 THEN 1 ELSE (n + size - 1) \div size
-----------------------------------------------------------------------------
Init ==
    /\ lim \in LimitsChoices /\ rows \in 0..MaxRows
    /\ stage = "idle"
    /\ raw = [num |-> Unset, size |-> Unset]
    /\ params = [num |-> 0, size |-> 0]
    /\ total = 0 /\ list = {} /\ lastPage = 1
    /\ retried = FALSE /\ stable = FALSE

\* The client asks for a page.
Ask(num, size) ==
    /\ stage \in {"idle", "answered", "refused", "dbError"}
    /\ stage' = "parse"
    /\ raw' = [num |-> num, size |-> size]
    /\ retried' = FALSE /\ stable' = FALSE
    /\ params' = [num |-> 0, size |-> 0]
    /\ total' = 0 /\ list' = {} /\ lastPage' = 1
    /\ UNCHANGED <<lim, rows>>

\* The client finds itself beyond the end.
Retry ==
    /\ stage = "answered" /\ total > 0 /\ list = {} /\ ~retried
    /\ stage' = "parse"
    /\ raw' = [raw EXCEPT !.num = lastPage]
    /\ retried' = TRUE
    /\ params' = [num |-> 0, size |-> 0]
    /\ total' = 0 /\ list' = {} /\ lastPage' = 1
    /\ UNCHANGED <<lim, rows, stable>>

\* Altered: pageNum has no upper bound.
ParseUncapped ==
    /\ stage = "parse"
    /\ IF LimitsUsable(lim) /\ ~Problem(raw.num, IntMax) /\ ~Problem(raw.size, lim.MaxPageSize)
         THEN /\ stage' = "count"
              /\ params' = [num  |-> ParseOne(raw.num, 1, IntMax),
                            size |-> ParseOne(raw.size, lim.DefaultPageSize, lim.MaxPageSize)]
         ELSE stage' = "refused" /\ UNCHANGED params
    /\ UNCHANGED <<lim, rows, raw, total, list, lastPage, retried, stable>>

Parse ==
    /\ stage = "parse"
    /\ IF /\ LimitsUsable(lim)
          /\ ~Problem(raw.num, lim.MaxPageNum) /\ ~Problem(raw.size, lim.MaxPageSize)
         THEN /\ stage' = "count"
              /\ params' = [num  |-> ParseOne(raw.num, 1, lim.MaxPageNum),
                            size |-> ParseOne(raw.size, lim.DefaultPageSize, lim.MaxPageSize)]
         ELSE stage' = "refused" /\ UNCHANGED params
    /\ UNCHANGED <<lim, rows, raw, total, list, lastPage, retried, stable>>

\* SELECT COUNT(*)
Count ==
    /\ stage = "count"
    /\ stage' = "fetch"
    /\ total' = rows
    /\ stable' = (stable \/ ~retried)
    /\ UNCHANGED <<lim, rows, raw, params, list, lastPage, retried>>

\* SELECT ... LIMIT ? OFFSET ?, then NewResult.
Fetch ==
    /\ stage = "fetch"
    /\ stage' = IF Offset(params) < 0 THEN "dbError" ELSE "answered"
    /\ list' = {r \in 1..rows : Offset(params) < r /\ r <= Offset(params) + params.size}
    /\ lastPage' = LastPage(total, params.size)
    /\ UNCHANGED <<lim, rows, raw, params, total, retried, stable>>

\* Rows are inserted or deleted.
Change(n) ==
    /\ n # rows
    /\ rows' = n /\ stable' = FALSE
    /\ UNCHANGED <<lim, stage, raw, params, total, list, lastPage, retried>>

Next ==
    \/ \E num \in Nums \cup {Unset, Garbage}, size \in Sizes \cup {Unset, Garbage} : Ask(num, size)
    \/ Retry \/ Parse \/ Count \/ Fetch
    \/ \E n \in 0..MaxRows : Change(n)

Spec == Init /\ [][Next]_vars
-----------------------------------------------------------------------------
\* The page that row r is on, counted from the front of the table.
PageOf(r, size) == (r - 1) \div size + 1

\* The largest offset these limits admit is an int.  A page is as long as the
\* larger of the two sizes: Parse returns DefaultPageSize without looking at
\* MaxPageSize.
Fits(l) ==
    l.MaxPageNum * (IF l.DefaultPageSize > l.MaxPageSize THEN l.DefaultPageSize
                                                         ELSE l.MaxPageSize) <= IntMax

\* With limits that fit, every accepted request is answered with exactly the rows
\* of its page, so that the pages of an unchanged table neither overlap nor leave
\* a row out, and no page number that Parse accepts makes the offset wrap.
AnswerIsPage ==
    Fits(lim) =>
        /\ stage # "dbError"
        /\ stage = "answered" /\ stable =>
             list = {r \in 1..rows : PageOf(r, params.size) = params.num}

\* lastPage serves its purpose: unless rows came or went meanwhile, the second
\* request is accepted and its page holds the last row.
RetryFindsLastRow ==
    retried /\ stable => stage # "refused" /\ (stage = "answered" => rows \in list)
=============================================================================
