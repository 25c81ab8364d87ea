---------------------------- MODULE ActivityList ----------------------------
(***************************************************************************)
(* The query side of zenalog (handler.go, list.go, es/query.go): a client  *)
(* asks for one page after the other until one comes back short; each      *)
(* request is parsed, checked, turned into a search and answered, while    *)
(* loggers go on writing documents and the clock runs.                     *)
(*                                                                         *)
(* The conditions, the keyword and ExcludedOperations are those of the     *)
(* whole walk: Docs are the documents that satisfy them.  An instant is a  *)
(* number; a document carries it twice, as timestamp (in milliseconds) and *)
(* as ts_nanos.  An int holds -(IntMax + 1) .. IntMax and wraps.           *)
(* Elasticsearch and the client are not part of the repository.            *)
(***************************************************************************)
EXTENDS Integers, FiniteSets

CONSTANTS
    Docs, Traces,
    IntMax,             \* largest int
    DefaultPageSize, MaxPageSize, MaxResultWindow, AggTermsSize,
    DefaultTimeWindow,  \* 24 hours
    NanosPerMilli,
    Sizes, Nums,        \* the integers clients send
    Unset, Garbage,     \* a parameter not sent, and one that is no integer
    MaxTime             \* bound: the last instant

ASSUME ListAssumption ==
    /\ IntMax \in Nat /\ MaxTime \in Nat /\ AggTermsSize \in Nat
    /\ DefaultPageSize \in 1..MaxPageSize /\ MaxPageSize \in 1..MaxResultWindow
    /\ MaxResultWindow \in 1..(IntMax - 1)
    /\ DefaultTimeWindow \in Nat /\ NanosPerMilli \in Nat \ {0}
    /\ Sizes \cup Nums \subseteq -(IntMax + 1)..IntMax

ASSUME ParameterAssumption == Unset \notin Int /\ Garbage \notin Int /\ Unset # Garbage

VARIABLES
    now,
    written,    \* the visible documents: instant and trace, by document
    stage,      \* "idle", "parse", "build", "search", "ok", "badRequest", "internalError"
    raw,        \* the query parameters of the request
    req,        \* ListRequest
    esReq,      \* es.QueryRequest
    esFailed,   \* history: the search met an Elasticsearch out of order
    walk        \* history: what the pages asked for so far have shown

vars == <<now, written, stage, raw, req, esReq, esFailed, walk>>

Times == {Unset} \cup 0..MaxTime
Items == Docs \cup Traces

NoWalk == [seen |-> {}, twice |-> {}, first |-> <<>>, last |-> <<>>,
           pages |-> 0, changed |-> FALSE, ties |-> FALSE, done |-> FALSE]

TypeOK ==
    /\ now \in 0..MaxTime
    /\ DOMAIN written \subseteq Docs
    /\ \A d \in DOMAIN written : written[d].at \in 0..now /\ written[d].trace \in Traces
    /\ stage \in {"idle", "parse", "build", "search", "ok", "badRequest", "internalError"}
    /\ raw.mode \in {"flat", "trace", "other"}
    /\ raw.start \in Times /\ raw.end \in Times
    /\ req.num \in -(IntMax + 1)..IntMax /\ req.size \in -(IntMax + 1)..IntMax
    /\ esReq.from \in -(IntMax + 1)..IntMax /\ esReq.size \in 0..MaxPageSize
    /\ esFailed \in BOOLEAN
    /\ walk.seen \subseteq Items /\ walk.twice \subseteq walk.seen
-----------------------------------------------------------------------------
\* What is left of the integer x in an int.
Wrap(x) ==
    IF -(IntMax + 1) <= x /\ x <= IntMax THEN x
    ELSE ((x + IntMax + 1) % (2 * (IntMax + 1))) - (IntMax + 1)

Milli(t) == t \div NanosPerMilli

Least(S) == CHOOSE x \in S : \A y \in S : x <= y

\* The documents of the range of a search; both ends are milliseconds.
Matching(s) ==
    {d \in DOMAIN written : Milli(s.start) <= Milli(written[d].at)
                              /\ Milli(written[d].at) <= Milli(s.end)}

TracesOf(D) == {written[d].trace : d \in D}
OfTrace(t, D) == {d \in D : written[d].trace = t}

\* Altered: rows are sorted by timestamp alone.
RowKeysCoarse(D) == [d \in D |-> Milli(written[d].at)]

\* What the sort of Search goes by: timestamp, then ts_nanos.
RowKeys(D) == [d \in D |-> written[d].at]

\* first_ts of every group.
GroupKeys(D) ==
    [t \in TracesOf(D) |-> Least({Milli(written[d].at) : d \in OfTrace(t, D)})]

\* What a page may show when items are sorted by descending key and those with
\* equal keys come in any order: of the items with one key, as many as the page
\* has positions in their stretch of the list.
PagesOf(key, from, size) ==
    LET Equal(x) == {y \in DOMAIN key : key[y] = key[x]}
        Above(x) == Cardinality({y \in DOMAIN key : key[y] > key[x]})
        Stretch(x) == (Above(x) + 1)..(Above(x) + Cardinality(Equal(x)))
    IN  {P \in SUBSET (DOMAIN key) :
            \A x \in DOMAIN key :
              Cardinality(P \cap Equal(x)) = Cardinality(Stretch(x) \cap (from + 1)..(from + size))}

\* The groups the terms aggregation keeps: those with the most documents.
KeptTraces(D) ==
    {K \in SUBSET TracesOf(D) :
        /\ Cardinality(K) = Least({AggTermsSize, Cardinality(TracesOf(D))})
        /\ \A t \in K, u \in TracesOf(D) \ K :
             Cardinality(OfTrace(t, D)) >= Cardinality(OfTrace(u, D))}

SameInstant(D) == \E x, y \in D : x # y /\ written[x].at = written[y].at
SameKey(key) == \E x, y \in DOMAIN key : x # y /\ key[x] = key[y]
-----------------------------------------------------------------------------
Init ==
    /\ now = 0 /\ written = <<>>
    /\ stage = "idle"
    /\ raw = [mode |-> "flat", num |-> Unset, size |-> Unset,
              start |-> Unset, end |-> Unset, conds |-> "valid"]
    /\ req = [mode |-> "flat", num |-> 0, size |-> 0]
    /\ esReq = [start |-> 0, end |-> 0, from |-> 0, size |-> 0]
    /\ esFailed = FALSE
    /\ walk = NoWalk

Answered == stage \in {"idle", "ok", "badRequest", "internalError"}

Forget ==
    /\ req' = [mode |-> "flat", num |-> 0, size |-> 0]
    /\ esReq' = [start |-> 0, end |-> 0, from |-> 0, size |-> 0]
    /\ esFailed' = FALSE

Tick ==
    /\ now < MaxTime
    /\ now' = now + 1
    /\ UNCHANGED <<written, stage, raw, req, esReq, esFailed, walk>>

\* A document becomes visible, some time after the instant it carries.
Write(d, t, tr) ==
    /\ d \notin DOMAIN written
    /\ written' = [e \in DOMAIN written \cup {d} |->
                     IF e = d THEN [at |-> t, trace |-> tr] ELSE written[e]]
    /\ UNCHANGED <<now, stage, raw, req, esReq, esFailed, walk>>

\* The client asks for a page out of the blue.
Ask(r) ==
    /\ Answered
    /\ stage' = "parse" /\ raw' = r
    /\ Forget
    /\ walk' = NoWalk
    /\ UNCHANGED <<now, written>>

\* The client goes on to the page after the one it got.
AskNext ==
    /\ stage = "ok" /\ walk.pages > 0 /\ ~walk.done
    /\ stage' = "parse" /\ raw' = [raw EXCEPT !.num = walk.pages + 1]
    /\ Forget
    /\ UNCHANGED <<now, written, walk>>

\* parseListRequest
Parse ==
    /\ stage = "parse"
    /\ IF raw.mode = "other" \/ raw.num = Garbage \/ raw.size = Garbage \/ raw.conds = "malformed"
         THEN stage' = "badRequest" /\ UNCHANGED req
         ELSE /\ stage' = "build"
              /\ req' = [mode |-> raw.mode,
                         num  |-> IF raw.num = Unset THEN 0 ELSE raw.num,
                         size |-> IF raw.size = Unset THEN 0 ELSE raw.size]
    /\ UNCHANGED <<now, written, raw, esReq, esFailed, walk>>

PageNum == IF req.num = 0 THEN 1 ELSE req.num
PageSize == IF req.size = 0 THEN DefaultPageSize ELSE req.size

\* Altered: pages are counted from 0.
FromShifted == Wrap(PageNum * PageSize)

From == Wrap(Wrap(PageNum - 1) * PageSize)

FieldsValid ==
    PageNum >= 0 /\ PageSize >= 0 /\ PageSize <= MaxPageSize /\ raw.conds = "valid"

\* Altered: only the first row of the page is held against the window.
WindowHoldsFrom == From <= MaxResultWindow

WindowHolds == Wrap(From + PageSize) <= MaxResultWindow

\* buildQueryRequest
Build ==
    /\ stage = "build"
    /\ IF FieldsValid /\ WindowHolds
         THEN LET end   == IF raw.end = Unset THEN now ELSE raw.end
                  start == IF raw.start = Unset THEN end - DefaultTimeWindow ELSE raw.start
              IN  stage' = "search" /\ esReq' = [start |-> start, end |-> end,
                                                 from |-> From, size |-> PageSize]
         ELSE stage' = "badRequest" /\ UNCHANGED esReq
    /\ UNCHANGED <<now, written, raw, req, esFailed, walk>>

\* What a page adds to the walk, if it is the one the walk has come to.
Show(key, tied, P) ==
    IF PageNum # walk.pages + 1 THEN UNCHANGED walk
    ELSE walk' = [seen    |-> walk.seen \cup P,
                  twice   |-> walk.twice \cup (walk.seen \cap P),
                  first   |-> IF walk.pages = 0 THEN key ELSE walk.first,
                  last    |-> key,
                  pages   |-> walk.pages + 1,
                  changed |-> walk.changed \/ (walk.pages > 0 /\ key # walk.first),
                  ties    |-> walk.ties \/ tied,
                  done    |-> Cardinality(P) < esReq.size]

EsRefuses == esReq.from < 0 \/ esReq.from + esReq.size > MaxResultWindow

\* Search, mode flat
SearchFlat ==
    /\ stage = "search" /\ req.mode = "flat" /\ ~EsRefuses
    /\ stage' = "ok"
    /\ LET D == Matching(esReq)
           key == RowKeys(D)
       IN  \E P \in PagesOf(key, esReq.from, esReq.size) : Show(key, SameInstant(D), P)
    /\ UNCHANGED <<now, written, raw, req, esReq, esFailed>>

\* AggregateByTrace
SearchTraces ==
    /\ stage = "search" /\ req.mode = "trace" /\ ~EsRefuses
    /\ stage' = "ok"
    /\ LET D == Matching(esReq)
           key == GroupKeys(D)
       IN  \E K \in KeptTraces(D) :
             \E P \in PagesOf([t \in K |-> key[t]], esReq.from, esReq.size) :
               Show(key, SameKey(key), P)
    /\ UNCHANGED <<now, written, raw, req, esReq, esFailed>>

\* Elasticsearch rejects the search, or is out of order: INTERNAL_ERROR.
SearchFails ==
    /\ stage = "search"
    /\ stage' = "internalError"
    /\ \/ EsRefuses /\ UNCHANGED esFailed
       \/ esFailed' = TRUE
    /\ UNCHANGED <<now, written, raw, req, esReq, walk>>

\* Requests that name a page and a time range, and requests that are wrong in a
\* parameter of another kind.
Plain == [mode |-> "flat", num |-> Unset, size |-> Unset,
          start |-> Unset, end |-> Unset, conds |-> "valid"]
Requests ==
    [mode : {"flat", "trace"}, num : Nums \cup {Unset}, size : Sizes \cup {Unset},
     start : {Unset, 0}, end : {Unset, now}, conds : {"valid"}]
    \cup {[Plain EXCEPT !.mode = "other"], [Plain EXCEPT !.num = Garbage],
          [Plain EXCEPT !.size = Garbage]}
    \cup {[Plain EXCEPT !.conds = c] : c \in {"malformed", "unknown"}}

Next ==
    \/ Tick
    \/ \E d \in Docs, t \in 0..now, tr \in Traces : Write(d, t, tr)
    \/ \E r \in Requests : Ask(r)
    \/ AskNext \/ Parse \/ Build
    \/ SearchFlat \/ SearchTraces \/ SearchFails

Spec == Init /\ [][Next]_vars
-----------------------------------------------------------------------------
\* No group is cut off the list: a flat list has none.
AllKept(key) == raw.mode = "trace" => Cardinality(DOMAIN key) <= AggTermsSize

\* Walking over a list that stays as it is, without two items of one key and, by
\* trace, with no more groups than the aggregation keeps, shows every item on
\* exactly one page.
WalkShowsAllOnce ==
    walk.done /\ ~walk.changed /\ ~walk.ties /\ AllKept(walk.first)
    => walk.seen = DOMAIN walk.first /\ walk.twice = {}

\* Documents that become visible during a flat walk, however late, and those that
\* fall out of the sliding window, may make it show a row twice; they never make
\* it miss a row that was listed from the first page to the last.
NoRowMissed ==
    raw.mode = "flat" /\ walk.done /\ ~walk.ties =>
        (DOMAIN walk.first) \cap (DOMAIN walk.last) \subseteq walk.seen

\* Whatever is wrong with a request is reported to the client as BAD_REQUEST:
\* INTERNAL_ERROR is answered only when Elasticsearch itself is out of order.  The
\* pages whose last position is no int are apart: DeepPagesRefused is about them.
ServerErrorsAreNotTheClients ==
    stage = "internalError" /\ PageNum * PageSize <= IntMax => esFailed

\* "An error is returned when from + size exceeds 10000."
DeepPagesRefused ==
    stage \in {"search", "ok"} => PageNum * PageSize <= MaxResultWindow
=============================================================================
