----------------------------- MODULE RequestLog -----------------------------
(***************************************************************************)
(* Requests and their log lines: the middlewares RequestID, AccessLog and  *)
(* Recovery around a handler (ginx/middleware.go, in the order that        *)
(* zenserver.go gives them), which derives loggers from a logger that all  *)
(* requests share (logx/handler.go), answers or panics.                    *)
(*                                                                         *)
(* A derived traceHandler remembers how it came from the root in a slice,  *)
(* mods.  Slices are modelled as Go has them: an array with a length and a *)
(* capacity, where append writes in place if there is room.                *)
(***************************************************************************)
EXTENDS Startup

CONSTANTS
    Requests,   \* each one names the request id it has
    Shapes,     \* how the shared logger may have been derived
    MaxDerived  \* bound: derivations in one request

ASSUME ShapesAssumption == Shapes \subseteq Seq([kind : {"attr", "group"}, by : {"service"}])

VARIABLES
    arrays,     \* the arrays of mods
    parent,     \* the logger all requests share
    logger,     \* the logger of each request's handler
    pc,         \* where each request is
    status,     \* Writer.Status()
    began,      \* the handler has written a response
    panicked,   \* history: the handler has panicked
    lines       \* the lines of each request, in order

requestVars == <<logger, pc, status, began, panicked, lines>>
vars == <<startVars, arrays, parent, requestVars>>

\* mods are records: kind is "attr" or "group" (WithAttrs, WithGroup), by the request
\* that derives, or "service".
Groups(chain) == Cardinality({k \in 1..Len(chain) : chain[k].kind = "group"})

\* A traceHandler: base has all of its mods applied; the others are fields.  Its slice is
\* array arr with a length and a capacity.
Handler(arr, len, cap, base) ==
    [arr |-> arr, len |-> len, cap |-> cap, base |-> base, grouped |-> Groups(base) > 0]

\* A slice of one element more than n, when there was room for n.
Grown(n) == IF n = 0 THEN 1 ELSE 2 * n

\* The capacity after n derivations, each from a clipped slice.
CapOf(n) == IF n = 0 THEN 0 ELSE Grown(n - 1)

RequestInit ==
    /\ StartInit
    /\ arrays = <<>> /\ parent = Handler(0, 0, 0, <<>>)
    /\ logger = [r \in Requests |-> parent]
    /\ pc = [r \in Requests |-> "new"]
    /\ status = [r \in Requests |-> 200] /\ began = [r \in Requests |-> FALSE]
    /\ panicked = [r \in Requests |-> FALSE]
    /\ lines = [r \in Requests |-> <<>>]

\* The service starts, and derives the logger that its handlers share.
StartUp ==
    /\ Start
    /\ IF stage' = "running"
         THEN \E shape \in Shapes :
                /\ arrays' = <<shape>>
                /\ parent' = Handler(1, Len(shape), CapOf(Len(shape)), shape)
         ELSE UNCHANGED <<arrays, parent>>
    /\ UNCHANGED requestVars

BreakOne ==
    /\ \E d \in Destinations : Break(d)
    /\ UNCHANGED <<arrays, parent, requestVars>>
-----------------------------------------------------------------------------
(* traceHandler                                                            *)

\* Altered: the slice is not clipped.
ClippedNot(h) == h

\* slices.Clip: there is no room for an append.
Clipped(h) == [h EXCEPT !.cap = h.len]

\* with: the derived handler, and the arrays with what append has written.
With(h, mod) ==
    LET s == Clipped(h)
        mods == Append(SubSeq(arrays[h.arr], 1, h.len), mod)
    IN  IF s.len < s.cap
          THEN [arrays  |-> [arrays EXCEPT ![s.arr] = mods \o SubSeq(@, s.len + 2, Len(@))],
                handler |-> Handler(s.arr, s.len + 1, s.cap, Append(h.base, mod))]
          ELSE [arrays  |-> Append(arrays, mods),
                handler |-> Handler(Len(arrays) + 1, s.len + 1, Grown(s.len), Append(h.base, mod))]

\* Altered: trace attributes are always added to the record.
FastAlways(h) == TRUE

Fast(h) == ~h.grouped

\* A line of request r through handler h: the derivation it shows, and inside how many
\* groups the request id is.  Not grouped, it is the base's; grouped, mods are replayed
\* on the root after the request id.
LineOf(r, what, level, h) ==
    [what |-> what, level |-> level, id |-> r, status |-> status[r],
     chain |-> IF Fast(h) THEN h.base ELSE SubSeq(arrays[h.arr], 1, h.len),
     inside |-> IF Fast(h) THEN Groups(h.base) ELSE 0,
     derived |-> h.base, to |-> Reached(level)]

Logged(r, what, level, h) ==
    lines' = IF Enabled(level) THEN [lines EXCEPT ![r] = Append(@, LineOf(r, what, level, h))]
             ELSE lines

\* slog.Default(): the middlewares use the handler of Init itself.
Default == Handler(0, 0, 0, <<>>)
-----------------------------------------------------------------------------
(* A request.                                                              *)

Goto(r, next) == pc' = [pc EXCEPT ![r] = next]

\* RequestID, AccessLog and Recovery up to their c.Next().
Begin(r) ==
    /\ stage = "running" /\ pc[r] = "new"
    /\ Goto(r, "handler")
    /\ logger' = [logger EXCEPT ![r] = parent]
    /\ UNCHANGED <<startVars, arrays, parent, status, began, panicked, lines>>

\* With or WithGroup on the logger at hand.
Derive(r) ==
    /\ pc[r] = "handler" /\ logger[r].len < parent.len + MaxDerived
    /\ \E kind \in {"attr", "group"} :
         LET w == With(logger[r], [kind |-> kind, by |-> r])
         IN  arrays' = w.arrays /\ logger' = [logger EXCEPT ![r] = w.handler]
    /\ UNCHANGED <<startVars, parent, pc, status, began, panicked, lines>>

\* The handler logs an error.
Log(r) ==
    /\ pc[r] = "handler" /\ lines[r] = <<>>
    /\ Logged(r, "entry", "error", logger[r])
    /\ UNCHANGED <<startVars, arrays, parent, logger, pc, status, began, panicked>>

\* Success, Fail and the others answer 200.
Respond(r) ==
    /\ pc[r] = "handler" /\ ~began[r]
    /\ began' = [began EXCEPT ![r] = TRUE]
    /\ UNCHANGED <<startVars, arrays, parent, logger, pc, status, panicked, lines>>

Return(r) ==
    /\ pc[r] = "handler"
    /\ Goto(r, "access")
    /\ UNCHANGED <<startVars, arrays, parent, logger, status, began, panicked, lines>>

Panic(r) ==
    /\ pc[r] = "handler"
    /\ Goto(r, "recovery") /\ panicked' = [panicked EXCEPT ![r] = TRUE]
    /\ UNCHANGED <<startVars, arrays, parent, logger, status, began, lines>>

\* Altered: Recovery is installed outside of AccessLog, which the panic leaves.
AfterRecoveryOutside == "done"

\* Recovery returns to AccessLog.
AfterRecovery == "access"

\* Recovery: the panic is logged; the answer is 500, unless one has begun.
Recover(r) ==
    /\ pc[r] = "recovery"
    /\ Logged(r, "panic", "error", Default)
    /\ status' = [status EXCEPT ![r] = IF began[r] THEN @ ELSE 500]
    /\ Goto(r, AfterRecovery)
    /\ UNCHANGED <<startVars, arrays, parent, logger, began, panicked>>

\* AccessLog, after its c.Next().
Access(r) ==
    /\ pc[r] = "access"
    /\ Logged(r, "access", "info", Default)
    /\ Goto(r, "done")
    /\ UNCHANGED <<startVars, arrays, parent, logger, status, began, panicked>>

RequestNext ==
    \/ StartUp \/ BreakOne
    \/ \E r \in Requests : \/ Begin(r) \/ Derive(r) \/ Log(r) \/ Respond(r)
                           \/ Return(r) \/ Panic(r) \/ Recover(r) \/ Access(r)

RequestSpec == RequestInit /\ [][RequestNext]_vars
-----------------------------------------------------------------------------
AllLines == UNION {ToSet(lines[r]) : r \in Requests}

\* A line shows the attributes and groups its own logger was derived with, whatever
\* other requests derive from the same parent; and the request id is in no group.
LinesShowTheirLogger ==
    \A l \in AllLines : l.chain = l.derived /\ l.inside = 0

\* Every request that ends has one access record, its last line, with the status its
\* client got: 500 after a panic, unless a response had begun; and a panic has its
\* error record before it.  Only a threshold above info leaves access records out.
PanicsAreTold ==
    \A r \in Requests : pc[r] = "done" =>
        LET n == Len(lines[r])
            told(what) == {k \in 1..n : lines[r][k].what = what}
        IN  /\ told("access") = IF wanted.level = "info" THEN {n} ELSE {}
            /\ told("panic") = IF ~panicked[r] THEN {}
                               ELSE IF wanted.level = "info" THEN {n - 1} ELSE {n}
            /\ \A k \in told("access") : lines[r][k].status = status[r]
            /\ status[r] = 500 <=> (panicked[r] /\ ~began[r])

\* Where the settings w want a line of level l to go.
Due(w, l) ==
    IF w.mode = "dev" THEN {d \in {"stdout"} : Takes(w.level, l)}
    ELSE {d \in Destinations :
            \/ d = "app.log" /\ Takes(w.level, l)
            \/ d = "error.log" /\ l = "error"
            \/ d = "stdout" /\ (l = "error" \/ (w.console = "true" /\ Takes(w.level, l)))}

\* Line l has arrived, given the settings w and that no more than the destinations in
\* lost were broken.
Arrived(l, w, lost) ==
    LET got == ToSet(l.to)
        due == Due(w, l.level)
    IN  /\ IsInjective(l.to) /\ got \subseteq due /\ due # {}
        /\ due \ got \subseteq lost \/ "stdout" \in lost
        /\ l.level = "error" /\ w.mode = "prod" /\ Cardinality(lost) <= 1
             => got \cap {"app.log", "error.log"} # {}

\* Every line reaches the destinations that file and environment want, each once.  A
\* file that cannot be written costs the lines of no other destination; a broken
\* stdout may take a file with it, but an error is still in one of the files.
LinesArrive == \A l \in AllLines : Arrived(l, wanted, broken)
=============================================================================
