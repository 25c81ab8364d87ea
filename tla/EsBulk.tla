------------------------------- MODULE EsBulk -------------------------------
(***************************************************************************)
(* One call of Store.Bulk (zenalog/es/store.go) down to client.do          *)
(* (zenalog/es/client.go): the addresses are tried in order, a network     *)
(* failure moves on to the next, and the first HTTP answer is final.       *)
(*                                                                         *)
(* A request that was sent may be executed at any later time, also after   *)
(* the client has given up on it.  The context is of one of three kinds:   *)
(* "flush", made by the flusher with the very Timeout that http.Client     *)
(* has; "request", a caller's context that may end; "background", one that *)
(* never ends.                                                             *)
(***************************************************************************)
EXTENDS Naturals, FiniteSets

CONSTANTS
    Docs,   \* documents a batch may hold
    Nodes   \* number of addresses in Config.Addresses

ASSUME NodesAssumption == Nodes \in Nat \ {0}

VARIABLES
    docs,       \* the batch
    kind,       \* kind of context
    ctxDone,    \* the context has ended
    pc,         \* "start", "next" (loop head), "wait" (in hc.Do), "read", "done"
    at,         \* the loop is at address number at
    net,        \* what became of the request to each address
    taken,      \* documents each node has indexed
    stored,     \* number of copies of each document in the index
    heard,      \* history: the last address whose answer's header came in, or 0
    res         \* result of Bulk

vars == <<docs, kind, ctxDone, pc, at, net, taken, stored, heard, res>>

Addrs == 1..Nodes
Answers == {"ok", "notOk", "garbled"}   \* bulk response, other status, not JSON

TypeOK ==
    /\ docs \subseteq Docs
    /\ kind \in {"flush", "request", "background"}
    /\ ctxDone \in BOOLEAN
    /\ pc \in {"start", "next", "wait", "read", "done"}
    /\ at \in 1..(Nodes + 1)
    /\ net \in [Addrs -> {"none", "sent", "refused"} \cup Answers]
    /\ taken \in [Addrs -> SUBSET Docs]
    /\ stored \in [Docs -> Nat]
    /\ heard \in 0..Nodes
    /\ res \in {"none", "nil", "unreachable", "readError", "httpError", "decodeError",
                "rejected"}

Init ==
    /\ docs \in SUBSET Docs
    /\ kind \in {"flush", "request", "background"}
    /\ ctxDone = FALSE /\ pc = "start" /\ at = 1
    /\ net = [n \in Addrs |-> "none"]
    /\ taken = [n \in Addrs |-> {}]
    /\ stored = [d \in Docs |-> 0]
    /\ heard = 0
    /\ res = "none"
-----------------------------------------------------------------------------
(* The node behind address n, and the network.                             *)

\* The request is executed: S are the documents indexed, the others were
\* refused one by one.  A gateway may turn the answer into another status or
\* into something that is no bulk response.
Execute(n, S, a) ==
    /\ net[n] = "sent"
    /\ net' = [net EXCEPT ![n] = a]
    /\ taken' = [taken EXCEPT ![n] = S]
    /\ stored' = [d \in Docs |-> stored[d] + (IF d \in S THEN 1 ELSE 0)]
    /\ UNCHANGED <<docs, kind, ctxDone, pc, at, heard, res>>

\* The context ends: cancelled by its owner or, while the call waits for a node,
\* past its deadline.
CtxEnd ==
    /\ ~ctxDone
    /\ \/ kind = "request"
       \/ kind = "flush" /\ pc \in {"wait", "read"}
    /\ ctxDone' = TRUE
    /\ UNCHANGED <<docs, kind, pc, at, net, taken, stored, heard, res>>
-----------------------------------------------------------------------------
(* client.do                                                               *)

Done(r) == pc' = "done" /\ res' = r

\* lastErr = err; continue
NextAddr == pc' = "next" /\ at' = at + 1

\* Nothing to write is a success; otherwise the loop begins.
Begin ==
    /\ pc = "start"
    /\ IF docs = {} THEN Done("nil") ELSE pc' = "next" /\ UNCHANGED res
    /\ UNCHANGED <<docs, kind, ctxDone, at, net, taken, stored, heard>>

\* hc.Do with a context that has ended fails without touching the network.
Try ==
    /\ pc = "next" /\ at <= Nodes
    /\ \/ ctxDone /\ NextAddr /\ UNCHANGED net
       \/ ~ctxDone /\ pc' = "wait" /\ net' = [net EXCEPT ![at] = "sent"] /\ UNCHANGED at
    /\ UNCHANGED <<docs, kind, ctxDone, taken, stored, heard, res>>

\* Nobody listens at the address.
Refused ==
    /\ pc = "wait" /\ net[at] = "sent"
    /\ net' = [net EXCEPT ![at] = "refused"]
    /\ NextAddr
    /\ UNCHANGED <<docs, kind, ctxDone, taken, stored, heard, res>>

\* Altered: the same address is tried again.
BrokenRepeated ==
    /\ pc = "wait"
    /\ pc' = "next"
    /\ UNCHANGED <<docs, kind, ctxDone, at, net, taken, stored, heard, res>>

\* The connection breaks, or the context ends, before the answer's header: the
\* request may or may not have been executed, and may be executed yet.
Broken ==
    /\ pc = "wait"
    /\ NextAddr
    /\ UNCHANGED <<docs, kind, ctxDone, net, taken, stored, heard, res>>

\* Altered: http.Client without a Timeout waits as long as its context lives.
TimeoutMissing ==
    /\ pc = "wait" /\ kind = "flush"
    /\ NextAddr /\ ctxDone' = TRUE
    /\ UNCHANGED <<docs, kind, net, taken, stored, heard, res>>

\* No answer for http.Client's Timeout.  The context of a flush has the same
\* Timeout and began no later, so it has ended too.
Timeout ==
    /\ pc = "wait"
    /\ NextAddr
    /\ ctxDone' = (ctxDone \/ kind = "flush")
    /\ UNCHANGED <<docs, kind, net, taken, stored, heard, res>>

\* The header of the answer is in: no other address will be tried.
Answered ==
    /\ pc = "wait" /\ net[at] \in Answers
    /\ pc' = "read" /\ heard' = at
    /\ UNCHANGED <<docs, kind, ctxDone, at, net, taken, stored, res>>

\* return fmt.Errorf("es: all %d nodes unreachable")
Unreachable ==
    /\ pc = "next" /\ at > Nodes
    /\ Done("unreachable")
    /\ UNCHANGED <<docs, kind, ctxDone, at, net, taken, stored, heard>>

\* Altered: a body that breaks off counts as a network failure.
ReadErrorRetried ==
    /\ pc = "read"
    /\ NextAddr
    /\ UNCHANGED <<docs, kind, ctxDone, net, taken, stored, heard, res>>

\* The body breaks off, or its time is up.
ReadError ==
    /\ pc = "read"
    /\ Done("readError")
    /\ UNCHANGED <<docs, kind, ctxDone, at, net, taken, stored, heard>>
-----------------------------------------------------------------------------
(* Bulk, once do has returned the status and the body.                     *)

\* Altered: status 200 is taken for success.
JudgeStatusOnly ==
    /\ pc = "read"
    /\ Done(IF net[at] = "notOk" THEN "httpError" ELSE "nil")
    /\ UNCHANGED <<docs, kind, ctxDone, at, net, taken, stored, heard>>

\* The status, the JSON, the errors flag and the items are judged in turn.
Judge ==
    /\ pc = "read"
    /\ \/ net[at] = "notOk" /\ Done("httpError")
       \/ net[at] = "garbled" /\ Done("decodeError")
       \/ net[at] = "ok" /\ taken[at] # docs /\ Done("rejected")
       \/ net[at] = "ok" /\ taken[at] = docs /\ Done("nil")
    /\ UNCHANGED <<docs, kind, ctxDone, at, net, taken, stored, heard>>
-----------------------------------------------------------------------------
Client == \/ Begin \/ Try \/ Refused \/ Broken \/ Timeout \/ Answered
          \/ Unreachable \/ ReadError \/ Judge

Next ==
    \/ Client
    \/ CtxEnd
    \/ \E n \in Addrs, S \in SUBSET docs, a \in Answers : Execute(n, S, a)

Spec == Init /\ [][Next]_vars

\* The client runs, and its Timeout fires: nothing is assumed of the nodes.
FairSpec == Spec /\ WF_vars(Begin \/ Try \/ Unreachable \/ Judge) /\ WF_vars(Timeout)
-----------------------------------------------------------------------------
(* Safety.                                                                 *)

\* Bulk returns nil only when every document of the batch is in the index:
\* what a caller of Sync() relies on, and why the body of a 200 is parsed.
NilMeansIndexed == res = "nil" => \A d \in docs : stored[d] >= 1

\* Once an answer arrived no further address gets the batch, whatever the answer
\* was and however it ended: a batch a node has answered is not written twice.
FirstAnswerFinal == heard # 0 => \A n \in Addrs : n > heard => net[n] = "none"

\* However the addresses fail, each of them indexes the batch at most once.
CopiesBounded ==
    \A d \in Docs : stored[d] <= Cardinality({n \in Addrs : net[n] \in Answers})

\* "es: all %d nodes unreachable": every address was at least tried.
UnreachableMeansTried ==
    res = "unreachable" /\ kind = "flush" => \A n \in Addrs : net[n] # "none"
-----------------------------------------------------------------------------
(* Liveness.                                                               *)

\* Bulk returns even when every node is silent and the context never ends, so
\* neither the flusher nor a Sync() caller hangs.
BulkTerminates == <>(pc = "done")
=============================================================================
