------------------------------ MODULE ZenServer ------------------------------
(***************************************************************************)
(* zenserver.Server.RunContext and shutdown (zenserver/zenserver.go): the  *)
(* goroutine that called RunContext, the goroutine that runs srv.Serve,    *)
(* the requests, and the context whose end asks for a graceful exit.       *)
(*                                                                         *)
(* net/http is modelled as the code uses it: Shutdown closes the listeners *)
(* that Serve has registered, waits for Serve to leave them and then for   *)
(* the requests, up to the deadline; Serve returns ErrServerClosed when it *)
(* finds the server shut down, and closes its listener on every return.    *)
(***************************************************************************)
EXTENDS Naturals, FiniteSets

CONSTANT Requests   \* connections that clients make, one request each

VARIABLES
    ctxDone,    \* the context of RunContext has ended
    pc,         \* where RunContext is
    serve,      \* the goroutine of Serve: "none", "starting", "accepting", "exited"
    port,       \* the listener: "none", "open", "closed"
    inShutdown, \* http.Server.inShutdown
    serveErr,   \* number of errors in the channel serveErr
    request,    \* state of each request
    deadline,   \* the context of shutdown: "unset", "running", "expired"
    errs,       \* errors collected by shutdown
    hooks,      \* which of OnStart and OnShutdown have succeeded or failed
    result      \* what RunContext returned

vars == <<ctxDone, pc, serve, port, inShutdown, serveErr, request, deadline, errs,
          hooks, result>>

PC == {"validate", "onStart", "listen", "select", "shutdown", "waitServe", "drain",
       "onShutdown", "returned"}
Errors == {"invalid", "onStart", "listen", "serve", "http", "onShutdown"}

TypeOK ==
    /\ ctxDone \in BOOLEAN /\ inShutdown \in BOOLEAN
    /\ pc \in PC
    /\ serve \in {"none", "starting", "accepting", "exited"}
    /\ port \in {"none", "open", "closed"}
    /\ serveErr \in 0..1
    /\ request \in [Requests -> {"new", "waiting", "running", "answered", "reset"}]
    /\ deadline \in {"unset", "running", "expired"}
    /\ errs \subseteq {"http", "onShutdown"}
    /\ hooks \in [{"OnStart", "OnShutdown"} -> {"none", "ok", "error"}]
    /\ result \subseteq Errors

Init ==
    /\ ctxDone \in BOOLEAN /\ pc = "validate"
    /\ serve = "none" /\ port = "none" /\ inShutdown = FALSE /\ serveErr = 0
    /\ request = [r \in Requests |-> "new"]
    /\ deadline = "unset" /\ errs = {}
    /\ hooks = [h \in {"OnStart", "OnShutdown"} |-> "none"]
    /\ result = {}
-----------------------------------------------------------------------------
(* RunContext                                                              *)

\* RunContext returns the errors e; none of them is nil.
Return(e) == pc' = "returned" /\ result' = e

\* Addr and RegisterRoutes are required.
Validate ==
    /\ pc = "validate"
    /\ Return({"invalid"}) \/ (pc' = "onStart" /\ UNCHANGED result)
    /\ UNCHANGED <<ctxDone, serve, port, inShutdown, serveErr, request, deadline, errs,
                   hooks>>

\* OnStart, with the caller's context; absent, it succeeds.
OnStart ==
    /\ pc = "onStart"
    /\ \/ pc' = "listen" /\ hooks' = [hooks EXCEPT !["OnStart"] = "ok"] /\ UNCHANGED result
       \/ Return({"onStart"}) /\ hooks' = [hooks EXCEPT !["OnStart"] = "error"]
    /\ UNCHANGED <<ctxDone, serve, port, inShutdown, serveErr, request, deadline, errs>>

\* net.Listen, in this goroutine; then Serve is started in another.
Listen ==
    /\ pc = "listen"
    /\ \/ Return({"listen"}) /\ UNCHANGED <<port, serve>>
       \/ port' = "open" /\ serve' = "starting" /\ pc' = "select" /\ UNCHANGED result
    /\ UNCHANGED <<ctxDone, inShutdown, serveErr, request, deadline, errs, hooks>>

\* case err := <-serveErr
SelectServeErr ==
    /\ pc = "select" /\ serveErr > 0
    /\ serveErr' = serveErr - 1
    /\ Return({"serve"})
    /\ UNCHANGED <<ctxDone, serve, port, inShutdown, request, deadline, errs, hooks>>

\* case <-ctx.Done(): shutdown makes its own context.
SelectCtxDone ==
    /\ pc = "select" /\ ctxDone
    /\ pc' = "shutdown" /\ deadline' = "running"
    /\ UNCHANGED <<ctxDone, serve, port, inShutdown, serveErr, request, errs, hooks, result>>
-----------------------------------------------------------------------------
(* The goroutine of Serve.                                                 *)

\* Serve registers the listener, unless the server is shut down already.
ServeStart ==
    /\ serve = "starting"
    /\ \/ inShutdown /\ serve' = "exited" /\ port' = "closed"
       \/ ~inShutdown /\ serve' = "accepting" /\ UNCHANGED port
    /\ UNCHANGED <<ctxDone, pc, inShutdown, serveErr, request, deadline, errs, hooks, result>>

\* A connection is accepted and its handler runs.
Accept(r) ==
    /\ serve = "accepting" /\ port = "open" /\ request[r] = "waiting"
    /\ request' = [request EXCEPT ![r] = "running"]
    /\ UNCHANGED <<ctxDone, pc, serve, port, inShutdown, serveErr, deadline, errs, hooks,
                   result>>

\* Altered: the channel has no buffer, and nobody may be receiving any more.
AcceptFailsUnbuffered ==
    /\ \/ /\ serve = "accepting"
          /\ serve' = IF inShutdown THEN "exited" ELSE "sending"
          /\ UNCHANGED <<pc, result>>
       \/ /\ serve = "sending" /\ pc = "select"
          /\ serve' = "exited" /\ Return({"serve"})
    /\ port' = "closed"
    /\ UNCHANGED <<ctxDone, inShutdown, serveErr, request, deadline, errs, hooks>>

\* Accept fails: for a server that is shut down that is the end Serve waits for,
\* for any other an error, left in the channel for the select.
AcceptFails ==
    /\ serve = "accepting"
    /\ serve' = "exited"
    /\ serveErr' = IF inShutdown THEN serveErr ELSE serveErr + 1
    /\ port' = "closed"
    /\ UNCHANGED <<ctxDone, pc, inShutdown, request, deadline, errs, hooks, result>>
-----------------------------------------------------------------------------
(* shutdown                                                                *)

\* srv.Shutdown closes the registered listeners.
Shutdown ==
    /\ pc = "shutdown"
    /\ inShutdown' = TRUE
    /\ port' = IF serve = "accepting" THEN "closed" ELSE port
    /\ pc' = "waitServe"
    /\ UNCHANGED <<ctxDone, serve, serveErr, request, deadline, errs, hooks, result>>

\* Altered: requests are not waited for.
ServeLeftThenDone ==
    /\ pc = "waitServe" /\ serve # "accepting"
    /\ pc' = "onShutdown"
    /\ UNCHANGED <<ctxDone, serve, port, inShutdown, serveErr, request, deadline, errs,
                   hooks, result>>

\* srv.Shutdown waits until no listener is registered, then for the requests.
ServeLeft ==
    /\ pc = "waitServe" /\ serve # "accepting"
    /\ pc' = "drain"
    /\ UNCHANGED <<ctxDone, serve, port, inShutdown, serveErr, request, deadline, errs,
                   hooks, result>>

\* srv.Shutdown returns nil: no request is left.
Drained ==
    /\ pc = "drain" /\ \A r \in Requests : request[r] # "running"
    /\ pc' = "onShutdown"
    /\ UNCHANGED <<ctxDone, serve, port, inShutdown, serveErr, request, deadline, errs,
                   hooks, result>>

\* Altered: a timeout ends the shutdown.
DrainExpiredReturns ==
    /\ pc = "drain" /\ deadline = "expired"
    /\ Return({"http"})
    /\ UNCHANGED <<ctxDone, serve, port, inShutdown, serveErr, request, deadline, errs, hooks>>

\* Altered: the error of srv.Shutdown is dropped.
DrainExpiredSilently ==
    /\ pc = "drain" /\ deadline = "expired"
    /\ pc' = "onShutdown"
    /\ UNCHANGED <<ctxDone, serve, port, inShutdown, serveErr, request, deadline, errs, hooks,
                   result>>

\* srv.Shutdown returns the error of its context.
DrainExpired ==
    /\ pc = "drain" /\ deadline = "expired"
    /\ errs' = errs \cup {"http"}
    /\ pc' = "onShutdown"
    /\ UNCHANGED <<ctxDone, serve, port, inShutdown, serveErr, request, deadline, hooks, result>>

\* OnShutdown returns; the errors of both steps are joined.
OnShutdown ==
    /\ pc = "onShutdown"
    /\ \/ errs' = errs /\ hooks' = [hooks EXCEPT !["OnShutdown"] = "ok"]
       \/ errs' = errs \cup {"onShutdown"} /\ hooks' = [hooks EXCEPT !["OnShutdown"] = "error"]
    /\ Return(errs')
    /\ UNCHANGED <<ctxDone, serve, port, inShutdown, serveErr, request, deadline>>
-----------------------------------------------------------------------------
(* The world outside.                                                      *)

Cancel ==
    /\ ~ctxDone /\ ctxDone' = TRUE
    /\ UNCHANGED <<pc, serve, port, inShutdown, serveErr, request, deadline, errs, hooks, result>>

Expire ==
    /\ deadline = "running" /\ deadline' = "expired"
    /\ UNCHANGED <<ctxDone, pc, serve, port, inShutdown, serveErr, request, errs, hooks, result>>

\* A client connects as soon as the port is open, accepted or not.
Connect(r) ==
    /\ request[r] = "new" /\ port = "open"
    /\ request' = [request EXCEPT ![r] = "waiting"]
    /\ UNCHANGED <<ctxDone, pc, serve, port, inShutdown, serveErr, deadline, errs, hooks, result>>

\* A connection still waiting when the listener closes is reset.
Reset(r) ==
    /\ request[r] = "waiting" /\ port = "closed"
    /\ request' = [request EXCEPT ![r] = "reset"]
    /\ UNCHANGED <<ctxDone, pc, serve, port, inShutdown, serveErr, deadline, errs, hooks, result>>

\* The handler of r returns.
Answer(r) ==
    /\ request[r] = "running"
    /\ request' = [request EXCEPT ![r] = "answered"]
    /\ UNCHANGED <<ctxDone, pc, serve, port, inShutdown, serveErr, deadline, errs, hooks, result>>
-----------------------------------------------------------------------------
Main == Validate \/ OnStart \/ Listen \/ SelectServeErr \/ SelectCtxDone
        \/ Shutdown \/ ServeLeft \/ Drained \/ DrainExpired \/ OnShutdown

\* With the listener closed under it, Accept fails at once.
AcceptEnds == port = "closed" /\ AcceptFails

Elsewhere ==
    \/ ServeStart \/ AcceptFails
    \/ Cancel \/ Expire
    \/ \E r \in Requests : Connect(r) \/ Accept(r) \/ Reset(r) \/ Answer(r)

Next == Main \/ Elsewhere

Spec == Init /\ [][Next]_vars
-----------------------------------------------------------------------------
(* Safety.                                                                 *)

\* RunContext returns nil only after a graceful exit: no handler runs, nothing
\* will be accepted, and OnShutdown has succeeded.
NilMeansGraceful ==
    pc = "returned" /\ result = {} =>
        /\ \A r \in Requests : request[r] # "running"
        /\ serve # "accepting"
        /\ hooks["OnShutdown"] = "ok"

\* OnShutdown closes what handlers use: while it runs, and afterwards, a handler
\* runs only if the shutdown has timed out, and then the error says so.
OnShutdownAfterDrain ==
    /\ pc = "onShutdown" \/ hooks["OnShutdown"] # "none"
    /\ \E r \in Requests : request[r] = "running"
    => "http" \in errs
-----------------------------------------------------------------------------
(* Liveness.                                                               *)

\* Once its context ends, a listening server returns, however long the requests.
ShutdownTerminates == (pc = "select" /\ ctxDone) ~> (pc = "returned")

\* RunContext leaves neither its goroutine nor its listener behind.
NothingLeftBehind ==
    (pc = "returned" /\ serve # "none") ~> (serve = "exited" /\ port = "closed")
=============================================================================
