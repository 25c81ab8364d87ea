-------------------------- MODULE GracefulExit_proofs --------------------------
(***************************************************************************)
(* Proofs about ZenServer and GracefulExit, for any set of requests and    *)
(* any sizes of the logger.                                                *)
(*                                                                         *)
(* First the server by itself, with an inductive invariant ServerInv.      *)
(* Then: the service with the logger is a server (ExitSpec implements      *)
(* Spec), so that what was proved of the server holds of the whole; and    *)
(* ExitInv, which relates the server to the logger.  That the logger of    *)
(* AsyncLog, from which the service is composed, is the one of the code is *)
(* proved in ZenLogger_proofs.                                             *)
(***************************************************************************)
EXTENDS GracefulExit, TLAPS

\* RunContext is before Serve, or has returned without having come to it.
NoServer ==
    \/ pc \in {"validate", "onStart", "listen"}
    \/ pc = "returned" /\ hooks["OnShutdown"] = "none" /\ result # {"serve"}

\* Nobody connects before there is a listener.
NothingServed ==
    /\ NoServer => serve = "none" /\ port = "none"
    /\ port = "none" => \A r \in Requests : request[r] = "new"

\* Serve leaves at most one error, its last act: the channel's one place is enough.
OneError == serve # "exited" => serveErr = 0

\* Once the listeners are left nothing is accepted any more.
ServeStopped ==
    /\ pc = "waitServe" => inShutdown
    /\ pc \in {"drain", "onShutdown"} \/ hooks["OnShutdown"] # "none" =>
           inShutdown /\ serve # "accepting"

\* What the result tells of the way RunContext has taken.
Returns ==
    /\ pc \in {"validate", "onStart"} => hooks["OnStart"] = "none"
    /\ pc # "returned" => hooks["OnShutdown"] = "none"
    /\ pc = "returned" /\ hooks["OnShutdown"] = "none" =>
           \/ result = {"invalid"} /\ hooks["OnStart"] = "none"
           \/ result = {"onStart"} /\ hooks["OnStart"] = "error"
           \/ result \in {{"listen"}, {"serve"}}
    /\ hooks["OnShutdown"] # "none" => result = errs
    /\ hooks["OnShutdown"] = "error" => "onShutdown" \in errs

ServerInv == TypeOK /\ OneError /\ NothingServed /\ ServeStopped /\ Returns /\ OnShutdownAfterDrain

LEMMA ServerInit == Init => ServerInv
<1> SUFFICES ASSUME Init PROVE ServerInv
  OBVIOUS
<1>1. ctxDone \in BOOLEAN /\ inShutdown \in BOOLEAN
  BY DEF Init
<1>2. pc \in PC /\ serveErr \in 0..1 /\ errs = {} /\ result = {}
  BY DEF Init, PC
<1>3. serve = "none" /\ port = "none" /\ deadline = "unset"
  BY DEF Init
<1>4. hooks \in [{"OnStart", "OnShutdown"} -> {"none", "ok", "error"}]
  BY DEF Init
<1>5. request \in [Requests -> {"new", "waiting", "running", "answered", "reset"}]
  BY DEF Init
<1>6. TypeOK
  BY <1>1, <1>2, <1>3, <1>4, <1>5 DEF TypeOK
<1> QED
  BY <1>6 DEF Init, ServerInv, OneError, NothingServed, NoServer, ServeStopped, Returns, OnShutdownAfterDrain

LEMMA ServerTyping == ServerInv /\ [Next]_vars => TypeOK' /\ OneError'
<1> SUFFICES ASSUME ServerInv, [Next]_vars PROVE TypeOK' /\ OneError'
  OBVIOUS
<1> USE DEF ServerInv, TypeOK, OneError, PC, Errors
<1>1. CASE Validate
  BY <1>1 DEF Validate, Return
<1>2. CASE OnStart
  <2>1. hooks' \in [{"OnStart", "OnShutdown"} -> {"none", "ok", "error"}]
    BY <1>2 DEF OnStart
  <2>2. result' \subseteq Errors /\ pc' \in PC
    BY <1>2 DEF OnStart, Return
  <2> QED
    BY <1>2, <2>1, <2>2 DEF OnStart
<1>3. CASE Listen
  BY <1>3 DEF Listen, Return, NothingServed, NoServer
<1>4. CASE SelectServeErr
  BY <1>4 DEF SelectServeErr, Return
<1>5. CASE SelectCtxDone \/ Shutdown \/ ServeLeft
  BY <1>5 DEF SelectCtxDone, Shutdown, ServeLeft
<1>6. CASE Drained \/ DrainExpired
  BY <1>6 DEF Drained, DrainExpired
<1>7. CASE OnShutdown
  <2>1. errs' \subseteq {"http", "onShutdown"} /\ result' = errs' /\ pc' = "returned"
    BY <1>7 DEF OnShutdown, Return
  <2>2. hooks' \in [{"OnStart", "OnShutdown"} -> {"none", "ok", "error"}]
    BY <1>7 DEF OnShutdown
  <2> QED
    BY <1>7, <2>1, <2>2 DEF OnShutdown
<1>8. CASE ServeStart
  BY <1>8 DEF ServeStart
<1>9. CASE AcceptFails
  <2>1. serveErr' \in 0..1
    BY <1>9 DEF AcceptFails
  <2> QED
    BY <1>9, <2>1 DEF AcceptFails
<1>10. CASE Cancel \/ Expire
  <2>1. CASE Cancel
    BY <2>1 DEF Cancel
  <2>2. CASE Expire
    BY <2>2 DEF Expire
  <2> QED
    BY <1>10, <2>1, <2>2
<1>11. ASSUME NEW r \in Requests, Connect(r) \/ Accept(r) \/ Reset(r) \/ Answer(r)
      PROVE  TypeOK' /\ OneError'
  <2>1. request' \in [Requests -> {"new", "waiting", "running", "answered", "reset"}]
    BY <1>11 DEF Connect, Accept, Reset, Answer
  <2>2. UNCHANGED <<ctxDone, pc, serve, port, inShutdown, serveErr, deadline, errs, hooks, result>>
    BY <1>11 DEF Connect, Accept, Reset, Answer
  <2> QED
    BY <2>1, <2>2
<1>12. CASE UNCHANGED vars
  BY <1>12 DEF vars
<1> HIDE DEF ServerInv, TypeOK, OneError
<1> QED
  BY <1>1, <1>2, <1>3, <1>4, <1>5, <1>6, <1>7, <1>8, <1>9, <1>10, <1>11, <1>12
     DEF Next, Main, Elsewhere

LEMMA ServedNext == ServerInv /\ [Next]_vars => NothingServed'
<1> SUFFICES ASSUME ServerInv, [Next]_vars PROVE NothingServed'
  OBVIOUS
<1> USE DEF ServerInv, NothingServed, NoServer
<1>1. CASE Validate
  BY <1>1 DEF Validate, Return, Returns
<1>2. CASE OnStart
  <2>1. hooks'["OnShutdown"] = hooks["OnShutdown"]
    BY <1>2 DEF OnStart, TypeOK
  <2> QED
    BY <1>2, <2>1 DEF OnStart, Return, Returns
<1>3. CASE Listen
  BY <1>3 DEF Listen, Return, Returns
<1>4. CASE SelectServeErr
  BY <1>4 DEF SelectServeErr, Return
<1>5. CASE SelectCtxDone \/ ServeLeft \/ Drained \/ DrainExpired
  BY <1>5 DEF SelectCtxDone, ServeLeft, Drained, DrainExpired
<1>6. CASE Shutdown
  BY <1>6 DEF Shutdown
<1>7. CASE OnShutdown
  <2>1. hooks'["OnShutdown"] # "none"
    BY <1>7 DEF OnShutdown, TypeOK
  <2> QED
    BY <1>7, <2>1 DEF OnShutdown, Return
<1>8. CASE ServeStart \/ AcceptFails
  BY <1>8 DEF ServeStart, AcceptFails
<1>9. CASE Cancel \/ Expire
  BY <1>9 DEF Cancel, Expire
<1>10. ASSUME NEW r \in Requests, Connect(r) \/ Accept(r) \/ Reset(r) \/ Answer(r)
       PROVE  NothingServed'
  <2>1. port # "none"
    BY <1>10 DEF Connect, Accept, Reset, Answer
  <2>2. UNCHANGED <<pc, serve, port, hooks, result>>
    BY <1>10 DEF Connect, Accept, Reset, Answer
  <2> QED
    BY <2>1, <2>2
<1>11. CASE UNCHANGED vars
  BY <1>11 DEF vars
<1> HIDE DEF ServerInv, NothingServed, NoServer
<1> QED
  BY <1>1, <1>2, <1>3, <1>4, <1>5, <1>6, <1>7, <1>8, <1>9, <1>10, <1>11
     DEF Next, Main, Elsewhere

LEMMA StoppedNext == ServerInv /\ [Next]_vars => ServeStopped'
<1> SUFFICES ASSUME ServerInv, [Next]_vars PROVE ServeStopped'
  OBVIOUS
<1> USE DEF ServerInv, ServeStopped
<1>1. CASE Validate \/ Listen \/ SelectServeErr \/ SelectCtxDone
  BY <1>1 DEF Validate, Listen, SelectServeErr, SelectCtxDone, Return, Returns
<1>2. CASE OnStart
  <2>1. hooks'["OnShutdown"] = hooks["OnShutdown"]
    BY <1>2 DEF OnStart, TypeOK
  <2> QED
    BY <1>2, <2>1 DEF OnStart, Return, Returns
<1>3. CASE Shutdown \/ ServeLeft \/ Drained \/ DrainExpired
  BY <1>3 DEF Shutdown, ServeLeft, Drained, DrainExpired, Returns
<1>4. CASE OnShutdown
  BY <1>4 DEF OnShutdown, Return
<1>5. CASE ServeStart \/ AcceptFails
  BY <1>5 DEF ServeStart, AcceptFails
<1>6. CASE Cancel \/ Expire
  BY <1>6 DEF Cancel, Expire
<1>7. ASSUME NEW r \in Requests, Connect(r) \/ Accept(r) \/ Reset(r) \/ Answer(r)
      PROVE  UNCHANGED <<pc, serve, inShutdown, hooks>>
  BY <1>7 DEF Connect, Accept, Reset, Answer
<1>8. CASE UNCHANGED <<pc, serve, inShutdown, hooks>>
  BY <1>8
<1> HIDE DEF ServerInv, ServeStopped
<1> QED
  BY <1>1, <1>2, <1>3, <1>4, <1>5, <1>6, <1>7, <1>8 DEF Next, Main, Elsewhere, vars

LEMMA ReturnsNext == ServerInv /\ [Next]_vars => Returns'
<1> SUFFICES ASSUME ServerInv, [Next]_vars PROVE Returns'
  OBVIOUS
<1> USE DEF ServerInv, Returns
<1>1. CASE Validate \/ Listen \/ SelectServeErr
  BY <1>1 DEF Validate, Listen, SelectServeErr, Return
<1>2. CASE OnStart
  <2>1. hooks'["OnShutdown"] = hooks["OnShutdown"]
    BY <1>2 DEF OnStart, TypeOK
  <2>2. pc' = "returned" => result' = {"onStart"} /\ hooks'["OnStart"] = "error"
    BY <1>2 DEF OnStart, Return, TypeOK
  <2> QED
    BY <1>2, <2>1, <2>2 DEF OnStart, Return
<1>3. CASE SelectCtxDone \/ Shutdown \/ ServeLeft \/ Drained \/ DrainExpired
  BY <1>3 DEF SelectCtxDone, Shutdown, ServeLeft, Drained, DrainExpired
<1>4. CASE OnShutdown
  <2>1. /\ pc' = "returned" /\ result' = errs'
        /\ hooks'["OnShutdown"] # "none"
        /\ hooks'["OnShutdown"] = "error" => "onShutdown" \in errs'
    BY <1>4 DEF OnShutdown, Return, TypeOK
  <2> QED
    BY <2>1
<1>5. ASSUME NEW r \in Requests, Connect(r) \/ Accept(r) \/ Reset(r) \/ Answer(r)
      PROVE  UNCHANGED <<pc, hooks, result, errs>>
  BY <1>5 DEF Connect, Accept, Reset, Answer
<1>6. ASSUME ServeStart \/ AcceptFails \/ Cancel \/ Expire
      PROVE  UNCHANGED <<pc, hooks, result, errs>>
  BY <1>6 DEF ServeStart, AcceptFails, Cancel, Expire
<1>7. CASE UNCHANGED <<pc, hooks, result, errs>>
  BY <1>7
<1> HIDE DEF ServerInv, Returns
<1> QED
  BY <1>1, <1>2, <1>3, <1>4, <1>5, <1>6, <1>7 DEF Next, Main, Elsewhere, vars

LEMMA DrainNext == ServerInv /\ [Next]_vars => OnShutdownAfterDrain'
<1> SUFFICES ASSUME ServerInv, [Next]_vars PROVE OnShutdownAfterDrain'
  OBVIOUS
<1> USE DEF ServerInv, OnShutdownAfterDrain
<1>1. CASE Validate \/ Listen \/ SelectServeErr \/ SelectCtxDone \/ Shutdown \/ ServeLeft
  BY <1>1 DEF Validate, Listen, SelectServeErr, SelectCtxDone, Shutdown, ServeLeft, Return, Returns
<1>2. CASE OnStart
  <2>1. hooks'["OnShutdown"] = hooks["OnShutdown"]
    BY <1>2 DEF OnStart, TypeOK
  <2> QED
    BY <1>2, <2>1 DEF OnStart, Return, Returns
<1>3. CASE Drained \/ DrainExpired
  BY <1>3 DEF Drained, DrainExpired
<1>4. CASE OnShutdown
  <2>1. pc = "onShutdown" /\ errs \subseteq errs' /\ request' = request
    BY <1>4 DEF OnShutdown
  <2> QED
    BY <2>1
<1>5. ASSUME NEW r \in Requests, Connect(r) \/ Accept(r) \/ Reset(r) \/ Answer(r)
      PROVE  OnShutdownAfterDrain'
  <2>1. UNCHANGED <<pc, hooks, errs>>
    BY <1>5 DEF Connect, Accept, Reset, Answer
  <2>2. CASE Accept(r)
    BY <2>1, <2>2 DEF Accept, ServeStopped
  <2>3. CASE ~Accept(r)
    <3>1. \A q \in Requests : request'[q] = "running" => request[q] = "running"
      BY <1>5, <2>3 DEF Connect, Reset, Answer, TypeOK
    <3> QED
      BY <2>1, <3>1
  <2> QED
    BY <2>2, <2>3
<1>6. ASSUME ServeStart \/ AcceptFails \/ Cancel \/ Expire
      PROVE  UNCHANGED <<pc, hooks, request, errs>>
  BY <1>6 DEF ServeStart, AcceptFails, Cancel, Expire
<1>7. CASE UNCHANGED <<pc, hooks, request, errs>>
  BY <1>7
<1> HIDE DEF ServerInv, OnShutdownAfterDrain
<1> QED
  BY <1>1, <1>2, <1>3, <1>4, <1>5, <1>6, <1>7 DEF Next, Main, Elsewhere, vars

LEMMA ServerNext == ServerInv /\ [Next]_vars => ServerInv'
BY ServerTyping, ServedNext, StoppedNext, ReturnsNext, DrainNext DEF ServerInv

THEOREM ServerInvariant == Spec => []ServerInv
BY ServerInit, ServerNext, PTL DEF Spec

\* What the two properties of the server need of the invariant.
LEMMA ServerInvImplies == ServerInv => TypeOK /\ NilMeansGraceful /\ OnShutdownAfterDrain
<1> SUFFICES ASSUME ServerInv, pc = "returned", result = {}
             PROVE  /\ \A r \in Requests : request[r] # "running"
                    /\ serve # "accepting"
                    /\ hooks["OnShutdown"] = "ok"
  BY DEF ServerInv, NilMeansGraceful
<1>1. hooks["OnShutdown"] # "none"
  BY DEF ServerInv, Returns
<1>2. errs = {} /\ hooks["OnShutdown"] = "ok"
  BY <1>1 DEF ServerInv, Returns, TypeOK
<1> QED
  BY <1>1, <1>2 DEF ServerInv, ServeStopped, OnShutdownAfterDrain

\* NilMeansGraceful: when RunContext returns nil no handler runs, nothing will be accepted
\* any more, and OnShutdown has succeeded.
THEOREM NilResultIsGraceful == Spec => []NilMeansGraceful
BY ServerInvariant, ServerInvImplies, PTL

\* OnShutdownAfterDrain: OnShutdown meets a running handler only after a timeout of the
\* drain, which the error reports.
THEOREM OnShutdownFollowsDrain == Spec => []OnShutdownAfterDrain
BY ServerInvariant, ServerInvImplies, PTL
-----------------------------------------------------------------------------
(* The service is a server.                                                *)

LEMMA ExitStepOfServer == ExitNext => [Next]_vars
<1>1. ASSUME Run PROVE [Next]_vars
  BY <1>1 DEF Run, CloseBegin, Next
<1>2. ASSUME Alone(Elsewhere) PROVE [Next]_vars
  BY <1>2 DEF Alone, Next
<1>3. ASSUME Flusher \/ \E r \in Requests : LogEntry(r) PROVE UNCHANGED vars
  BY <1>3 DEF Flusher, LogEntry
<1> QED
  BY <1>1, <1>2, <1>3 DEF ExitNext

\* The service with its logger is a server of ZenServer: the logger adds steps of its
\* own and restricts what OnShutdown answers, and changes nothing else.
THEOREM GracefulExitImplementsServer == ExitSpec => Spec
<1>1. ExitInit => Init
  BY DEF ExitInit
<1>2. [ExitNext]_exitVars => [Next]_vars
  BY ExitStepOfServer DEF exitVars
<1> QED
  BY <1>1, <1>2, PTL DEF ExitSpec, Spec
-----------------------------------------------------------------------------
(* Server and logger together.                                             *)

\* Only handlers log, and a handler has answered or is running.
LogTyping ==
    /\ accepted \in Seq(Requests) /\ flushed \in Seq(Requests)
    /\ phase \in {"open", "closing", "done"}
    /\ logged \in [Requests -> {"none", "queued", "dropped", "ErrClosed"}]
    /\ \A r \in Requests : logged[r] # "none" => request[r] \in {"running", "answered"}

\* Without a listener there is no request, and without requests nothing in the log.
NothingLogged == port = "none" => accepted = << >> /\ flushed = << >>

\* The log is shut by OnShutdown alone; when OnShutdown has returned the log is shut, and
\* done if there was no error.
ClosedByHook ==
    /\ phase # "open" => pc = "onShutdown" \/ hooks["OnShutdown"] # "none"
    /\ hooks["OnShutdown"] # "none" => phase # "open"
    /\ hooks["OnShutdown"] = "ok" => phase = "done"

\* The flusher ends with nothing left, and then nothing more is accepted.
DoneIsDrained == phase = "done" => flushed = accepted

ExitInv ==
    ServerInv /\ LogTyping /\ NothingLogged /\ ClosedByHook /\ DoneIsDrained
    /\ RefusedOnlyAfterTimeout

LEMMA ExitInitInv == ExitInit => ExitInv
<1> SUFFICES ASSUME ExitInit PROVE ExitInv
  OBVIOUS
<1>1. ServerInv
  BY ServerInit DEF ExitInit
<1>2. /\ accepted = << >> /\ flushed = << >> /\ phase = "open"
      /\ logged = [r \in Requests |-> "none"]
  BY DEF ExitInit, Log!Init
<1>3. << >> \in Seq(Requests)
  OBVIOUS
<1>4. LogTyping
  BY <1>2, <1>3 DEF LogTyping
<1>5. hooks["OnShutdown"] = "none" /\ \A r \in Requests : logged[r] = "none"
  BY <1>2 DEF ExitInit, Init
<1> QED
  BY <1>1, <1>2, <1>4, <1>5 DEF ExitInv, NothingLogged, ClosedByHook, DoneIsDrained,
                               RefusedOnlyAfterTimeout

LEMMA ExitNextInv == ExitInv /\ [ExitNext]_exitVars => ExitInv'
<1> SUFFICES ASSUME ExitInv, [ExitNext]_exitVars PROVE ExitInv'
  OBVIOUS
<1>1. ServerInv'
  BY ServerNext, ExitStepOfServer DEF ExitInv, exitVars
<1>2. CASE CloseBegin
  <2>1. UNCHANGED <<accepted, flushed, request, port, pc, hooks, errs, logged>>
    BY <1>2 DEF CloseBegin, Log!Shut, vars
  <2>2. phase' = "closing" /\ pc = "onShutdown" /\ hooks["OnShutdown"] = "none"
    BY <1>2 DEF CloseBegin, Log!Shut, ExitInv, ServerInv, Returns
  <2> QED
    BY <1>1, <2>1, <2>2 DEF ExitInv, LogTyping, NothingLogged, ClosedByHook, DoneIsDrained,
                           RefusedOnlyAfterTimeout
<1>3. ASSUME UNCHANGED logVars,
             \A r \in Requests : request[r] \in {"running", "answered"} =>
                                   request'[r] \in {"running", "answered"},
             port' = "none" => port = "none",
             errs \subseteq errs',
             ClosedByHook'
      PROVE  ExitInv'
  BY <1>1, <1>3 DEF ExitInv, logVars, LogTyping, NothingLogged, DoneIsDrained,
                  RefusedOnlyAfterTimeout
<1>4. ASSUME Main, pc = "onShutdown" => CloseResult, UNCHANGED logVars
      PROVE  ExitInv'
  <2>1. request' = request /\ (port' = "none" => port = "none")
    BY <1>4 DEF Main, Validate, OnStart, Listen, SelectServeErr, SelectCtxDone, Shutdown,
                ServeLeft, Drained, DrainExpired, OnShutdown
  <2>2. errs \subseteq errs'
    BY <1>4 DEF Main, Validate, OnStart, Listen, SelectServeErr, SelectCtxDone, Shutdown,
                ServeLeft, Drained, DrainExpired, OnShutdown
  <2>3. CASE pc = "onShutdown"
    <3>1. OnShutdown
      BY <1>4, <2>3 DEF Main, Validate, OnStart, Listen, SelectServeErr, SelectCtxDone,
                        Shutdown, ServeLeft, Drained, DrainExpired
    <3>2. hooks'["OnShutdown"] \in {"ok", "error"}
      BY <3>1 DEF OnShutdown, ExitInv, ServerInv, TypeOK
    <3>3. ClosedByHook'
      BY <1>4, <2>3, <3>2 DEF CloseResult, ClosedByHook, logVars
    <3> QED
      BY <1>3, <1>4, <2>1, <2>2, <3>3
  <2>4. CASE pc # "onShutdown"
    <3>1. hooks'["OnShutdown"] = hooks["OnShutdown"]
      BY <1>4, <2>4 DEF Main, Validate, OnStart, Listen, SelectServeErr, SelectCtxDone,
                        Shutdown, ServeLeft, Drained, DrainExpired, OnShutdown,
                        ExitInv, ServerInv, TypeOK
    <3>2. ClosedByHook'
      BY <1>4, <2>4, <3>1 DEF ExitInv, ClosedByHook, logVars
    <3> QED
      BY <1>3, <1>4, <2>1, <2>2, <3>2
  <2> QED
    BY <2>3, <2>4
<1>5. CASE Alone(Elsewhere)
  <2>1. UNCHANGED logVars /\ Elsewhere
    BY <1>5 DEF Alone
  <2>2. CASE ServeStart \/ AcceptFails \/ Cancel \/ Expire
    <3>1. UNCHANGED <<pc, hooks, errs, request>> /\ (port' = "none" => port = "none")
      BY <2>2 DEF ServeStart, AcceptFails, Cancel, Expire
    <3>2. ClosedByHook'
      BY <2>1, <3>1 DEF ExitInv, ClosedByHook, logVars
    <3> QED
      BY <1>3, <2>1, <3>1, <3>2
  <2>3. ASSUME NEW r \in Requests, Connect(r) \/ Accept(r) \/ Reset(r) \/ Answer(r)
        PROVE  ExitInv'
    <3>1. UNCHANGED <<pc, hooks, errs, port>>
      BY <2>3 DEF Connect, Accept, Reset, Answer
    <3>2. \A q \in Requests : request[q] \in {"running", "answered"} =>
                              request'[q] \in {"running", "answered"}
      BY <2>3 DEF Connect, Accept, Reset, Answer, ExitInv, ServerInv, TypeOK
    <3>3. ClosedByHook'
      BY <2>1, <3>1 DEF ExitInv, ClosedByHook, logVars
    <3> QED
      BY <1>3, <2>1, <3>1, <3>2, <3>3
  <2> QED
    BY <2>1, <2>2, <2>3 DEF Elsewhere
<1>6. CASE Flusher
  <2>1. UNCHANGED <<vars, logged, accepted>> /\ accepted \in Seq(Requests)
    BY <1>6 DEF Flusher, Log!Finish, Log!Deliver, ExitInv, LogTyping
  <2>2. CASE Log!Finish
    BY <1>1, <2>1, <2>2 DEF Log!Finish, vars, ExitInv, LogTyping, NothingLogged, ClosedByHook,
                            DoneIsDrained, RefusedOnlyAfterTimeout
  <2>3. ASSUME NEW n \in 1..BatchSize, Log!Deliver(n) PROVE ExitInv'
    <3>1. n \in Nat \ {0} /\ Len(flushed) \in Nat /\ Len(flushed) + n <= Len(accepted)
      BY <2>3, SizeAssumption DEF Log!Deliver, ExitInv, LogTyping
    <3>2. flushed' \in Seq(Requests)
      BY <2>1, <2>3, <3>1 DEF Log!Deliver
    <3>3. phase' = phase /\ flushed # accepted
      BY <2>1, <2>3, <3>1 DEF Log!Deliver
    <3>4. port # "none"
      BY <3>1 DEF ExitInv, NothingLogged
    <3> QED
      BY <1>1, <2>1, <3>2, <3>3, <3>4 DEF vars, ExitInv, LogTyping, NothingLogged, ClosedByHook,
                                         DoneIsDrained, RefusedOnlyAfterTimeout
  <2> QED
    BY <1>6, <2>2, <2>3 DEF Flusher
<1>7. ASSUME NEW r \in Requests, LogEntry(r) PROVE ExitInv'
  <2>1. request[r] = "running" /\ UNCHANGED <<pc, serve, port, request, errs, hooks, flushed, phase>>
    BY <1>7 DEF LogEntry, Log!Accept, Log!Drop, Log!Refuse, vars
  <2>2. port # "none"
    BY <2>1 DEF ExitInv, ServerInv, NothingServed
  <2>3. accepted' \in Seq(Requests) /\ (accepted' = accepted \/ phase = "open")
    BY <1>7 DEF LogEntry, Log!Accept, Log!Drop, Log!Refuse, ExitInv, LogTyping
  <2>4. /\ logged' \in [Requests -> {"none", "queued", "dropped", "ErrClosed"}]
        /\ \A q \in Requests \ {r} : logged'[q] = logged[q]
        /\ logged'[r] = "ErrClosed" => phase # "open"
    BY <1>7 DEF LogEntry, Log!Accept, Log!Drop, Log!Refuse, Log!Answer, ExitInv, LogTyping
  <2>5. phase # "open" => "http" \in errs
    BY <2>1 DEF ExitInv, ClosedByHook, ServerInv, OnShutdownAfterDrain
  <2> QED
    BY <1>1, <2>1, <2>2, <2>3, <2>4, <2>5 DEF ExitInv, LogTyping, NothingLogged, ClosedByHook,
                                             DoneIsDrained, RefusedOnlyAfterTimeout
<1>8. CASE UNCHANGED exitVars
  BY <1>1, <1>8 DEF exitVars, logVars, vars, ExitInv, LogTyping, NothingLogged, ClosedByHook,
                    DoneIsDrained, RefusedOnlyAfterTimeout
<1> QED
  BY <1>2, <1>4, <1>5, <1>6, <1>7, <1>8 DEF ExitNext, Run

\* The inductive invariant of the service.
THEOREM ExitInvariant == ExitSpec => []ExitInv
BY ExitInitInv, ExitNextInv, PTL DEF ExitSpec

\* The state of server and logger is well typed, in every execution.
THEOREM ExitTypeCorrect == ExitSpec => []ExitTypeOK
<1>1. ExitInv => ExitTypeOK
  BY DEF ExitInv, ServerInv, LogTyping, ExitTypeOK
<1> QED
  BY <1>1, ExitInvariant, PTL

\* RefusedOnlyAfterTimeout: a handler is told that the log is closed only after the drain
\* has given up, and then RunContext reports that.
THEOREM RefusalIsReported == ExitSpec => []RefusedOnlyAfterTimeout
<1>1. ExitInv => RefusedOnlyAfterTimeout
  BY DEF ExitInv
<1> QED
  BY <1>1, ExitInvariant, PTL

\* LossIsReported: RunContext returns with an accepted entry not handed to the store only
\* when its error names Serve or OnShutdown.
THEOREM LossIsAlwaysReported == ExitSpec => []LossIsReported
<1>1. ExitInv => LossIsReported
  <2> SUFFICES ASSUME ExitInv, pc = "returned", flushed # accepted
               PROVE  result \cap {"serve", "onShutdown"} # {}
    BY DEF LossIsReported
  <2>1. port # "none"
    BY DEF ExitInv, NothingLogged
  <2>2. CASE hooks["OnShutdown"] = "none"
    BY <2>1, <2>2 DEF ExitInv, ServerInv, NothingServed, NoServer
  <2>3. CASE hooks["OnShutdown"] # "none"
    <3>1. hooks["OnShutdown"] = "error"
      BY <2>3 DEF ExitInv, ClosedByHook, DoneIsDrained, ServerInv, TypeOK
    <3> QED
      BY <2>3, <3>1 DEF ExitInv, ServerInv, Returns
  <2> QED
    BY <2>2, <2>3
<1> QED
  BY <1>1, ExitInvariant, PTL

\* LeftOpenOnlyByFailure: the log opened by OnStart stays open only when listening fails,
\* with no entry in it, or when Serve fails.
THEOREM LeftOpenOnlyAfterFailure == ExitSpec => []LeftOpenOnlyByFailure
<1>1. ExitInv => LeftOpenOnlyByFailure
  <2> SUFFICES ASSUME ExitInv, pc = "returned", hooks["OnStart"] = "ok", phase = "open"
               PROVE  /\ result \in {{"listen"}, {"serve"}}
                      /\ result = {"listen"} => accepted = << >>
    BY DEF LeftOpenOnlyByFailure
  <2>1. hooks["OnShutdown"] = "none"
    BY DEF ExitInv, ClosedByHook
  <2>2. result \in {{"listen"}, {"serve"}}
    BY <2>1 DEF ExitInv, ServerInv, Returns
  <2>3. ASSUME result = {"listen"} PROVE accepted = << >>
    BY <2>1, <2>3 DEF ExitInv, ServerInv, NothingServed, NoServer, NothingLogged
  <2> QED
    BY <2>2, <2>3
<1> QED
  BY <1>1, ExitInvariant, PTL
=============================================================================
