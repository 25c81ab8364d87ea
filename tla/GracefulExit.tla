---------------------------- MODULE GracefulExit ----------------------------
(***************************************************************************)
(* A service that keeps an activity log: the server of ZenServer with the  *)
(* logger opened in OnStart (zenalog.New) and closed in OnShutdown         *)
(* (Logger.Close), as logger.go says it is to be used, and handlers that   *)
(* log while they run.  The logger is the one AsyncLog promises.           *)
(*                                                                         *)
(* Close gets the context of shutdown, of which the drain has used up a    *)
(* part, perhaps all.  The store may be slow or hang for ever.             *)
(***************************************************************************)
EXTENDS ZenServer, Sequences

CONSTANTS
    QueueSize,  \* Config.QueueSize
    BatchSize   \* Config.BatchSize

ASSUME SizeAssumption == QueueSize \in Nat \ {0} /\ BatchSize \in Nat \ {0}

VARIABLES
    accepted, flushed, phase,   \* the logger: the variables of AsyncLog
    logged      \* what became of the entry of each request

logVars == <<accepted, flushed, phase, logged>>
exitVars == <<vars, logVars>>

\* The handler of a request logs once; requests name their entries.
Log == INSTANCE AsyncLog WITH Callers <- Requests, Entries <- Requests, answer <- logged

ExitTypeOK ==
    /\ TypeOK
    /\ accepted \in Seq(Requests) /\ flushed \in Seq(Requests)
    /\ phase \in {"open", "closing", "done"}
    /\ logged \in [Requests -> {"none", "queued", "dropped", "ErrClosed"}]
    /\ \A r \in Requests : logged[r] # "none" => request[r] \in {"running", "answered"}

ExitInit == Init /\ Log!Init
-----------------------------------------------------------------------------
(* The hook OnShutdown is Logger.Close.                                    *)

\* It shuts the log, then waits for the flusher or for the context of shutdown.
\* With both at hand it returns either way.
CloseBegin ==
    /\ pc = "onShutdown" /\ Log!Shut
    /\ UNCHANGED vars

\* Altered: Close does not wait for the flusher.
CloseResultEarly ==
    /\ phase # "open"
    /\ hooks'["OnShutdown"] = "error" => deadline = "expired"

\* Altered: Close waits for the flusher whatever its context says.
CloseResultUnlimited ==
    phase = "done" /\ hooks'["OnShutdown"] = "ok"

\* What the hook may answer.
CloseResult ==
    /\ phase # "open"
    /\ hooks'["OnShutdown"] = "ok" => phase = "done"
    /\ hooks'["OnShutdown"] = "error" => deadline = "expired"

\* The goroutine of RunContext: a step of the server; leaving OnShutdown, it has
\* the result of Close.
Run ==
    \/ CloseBegin
    \/ /\ Main
       /\ pc = "onShutdown" => CloseResult
       /\ UNCHANGED logVars
-----------------------------------------------------------------------------
(* Handlers, the flusher, and the rest of the server.                      *)

\* The handler of r logs: its entry is queued; or dropped, the queue being full;
\* or refused with ErrClosed.
LogEntry(r) ==
    /\ request[r] = "running"
    /\ Log!Accept(r, r) \/ Log!Drop(r) \/ Log!Refuse(r)
    /\ UNCHANGED vars

\* The flusher hands the next entries to the store, or finds nothing left and ends.
Flusher ==
    /\ Log!Finish \/ \E n \in 1..BatchSize : Log!Deliver(n)
    /\ UNCHANGED vars

\* A step of the server that is none of the logger.
Alone(A) == A /\ UNCHANGED logVars

ExitNext == Run \/ Alone(Elsewhere) \/ Flusher \/ \E r \in Requests : LogEntry(r)

ExitSpec == ExitInit /\ [][ExitNext]_exitVars

(***************************************************************************)
(* The goroutines are scheduled and the timer of shutdown fires.  Handlers *)
(* need not return, and the store need not answer: the flusher may be kept *)
(* from its next step for ever.                                            *)
(***************************************************************************)
ExitFairSpec ==
    /\ ExitSpec
    /\ WF_exitVars(Run)
    /\ WF_exitVars(Alone(ServeStart)) /\ WF_exitVars(Alone(AcceptEnds))
    /\ WF_exitVars(Alone(Expire))
-----------------------------------------------------------------------------
(* Safety.                                                                 *)

\* When RunContext returns, every accepted entry has been handed to the store, or
\* the error names the step that failed: Serve, after which nothing is closed, or
\* Close, which the deadline cut short.  A drain that timed out loses no entry.
LossIsReported ==
    pc = "returned" /\ flushed # accepted => result \cap {"serve", "onShutdown"} # {}

\* The logger that OnStart has opened is left open by a failure of listening or of
\* Serve, and by nothing that happens after the context has ended.
LeftOpenOnlyByFailure ==
    pc = "returned" /\ hooks["OnStart"] = "ok" /\ phase = "open" =>
        /\ result \in {{"listen"}, {"serve"}}
        /\ result = {"listen"} => accepted = << >>

\* A handler is told ErrClosed only when the drain has given up on it, and then
\* RunContext reports the timeout of the drain.
RefusedOnlyAfterTimeout ==
    (\E r \in Requests : logged[r] = "ErrClosed") => "http" \in errs
=============================================================================
