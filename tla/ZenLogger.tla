----------------------------- MODULE ZenLogger ------------------------------
(***************************************************************************)
(* The write side of zenalog.Logger (zenalog/logger.go): callers of Info   *)
(* and InfoFinish, the flusher goroutine started by newLogger, and callers *)
(* of Close.  They share the channel l.ch, the flag l.closed, the RWMutex  *)
(* l.mu and the channel l.done.                                            *)
(*                                                                         *)
(* store.Bulk appears here only by its begin and its return: the flusher   *)
(* throws the batch away whatever Bulk returns, and a Sync() call passes   *)
(* the result on.  What Bulk does between the two is module EsBulk.        *)
(***************************************************************************)
EXTENDS Naturals, Sequences, FiniteSets

CONSTANTS
    Callers,    \* goroutines that call Info or InfoFinish
    Closers,    \* goroutines that call Close, once each
    QueueSize,  \* Config.QueueSize: capacity of l.ch
    BatchSize,  \* Config.BatchSize: entries in one bulk request
    MaxCalls,   \* bound: calls each caller makes
    NoOne       \* stands for "no goroutine" where l.mu has no writer

ASSUME SizeAssumption ==
    /\ QueueSize \in Nat \ {0}     \* withDefaults replaces 0 by the default
    /\ BatchSize \in Nat \ {0}
    /\ MaxCalls \in Nat
    /\ NoOne \notin Closers

VARIABLES
    closed,     \* l.closed
    chClosed,   \* close(l.ch) has been executed
    queue,      \* the buffer of l.ch
    readers,    \* goroutines holding l.mu for reading
    writer,     \* the goroutine holding or waiting for l.mu for writing
    pc,         \* where each caller is inside log()
    calls,      \* number of calls each caller has begun
    late,       \* history: l.closed was set when the caller's call began
    res,        \* result of the caller's last call
    fpc,        \* where the flusher is inside run()
    batch,      \* the flusher's batch
    dropped,    \* l.dropped
    cpc,        \* where each closer is inside Close()
    cres,       \* what each Close() returned
    accepted,   \* history: entries sent to l.ch, in order
    flushed,    \* history: entries passed to a Bulk that has returned, in order
    panicked    \* history: a send on, or a close of, a closed channel

callerVars == <<pc, calls, late, res>>
muVars     == <<readers, writer>>
flushVars  == <<fpc, batch, flushed>>
closerVars == <<cpc, cres>>
vars == <<closed, chClosed, queue, muVars, callerVars, flushVars, dropped,
          closerVars, accepted, panicked>>

\* The n-th call of p makes the entry <<p, n>>.
Entries == Callers \X (1..MaxCalls)
Current(p) == <<p, calls[p]>>

CallerPC == {"idle", "lock", "check", "send", "lockSync", "checkSync", "bulk"}
\* What a call does with its entry; "queued" and "dropped" are both nil to the caller.
Results  == {"none", "queued", "dropped", "nil", "attrError", "ErrClosed", "storeError"}
FlushPC  == {"select", "bulk", "lastBulk", "exit", "done"}
CloserPC == {"idle", "drain", "closeCh", "unlock", "wait", "returned"}

TypeOK ==
    /\ closed \in BOOLEAN /\ chClosed \in BOOLEAN /\ panicked \in BOOLEAN
    /\ queue \in Seq(Entries)
    /\ readers \in SUBSET Callers
    /\ writer \in Closers \cup {NoOne}
    /\ pc \in [Callers -> CallerPC]
    /\ calls \in [Callers -> 0..MaxCalls]
    /\ late \in [Callers -> BOOLEAN]
    /\ res \in [Callers -> Results]
    /\ fpc \in FlushPC
    /\ batch \in Seq(Entries)
    /\ dropped \in Nat
    /\ cpc \in [Closers -> CloserPC]
    /\ cres \in [Closers -> {"none", "nil", "ctxError"}]
    /\ accepted \in Seq(Entries)
    /\ flushed \in Seq(Entries)

\* newLogger: an empty channel, the flusher about to enter its select.
Init ==
    /\ closed = FALSE /\ chClosed = FALSE /\ panicked = FALSE
    /\ queue = << >>
    /\ readers = {} /\ writer = NoOne
    /\ pc = [p \in Callers |-> "idle"]
    /\ calls = [p \in Callers |-> 0]
    /\ late = [p \in Callers |-> FALSE]
    /\ res = [p \in Callers |-> "none"]
    /\ fpc = "select" /\ batch = << >> /\ dropped = 0
    /\ cpc = [c \in Closers |-> "idle"]
    /\ cres = [c \in Closers |-> "none"]
    /\ accepted = << >> /\ flushed = << >>
-----------------------------------------------------------------------------
(* log(), the body of Info and InfoFinish.                                 *)

\* A new call: the entry is assembled and every attr key is registered.
\* s says whether the Sync() option was given.
Begin(p, s) ==
    /\ pc[p] = "idle" /\ calls[p] < MaxCalls
    /\ calls' = [calls EXCEPT ![p] = @ + 1]
    /\ late' = [late EXCEPT ![p] = closed]
    /\ res' = [res EXCEPT ![p] = "none"]
    /\ pc' = [pc EXCEPT ![p] = IF s THEN "lockSync" ELSE "lock"]
    /\ UNCHANGED <<closed, chClosed, queue, muVars, flushVars, dropped,
                   closerVars, accepted, panicked>>

\* A call with an attr key that AttrKeys does not list returns at once.
BadAttr(p) ==
    /\ pc[p] = "idle" /\ calls[p] < MaxCalls
    /\ calls' = [calls EXCEPT ![p] = @ + 1]
    /\ late' = [late EXCEPT ![p] = closed]
    /\ res' = [res EXCEPT ![p] = "attrError"]
    /\ UNCHANGED <<closed, chClosed, queue, muVars, pc, flushVars, dropped,
                   closerVars, accepted, panicked>>

\* l.mu.RLock(): a goroutine that holds or awaits the write lock bars readers.
RLock(p) ==
    /\ pc[p] \in {"lock", "lockSync"}
    /\ writer = NoOne
    /\ readers' = readers \cup {p}
    /\ pc' = [pc EXCEPT ![p] = IF @ = "lock" THEN "check" ELSE "checkSync"]
    /\ UNCHANGED <<closed, chClosed, queue, writer, calls, late, res,
                   flushVars, dropped, closerVars, accepted, panicked>>

\* The call ends with result r.
Return(p, r) ==
    /\ pc' = [pc EXCEPT ![p] = "idle"]
    /\ res' = [res EXCEPT ![p] = r]
    /\ UNCHANGED <<calls, late>>

\* Altered: the read lock is given up between the test of closed and the send.
CheckUnlocking(p) ==
    /\ pc[p] = "check"
    /\ readers' = readers \ {p}
    /\ \/ closed /\ Return(p, "ErrClosed")
       \/ ~closed /\ pc' = [pc EXCEPT ![p] = "send"] /\ UNCHANGED <<calls, late, res>>
    /\ UNCHANGED <<closed, chClosed, queue, writer, flushVars, dropped,
                   closerVars, accepted, panicked>>

\* if l.closed { return ErrClosed }: the read lock is kept for the send.
Check(p) ==
    /\ pc[p] = "check"
    /\ \/ closed /\ Return(p, "ErrClosed") /\ readers' = readers \ {p}
       \/ ~closed /\ pc' = [pc EXCEPT ![p] = "send"]
          /\ UNCHANGED <<calls, late, res, readers>>
    /\ UNCHANGED <<closed, chClosed, queue, writer, flushVars, dropped,
                   closerVars, accepted, panicked>>

\* Altered: no default branch, the send waits for room.
SendBlocking(p) ==
    /\ pc[p] = "send"
    /\ ~chClosed /\ Len(queue) < QueueSize
    /\ readers' = readers \ {p}
    /\ queue' = Append(queue, Current(p))
    /\ accepted' = Append(accepted, Current(p))
    /\ Return(p, "queued")
    /\ UNCHANGED <<closed, chClosed, writer, flushVars, closerVars, dropped, panicked>>

\* select { case l.ch <- e: default: drop }, then the deferred RUnlock.
Send(p) ==
    /\ pc[p] = "send"
    /\ readers' = readers \ {p}
    /\ \/ /\ chClosed
          /\ panicked' = TRUE
          /\ Return(p, "none")
          /\ UNCHANGED <<queue, accepted, dropped>>
       \/ /\ ~chClosed /\ Len(queue) < QueueSize
          /\ queue' = Append(queue, Current(p))
          /\ accepted' = Append(accepted, Current(p))
          /\ Return(p, "queued")
          /\ UNCHANGED <<dropped, panicked>>
       \/ /\ ~chClosed /\ Len(queue) >= QueueSize
          /\ dropped' = dropped + 1
          /\ Return(p, "dropped")
          /\ UNCHANGED <<queue, accepted, panicked>>
    /\ UNCHANGED <<closed, chClosed, writer, flushVars, closerVars>>

\* Altered: the Sync() path does not look at closed.
CheckSyncSkipped(p) ==
    /\ pc[p] = "checkSync"
    /\ readers' = readers \ {p}
    /\ pc' = [pc EXCEPT ![p] = "bulk"]
    /\ UNCHANGED <<closed, chClosed, queue, writer, calls, late, res, flushVars,
                   dropped, closerVars, accepted, panicked>>

\* Sync(): closed is read under the lock, the lock is released, and Bulk
\* runs without it.
CheckSync(p) ==
    /\ pc[p] = "checkSync"
    /\ readers' = readers \ {p}
    /\ \/ closed /\ Return(p, "ErrClosed")
       \/ ~closed /\ pc' = [pc EXCEPT ![p] = "bulk"] /\ UNCHANGED <<calls, late, res>>
    /\ UNCHANGED <<closed, chClosed, queue, writer, flushVars, dropped,
                   closerVars, accepted, panicked>>

\* Bulk returns to a Sync() caller, which passes the result on.
SyncReturn(p) ==
    /\ pc[p] = "bulk"
    /\ \E r \in {"nil", "storeError"} : Return(p, r)
    /\ UNCHANGED <<closed, chClosed, queue, muVars, flushVars, dropped,
                   closerVars, accepted, panicked>>
-----------------------------------------------------------------------------
(* run(), the flusher.                                                     *)

\* Altered: the size test lets the batch grow one past BatchSize.
ReceiveLate ==
    /\ fpc = "select" /\ queue # << >>
    /\ batch' = Append(batch, Head(queue))
    /\ queue' = Tail(queue)
    /\ fpc' = IF Len(batch') > BatchSize THEN "bulk" ELSE "select"
    /\ UNCHANGED <<closed, chClosed, muVars, callerVars, flushed, dropped,
                   closerVars, accepted, panicked>>

\* Altered: the received entry goes to the front of the batch.
ReceiveReversed ==
    /\ fpc = "select" /\ queue # << >>
    /\ batch' = <<Head(queue)>> \o batch
    /\ queue' = Tail(queue)
    /\ fpc' = IF Len(batch') >= BatchSize THEN "bulk" ELSE "select"
    /\ UNCHANGED <<closed, chClosed, muVars, callerVars, flushed, dropped,
                   closerVars, accepted, panicked>>

\* case e, ok := <-l.ch with ok: a full batch goes straight to Bulk.
Receive ==
    /\ fpc = "select" /\ queue # << >>
    /\ batch' = Append(batch, Head(queue))
    /\ queue' = Tail(queue)
    /\ fpc' = IF Len(batch') >= BatchSize THEN "bulk" ELSE "select"
    /\ UNCHANGED <<closed, chClosed, muVars, callerVars, flushed, dropped,
                   closerVars, accepted, panicked>>

\* Altered: the ticker fires but nobody flushes.
TickIgnored == FALSE /\ UNCHANGED vars

\* case <-ticker.C: flush() does nothing for an empty batch.
Tick ==
    /\ fpc = "select" /\ batch # << >>
    /\ fpc' = "bulk"
    /\ UNCHANGED <<closed, chClosed, queue, muVars, callerVars, batch, flushed,
                   dropped, closerVars, accepted, panicked>>

\* Altered: on close the flusher leaves without its last flush.
InputEndNoFlush ==
    /\ fpc = "select" /\ queue = << >> /\ chClosed
    /\ fpc' = "exit"
    /\ UNCHANGED <<closed, chClosed, queue, muVars, callerVars, batch, flushed,
                   dropped, closerVars, accepted, panicked>>

\* case e, ok := <-l.ch with !ok: the channel is closed and drained.
InputEnd ==
    /\ fpc = "select" /\ queue = << >> /\ chClosed
    /\ fpc' = IF batch = << >> THEN "exit" ELSE "lastBulk"
    /\ UNCHANGED <<closed, chClosed, queue, muVars, callerVars, batch, flushed,
                   dropped, closerVars, accepted, panicked>>

\* Altered: batch = batch[:0] is missing.
BulkReturnKeeping ==
    /\ fpc \in {"bulk", "lastBulk"}
    /\ flushed' = flushed \o batch
    /\ fpc' = IF fpc = "bulk" THEN "select" ELSE "exit"
    /\ UNCHANGED <<closed, chClosed, queue, muVars, callerVars, batch, dropped,
                   closerVars, accepted, panicked>>

\* store.Bulk returns, with or without an error: the batch is given up.
BulkReturn ==
    /\ fpc \in {"bulk", "lastBulk"}
    /\ flushed' = flushed \o batch
    /\ batch' = << >>
    /\ fpc' = IF fpc = "bulk" THEN "select" ELSE "exit"
    /\ UNCHANGED <<closed, chClosed, queue, muVars, callerVars, dropped,
                   closerVars, accepted, panicked>>

\* Altered: the flusher returns without close(l.done).
ExitSilently == FALSE /\ UNCHANGED vars

\* close(l.done); return
Exit ==
    /\ fpc = "exit"
    /\ fpc' = "done"
    /\ UNCHANGED <<closed, chClosed, queue, muVars, callerVars, batch, flushed,
                   dropped, closerVars, accepted, panicked>>
-----------------------------------------------------------------------------
(* Close(ctx).                                                             *)

\* l.mu.Lock() announces the writer ...
Lock(c) ==
    /\ cpc[c] = "idle" /\ writer = NoOne
    /\ writer' = c
    /\ cpc' = [cpc EXCEPT ![c] = "drain"]
    /\ UNCHANGED <<closed, chClosed, queue, readers, callerVars, flushVars,
                   dropped, cres, accepted, panicked>>

\* Altered: Close takes the lock without waiting for the readers.
SetClosedEarly(c) ==
    /\ cpc[c] = "drain"
    /\ closed' = TRUE
    /\ cpc' = [cpc EXCEPT ![c] = IF closed THEN "unlock" ELSE "closeCh"]
    /\ UNCHANGED <<chClosed, queue, muVars, callerVars, flushVars, dropped,
                   cres, accepted, panicked>>

\* Altered: Close is not idempotent.
SetClosedTwice(c) ==
    /\ cpc[c] = "drain" /\ readers = {}
    /\ closed' = TRUE
    /\ cpc' = [cpc EXCEPT ![c] = "closeCh"]
    /\ UNCHANGED <<chClosed, queue, muVars, callerVars, flushVars, dropped,
                   cres, accepted, panicked>>

\* ... and waits for the readers to leave; then if !l.closed { l.closed = true
SetClosed(c) ==
    /\ cpc[c] = "drain" /\ readers = {}
    /\ closed' = TRUE
    /\ cpc' = [cpc EXCEPT ![c] = IF closed THEN "unlock" ELSE "closeCh"]
    /\ UNCHANGED <<chClosed, queue, muVars, callerVars, flushVars, dropped,
                   cres, accepted, panicked>>

\* close(l.ch) }
CloseCh(c) ==
    /\ cpc[c] = "closeCh"
    /\ panicked' = (panicked \/ chClosed)
    /\ chClosed' = TRUE
    /\ cpc' = [cpc EXCEPT ![c] = "unlock"]
    /\ UNCHANGED <<closed, queue, muVars, callerVars, flushVars, dropped, cres,
                   accepted>>

\* l.mu.Unlock()
Unlock(c) ==
    /\ cpc[c] = "unlock"
    /\ writer' = NoOne
    /\ cpc' = [cpc EXCEPT ![c] = "wait"]
    /\ UNCHANGED <<closed, chClosed, queue, readers, callerVars, flushVars,
                   dropped, cres, accepted, panicked>>

CloseReturn(c, r) ==
    /\ cpc[c] = "wait"
    /\ cres' = [cres EXCEPT ![c] = r]
    /\ cpc' = [cpc EXCEPT ![c] = "returned"]
    /\ UNCHANGED <<closed, chClosed, queue, muVars, callerVars, flushVars,
                   dropped, accepted, panicked>>

\* Altered: Close reports success without waiting for the flusher.
CloseDoneEarly(c) == CloseReturn(c, "nil")

\* select { case <-l.done: return nil
CloseDone(c) == fpc = "done" /\ CloseReturn(c, "nil")

\* case <-ctx.Done(): return ctx.Err() }; a context may end at any time.
CloseExpired(c) == CloseReturn(c, "ctxError")
-----------------------------------------------------------------------------
Caller(p) == RLock(p) \/ Check(p) \/ Send(p) \/ CheckSync(p)
Flusher   == Receive \/ Tick \/ InputEnd \/ BulkReturn \/ Exit
Closer(c) == SetClosed(c) \/ CloseCh(c) \/ Unlock(c) \/ CloseDone(c)

Next ==
    \/ \E p \in Callers : \/ \E s \in BOOLEAN : Begin(p, s)
                          \/ BadAttr(p)
                          \/ Caller(p)
                          \/ SyncReturn(p)
    \/ Flusher
    \/ \E c \in Closers : Lock(c) \/ Closer(c) \/ CloseExpired(c)

Spec == Init /\ [][Next]_vars

(***************************************************************************)
(* Goroutines that are not waiting are eventually scheduled.  Lock itself  *)
(* is not fair: nobody is obliged to call Close.  Nor is BulkReturn: the   *)
(* store may hang for ever, here, and the properties that need its answer  *)
(* say so.  That Bulk does return is BulkTerminates of EsBulk.             *)
(***************************************************************************)
FairSpec ==
    /\ Spec
    /\ \A p \in Callers : WF_vars(Caller(p))
    /\ WF_vars(Receive \/ Tick \/ InputEnd \/ Exit)
    /\ \A c \in Closers : WF_vars(Closer(c))
-----------------------------------------------------------------------------
(* Safety.                                                                 *)

\* No goroutine sends on the closed channel or closes it twice, whatever the
\* order of log() and Close(): the reason log() tests closed and sends under
\* one read lock.
NoPanic == ~panicked

\* Every accepted entry is in exactly one place, and in order: handed to Bulk,
\* in the batch, or in the channel.  Nothing is lost, repeated or reordered
\* between Info and Bulk.
Conservation == accepted = flushed \o batch \o queue

\* Once the flusher has closed l.done, and so whenever a Close has returned
\* nil, every entry ever accepted has been handed to Bulk and none is accepted
\* any more.
CloseDrains ==
    /\ fpc = "done" => flushed = accepted
    /\ \A c \in Closers : cres[c] = "nil" => fpc = "done" /\ flushed = accepted

\* A call that began after Close had set closed reaches neither the queue nor
\* the store: it returns ErrClosed, unless its attrs were refused before.
LateCallsRefused ==
    \A p \in Callers : late[p] =>
        /\ pc[p] \notin {"send", "bulk"}
        /\ res[p] \in {"none", "ErrClosed", "attrError"}

\* What a crash of the process can lose: the accepted entries not yet handed
\* over never outnumber the channel and one batch.
BoundedLoss == Len(accepted) <= Len(flushed) + QueueSize + BatchSize

\* The promise of AsyncLog, under this mapping of phases and results: what a call does
\* past the queue, and that of an unknown attr, is none of its business.
phase == IF fpc = "done" THEN "done" ELSE IF closed THEN "closing" ELSE "open"
answer == [p \in Callers |-> IF res[p] \in {"queued", "dropped", "ErrClosed"} THEN res[p] ELSE "none"]
A == INSTANCE AsyncLog

\* The logger's steps are the promise's steps or stutter: entries leave in order,
\* each once and before the log is done; one is dropped only when the queue is full,
\* and ErrClosed is answered only after Close was called.
ImplementsAsyncLog == A!Spec
-----------------------------------------------------------------------------
(* Liveness.                                                               *)

\* Whatever batch the flusher hands to Bulk, Bulk returns.
StoreAnswers == []<>(fpc \notin {"bulk", "lastBulk"})

\* As long as the store answers, an accepted entry is handed to Bulk in the end,
\* with or without a Close and with or without further entries: the ticker sees
\* to a partial batch.
EveryEntryFlushed ==
    StoreAnswers =>
        \A e \in Entries : (\E i \in 1..Len(accepted) : accepted[i] = e)
                                ~> (\E i \in 1..Len(flushed) : flushed[i] = e)

\* As long as the store answers, a Close that has begun returns, even if its
\* context never ends.
CloseTerminates ==
    StoreAnswers => \A c \in Closers : (cpc[c] = "drain") ~> (cpc[c] = "returned")

\* An asynchronous call always returns, even while the store hangs and
\* the queue is full: logging does not hold up its caller.
AsyncNeverBlocks ==
    \A p \in Callers : (pc[p] \in {"lock", "check", "send"}) ~> (pc[p] = "idle")
=============================================================================
