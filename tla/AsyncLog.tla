------------------------------ MODULE AsyncLog ------------------------------
(***************************************************************************)
(* What zenalog promises of its asynchronous write path, with no queue,    *)
(* lock, batch or goroutine in sight.  Entries are accepted one at a time  *)
(* while the log is open, and are handed to the store in the order of      *)
(* their acceptance, each exactly once, in chunks of at most BatchSize.    *)
(* An entry is dropped only when a queue's worth of others is waiting, and *)
(* refused only when the log is no longer open.  Close shuts the intake;   *)
(* the log is done only when every accepted entry has been handed over.    *)
(* ZenLogger implements this specification, and GracefulExit builds on it. *)
(***************************************************************************)
EXTENDS Naturals, Sequences

CONSTANTS
    Callers,    \* those who log
    Entries,    \* the log entries there can be
    QueueSize,  \* Config.QueueSize
    BatchSize   \* Config.BatchSize: entries in one bulk request

VARIABLES
    accepted,   \* every entry accepted so far, in order
    flushed,    \* the entries handed to the store so far, in order
    phase,      \* "open", "closing" (Close was called), "done" (flusher gone)
    answer      \* what became of the entry of each caller's last call: "none" as
                \* long as it is not decided, "queued", "dropped" or "ErrClosed"

vars == <<accepted, flushed, phase, answer>>

Init ==
    /\ accepted = << >>
    /\ flushed = << >>
    /\ phase = "open"
    /\ answer = [c \in Callers |-> "none"]

\* The next call of c.
Call(c) ==
    /\ answer' = [answer EXCEPT ![c] = "none"]
    /\ UNCHANGED <<accepted, flushed, phase>>

Answer(c, a) ==
    /\ answer[c] = "none"
    /\ answer' = [answer EXCEPT ![c] = a]

\* An entry is new, and finds the log open and less than a queue and a batch waiting.
Accept(c, e) ==
    /\ phase = "open"
    /\ \A i \in 1..Len(accepted) : accepted[i] # e
    /\ Len(accepted) < Len(flushed) + QueueSize + BatchSize
    /\ accepted' = Append(accepted, e)
    /\ Answer(c, "queued")
    /\ UNCHANGED <<flushed, phase>>

\* The log is open, and the queue is full.
Drop(c) ==
    /\ phase = "open" /\ Len(accepted) >= Len(flushed) + QueueSize
    /\ Answer(c, "dropped")
    /\ UNCHANGED <<accepted, flushed, phase>>

Refuse(c) ==
    /\ phase # "open"
    /\ Answer(c, "ErrClosed")
    /\ UNCHANGED <<accepted, flushed, phase>>

\* The next n entries leave, oldest first.
Deliver(n) ==
    /\ Len(flushed) + n <= Len(accepted)
    /\ flushed' = SubSeq(accepted, 1, Len(flushed) + n)
    /\ UNCHANGED <<accepted, phase, answer>>

Shut ==
    /\ phase = "open"
    /\ phase' = "closing"
    /\ UNCHANGED <<accepted, flushed, answer>>

Finish ==
    /\ phase = "closing"
    /\ flushed = accepted
    /\ phase' = "done"
    /\ UNCHANGED <<accepted, flushed, answer>>

Next ==
    \/ \E c \in Callers :
         Call(c) \/ (\E e \in Entries : Accept(c, e)) \/ Drop(c) \/ Refuse(c)
    \/ \E n \in 1..BatchSize : Deliver(n)
    \/ Shut
    \/ Finish

Spec == Init /\ [][Next]_vars
=============================================================================
