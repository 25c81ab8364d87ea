-------------------------- MODULE ZenLogger_proofs --------------------------
(***************************************************************************)
(* Proofs about ZenLogger, for any callers, closers, queue and batch size. *)
(*                                                                         *)
(* The inductive invariant joins Typing, LockInv (who holds the lock),     *)
(* Conservation (where the accepted entries are), LateInv (calls after     *)
(* Close) and DrainInv (what the flusher knows of the channel's end).      *)
(***************************************************************************)
EXTENDS ZenLogger, SequenceTheorems, TLAPS

\* TypeOK, and a caller inside a call has made one and has no result of it yet.
Typing == TypeOK /\ \A p \in Callers : pc[p] # "idle" => calls[p] > 0 /\ res[p] = "none"

LEMMA CurrentIsEntry ==
    ASSUME Typing, NEW p \in Callers, pc[p] # "idle"
    PROVE  Current(p) \in Entries
BY SizeAssumption DEF Typing, TypeOK, Current, Entries

LEMMA TypingInit == Init => Typing
<1> SUFFICES ASSUME Init PROVE Typing
  OBVIOUS
<1>1. << >> \in Seq(Entries)
  OBVIOUS
<1>2. 0 \in 0..MaxCalls
  BY SizeAssumption
<1> QED
  BY <1>1, <1>2 DEF Init, Typing, TypeOK, CallerPC, Results, FlushPC, CloserPC

LEMMA TypingNext == Typing /\ [Next]_vars => Typing'
<1> SUFFICES ASSUME Typing, [Next]_vars PROVE Typing'
  OBVIOUS
<1> USE DEF Typing, TypeOK, CallerPC, Results, FlushPC, CloserPC
<1>1. ASSUME NEW p \in Callers, NEW s \in BOOLEAN, Begin(p, s) PROVE Typing'
  BY <1>1, SizeAssumption DEF Begin, flushVars, closerVars, muVars
<1>2. ASSUME NEW p \in Callers, BadAttr(p) PROVE Typing'
  BY <1>2, SizeAssumption DEF BadAttr, flushVars, closerVars, muVars
<1>3. ASSUME NEW p \in Callers, RLock(p) PROVE Typing'
  BY <1>3 DEF RLock, flushVars, closerVars
<1>4. ASSUME NEW p \in Callers, Check(p) PROVE Typing'
  <2>1. CASE Return(p, "ErrClosed")
    BY <1>4, <2>1 DEF Check, Return, flushVars, closerVars
  <2>2. CASE pc' = [pc EXCEPT ![p] = "send"] /\ UNCHANGED <<calls, late, res, readers>>
    BY <1>4, <2>2 DEF Check, flushVars, closerVars
  <2> QED
    BY <1>4, <2>1, <2>2 DEF Check
<1>5. ASSUME NEW p \in Callers, Send(p) PROVE Typing'
  <2>1. Current(p) \in Entries
    BY <1>5, CurrentIsEntry DEF Send
  <2>2. Append(queue, Current(p)) \in Seq(Entries) /\ Append(accepted, Current(p)) \in Seq(Entries)
    BY <2>1
  <2>3. dropped' \in Nat
    BY <1>5 DEF Send
  <2>4. ASSUME NEW r \in {"none", "queued", "dropped"}, Return(p, r)
        PROVE  /\ pc' \in [Callers -> CallerPC] /\ res' \in [Callers -> Results]
               /\ \A q \in Callers : pc'[q] # "idle" => calls'[q] > 0 /\ res'[q] = "none"
    BY <2>4 DEF Return
  <2>5. \E r \in {"none", "queued", "dropped"} : Return(p, r)
    BY <1>5 DEF Send
  <2>6. /\ UNCHANGED <<closed, chClosed, writer, calls, late, flushVars, closerVars>>
        /\ readers' = readers \ {p} /\ panicked' \in BOOLEAN
        /\ queue' \in Seq(Entries) /\ accepted' \in Seq(Entries)
    BY <1>5, <2>2 DEF Send, Return
  <2> QED
    BY <2>3, <2>4, <2>5, <2>6 DEF flushVars, closerVars
<1>6. ASSUME NEW p \in Callers, CheckSync(p) PROVE Typing'
  BY <1>6 DEF CheckSync, Return, flushVars, closerVars
<1>7. ASSUME NEW p \in Callers, SyncReturn(p) PROVE Typing'
  BY <1>7 DEF SyncReturn, Return, flushVars, closerVars, muVars
<1>8. CASE Receive
  <2>1. Head(queue) \in Entries /\ Tail(queue) \in Seq(Entries)
    BY <1>8 DEF Receive
  <2>2. Append(batch, Head(queue)) \in Seq(Entries)
    BY <2>1
  <2> QED
    BY <1>8, <2>1, <2>2 DEF Receive, muVars, callerVars, closerVars
<1>9. CASE Tick
  BY <1>9 DEF Tick, muVars, callerVars, closerVars
<1>10. CASE InputEnd
  BY <1>10 DEF InputEnd, muVars, callerVars, closerVars
<1>11. CASE BulkReturn
  BY <1>11 DEF BulkReturn, muVars, callerVars, closerVars
<1>12. CASE Exit
  BY <1>12 DEF Exit, muVars, callerVars, closerVars
<1>13. ASSUME NEW c \in Closers, Lock(c) PROVE Typing'
  BY <1>13 DEF Lock, callerVars, flushVars
<1>14. ASSUME NEW c \in Closers, SetClosed(c) PROVE Typing'
  BY <1>14 DEF SetClosed, muVars, callerVars, flushVars
<1>15. ASSUME NEW c \in Closers, CloseCh(c) PROVE Typing'
  BY <1>15 DEF CloseCh, muVars, callerVars, flushVars
<1>16. ASSUME NEW c \in Closers, Unlock(c) PROVE Typing'
  BY <1>16 DEF Unlock, callerVars, flushVars
<1>17. ASSUME NEW c \in Closers, CloseDone(c) \/ CloseExpired(c) PROVE Typing'
  BY <1>17 DEF CloseDone, CloseExpired, CloseReturn, muVars, callerVars, flushVars
<1>18. CASE UNCHANGED vars
  BY <1>18 DEF vars, muVars, callerVars, flushVars, closerVars
<1> QED
  BY <1>1, <1>2, <1>3, <1>4, <1>5, <1>6, <1>7, <1>8, <1>9, <1>10, <1>11, <1>12,
     <1>13, <1>14, <1>15, <1>16, <1>17, <1>18 DEF Next, Caller, Flusher, Closer

\* The state of the write path is well typed, in every execution.
THEOREM TypeCorrect == Spec => []TypeOK
<1>1. Init => Typing
  BY TypingInit
<1>2. Typing /\ [Next]_vars => Typing'
  BY TypingNext
<1>3. Typing => TypeOK
  BY DEF Typing
<1> QED
  BY <1>1, <1>2, <1>3, PTL DEF Spec
-----------------------------------------------------------------------------
(* The lock.                                                               *)

\* A caller between RLock and RUnlock is a reader, a closer between Lock and
\* Unlock is the writer and, past its wait, the only one inside; the flag is set
\* before the channel is closed and never while a caller is about to send.
LockInv ==
    /\ readers = {p \in Callers : pc[p] \in {"check", "send", "checkSync"}}
    /\ \A c \in Closers : writer = c <=> cpc[c] \in {"drain", "closeCh", "unlock"}
    /\ \A c \in Closers : cpc[c] \in {"closeCh", "unlock"} => readers = {}
    /\ chClosed => closed
    /\ \A c \in Closers : cpc[c] = "closeCh" => closed /\ ~chClosed
    /\ \A p \in Callers : pc[p] = "send" => ~closed
    /\ ~panicked

LEMMA LockInit == Init => LockInv
BY SizeAssumption DEF Init, LockInv

LEMMA LockNext == Typing /\ LockInv /\ [Next]_vars => LockInv'
<1> SUFFICES ASSUME Typing, LockInv, [Next]_vars PROVE LockInv'
  OBVIOUS
<1> USE SizeAssumption DEF Typing, TypeOK, CallerPC, CloserPC, LockInv
<1>1. ASSUME NEW p \in Callers, NEW s \in BOOLEAN, Begin(p, s) PROVE LockInv'
  BY <1>1 DEF Begin, closerVars, muVars
<1>2. ASSUME NEW p \in Callers, BadAttr(p) PROVE LockInv'
  BY <1>2 DEF BadAttr, closerVars, muVars
<1>3. ASSUME NEW p \in Callers, RLock(p) PROVE LockInv'
  BY <1>3 DEF RLock, closerVars
<1>4. ASSUME NEW p \in Callers, Check(p) PROVE LockInv'
  BY <1>4 DEF Check, Return, closerVars
<1>5. ASSUME NEW p \in Callers, Send(p) PROVE LockInv'
  <2>1. ~chClosed
    BY <1>5 DEF Send
  <2> QED
    BY <1>5, <2>1 DEF Send, Return, closerVars
<1>6. ASSUME NEW p \in Callers, CheckSync(p) PROVE LockInv'
  BY <1>6 DEF CheckSync, Return, closerVars
<1>7. ASSUME NEW p \in Callers, SyncReturn(p) PROVE LockInv'
  BY <1>7 DEF SyncReturn, Return, closerVars, muVars
<1>8. CASE Flusher
  BY <1>8 DEF Flusher, Receive, Tick, InputEnd, BulkReturn, Exit,
              muVars, callerVars, closerVars
<1>9. ASSUME NEW c \in Closers, Lock(c) PROVE LockInv'
  BY <1>9 DEF Lock, callerVars
<1>10. ASSUME NEW c \in Closers, SetClosed(c) PROVE LockInv'
  BY <1>10 DEF SetClosed, muVars, callerVars
<1>11. ASSUME NEW c \in Closers, CloseCh(c) PROVE LockInv'
  BY <1>11 DEF CloseCh, muVars, callerVars
<1>12. ASSUME NEW c \in Closers, Unlock(c) PROVE LockInv'
  BY <1>12 DEF Unlock, callerVars
<1>13. ASSUME NEW c \in Closers, CloseDone(c) \/ CloseExpired(c) PROVE LockInv'
  BY <1>13 DEF CloseDone, CloseExpired, CloseReturn, muVars, callerVars
<1>14. CASE UNCHANGED vars
  BY <1>14 DEF vars, muVars, callerVars, closerVars
<1> QED
  BY <1>1, <1>2, <1>3, <1>4, <1>5, <1>6, <1>7, <1>8, <1>9, <1>10, <1>11, <1>12,
     <1>13, <1>14 DEF Next, Caller, Closer

\* No execution sends on the closed channel or closes it twice, whatever the
\* number of callers and closers: the argument behind testing l.closed and
\* sending under one read lock.
THEOREM NeverPanics == Spec => []NoPanic
<1>1. Init => Typing /\ LockInv
  BY TypingInit, LockInit
<1>2. Typing /\ LockInv /\ [Next]_vars => (Typing /\ LockInv)'
  BY TypingNext, LockNext
<1>3. LockInv => NoPanic
  BY DEF LockInv, NoPanic
<1> QED
  BY <1>1, <1>2, <1>3, PTL DEF Spec
-----------------------------------------------------------------------------
(* The way of an entry.                                                    *)

\* Concatenation is associative.
LEMMA Regroup ==
    ASSUME NEW g \in Seq(Entries), NEW q \in Seq(Entries), NEW h \in Seq(Entries)
    PROVE  (g \o q) \o h = g \o (q \o h)
BY ConcatAssociative

\* Moving the head of a queue to the end of what stands before it changes nothing.
LEMMA MoveHead ==
    ASSUME NEW f \in Seq(Entries), NEW b \in Seq(Entries), NEW q \in Seq(Entries), q # << >>
    PROVE  f \o Append(b, Head(q)) \o Tail(q) = f \o b \o q
<1>1. Head(q) \in Entries /\ Tail(q) \in Seq(Entries) /\ <<Head(q)>> \in Seq(Entries) /\ f \o b \in Seq(Entries)
  BY HeadTailProperties, ConcatProperties
<1>2. q = <<Head(q)>> \o Tail(q)
  <2>1. Len(q) \in Nat \ {0} /\ Head(q) = q[1]
    BY EmptySeq
  <2>2. 1 \in 1..Len(q) /\ Len(q) \in 1..Len(q)
    BY <2>1
  <2>3. SubSeq(q, 1, Len(q)) = <<q[1]>> \o SubSeq(q, 1 + 1, Len(q))
    BY <2>2, SubSeqRecursiveFirst
  <2> QED
    BY <2>1, <2>3, SubSeqFull, TailIsSubSeq
<1>3. f \o Append(b, Head(q)) = (f \o b) \o <<Head(q)>>
  <2>1. Append(b, Head(q)) = b \o <<Head(q)>>
    BY <1>1, AppendIsConcat
  <2>2. (f \o b) \o <<Head(q)>> = f \o (b \o <<Head(q)>>)
    BY <1>1, ConcatAssociative
  <2> QED
    BY <2>1, <2>2
<1>4. ((f \o b) \o <<Head(q)>>) \o Tail(q) = (f \o b) \o (<<Head(q)>> \o Tail(q))
  BY <1>1, Regroup
<1> QED
  BY <1>2, <1>3, <1>4

\* Appending to the second of two sequences is appending to both.
LEMMA AppendSecond ==
    ASSUME NEW g \in Seq(Entries), NEW q \in Seq(Entries), NEW e \in Entries
    PROVE  Append(g \o q, e) = g \o Append(q, e)
<1>1. <<e>> \in Seq(Entries) /\ g \o q \in Seq(Entries)
  BY ConcatProperties
<1>2. (g \o q) \o <<e>> = g \o (q \o <<e>>)
  BY <1>1, Regroup
<1>3. Append(g \o q, e) = (g \o q) \o <<e>> /\ Append(q, e) = q \o <<e>>
  BY <1>1, AppendIsConcat
<1> QED
  BY <1>2, <1>3

\* An entry put at the end of the queue comes last of all.
LEMMA AppendLast ==
    ASSUME NEW f \in Seq(Entries), NEW b \in Seq(Entries), NEW q \in Seq(Entries), NEW e \in Entries
    PROVE  Append(f \o b \o q, e) = f \o b \o Append(q, e)
<1>1. f \o b \in Seq(Entries)
  BY ConcatProperties
<1> QED
  BY <1>1, AppendSecond

\* Nothing at the end of f and b is nothing.
LEMMA DropEmpty ==
    ASSUME NEW f \in Seq(Entries), NEW b \in Seq(Entries), NEW q \in Seq(Entries)
    PROVE  /\ f \o b \in Seq(Entries)
           /\ (f \o b) \o << >> \o q = f \o b \o q
           /\ f \o << >> \o << >> = f
<1>1. f \o b \in Seq(Entries) /\ << >> \in Seq(Entries)
  BY ConcatProperties
<1> QED
  BY <1>1, ConcatEmptySeq

LEMMA ConservationInit == Init => Conservation
<1>1. << >> \in Seq(Entries)
  OBVIOUS
<1> QED
  BY <1>1, DropEmpty DEF Init, Conservation

LEMMA ConservationNext == Typing /\ Conservation /\ [Next]_vars => Conservation'
<1> SUFFICES ASSUME Typing, Conservation, [Next]_vars PROVE Conservation'
  OBVIOUS
<1>1. queue \in Seq(Entries) /\ batch \in Seq(Entries) /\ flushed \in Seq(Entries)
  BY DEF Typing, TypeOK
<1>2. ASSUME NEW p \in Callers, Send(p) PROVE Conservation'
  <2>1. Current(p) \in Entries
    BY <1>2, CurrentIsEntry DEF Send
  <2>2. Append(flushed \o batch \o queue, Current(p)) = flushed \o batch \o Append(queue, Current(p))
    BY <1>1, <2>1, AppendLast
  <2> QED
    BY <1>2, <2>2 DEF Send, flushVars, Conservation
<1>3. CASE Receive
  <2>1. flushed \o Append(batch, Head(queue)) \o Tail(queue) = flushed \o batch \o queue
    BY <1>1, <1>3, MoveHead DEF Receive
  <2> QED
    BY <1>3, <2>1 DEF Receive, Conservation
<1>4. CASE BulkReturn
  <2>1. flushed \o batch \o << >> \o queue = flushed \o batch \o queue
    BY <1>1, DropEmpty
  <2> QED
    BY <1>4, <2>1 DEF BulkReturn, Conservation
<1>5. CASE UNCHANGED <<accepted, flushed, batch, queue>>
  BY <1>5 DEF Conservation
<1> QED
  BY <1>2, <1>3, <1>4, <1>5
     DEF Next, Caller, Flusher, Closer, vars, flushVars, Begin, BadAttr, RLock, Check,
         CheckSync, SyncReturn, Tick, InputEnd, Exit, Lock, SetClosed, CloseCh, Unlock,
         CloseDone, CloseExpired, CloseReturn

\* A call that began after Close never gets to the send or to Bulk.
LateInv ==
    /\ \A p \in Callers : late[p] => closed /\ pc[p] # "bulk"
    /\ LateCallsRefused

LEMMA LateNext == Typing /\ LockInv /\ LateInv /\ [Next]_vars => LateInv'
<1> SUFFICES ASSUME Typing, LockInv, LateInv, [Next]_vars PROVE LateInv'
  OBVIOUS
<1> USE DEF Typing, TypeOK, LateInv, LateCallsRefused
<1>1. ASSUME NEW p \in Callers, NEW s \in BOOLEAN, Begin(p, s) PROVE LateInv'
  BY <1>1 DEF Begin
<1>2. ASSUME NEW p \in Callers, BadAttr(p) PROVE LateInv'
  BY <1>2 DEF BadAttr
<1>3. ASSUME NEW p \in Callers, RLock(p) PROVE LateInv'
  BY <1>3 DEF RLock
<1>4. ASSUME NEW p \in Callers, Check(p) PROVE LateInv'
  BY <1>4 DEF Check, Return
<1>5. ASSUME NEW p \in Callers, Send(p) PROVE LateInv'
  BY <1>5 DEF Send, Return, LockInv
<1>6. ASSUME NEW p \in Callers, CheckSync(p) PROVE LateInv'
  BY <1>6 DEF CheckSync, Return
<1>7. ASSUME NEW p \in Callers, SyncReturn(p) PROVE LateInv'
  BY <1>7 DEF SyncReturn, Return
<1>8. ASSUME NEW c \in Closers, SetClosed(c) PROVE LateInv'
  BY <1>8 DEF SetClosed, callerVars
<1>9. CASE UNCHANGED <<late, closed, pc, res>>
  BY <1>9
<1> QED
  BY <1>1, <1>2, <1>3, <1>4, <1>5, <1>6, <1>7, <1>8, <1>9
     DEF Next, Caller, Flusher, Closer, vars, callerVars, Receive, Tick, InputEnd,
         BulkReturn, Exit, Lock, CloseCh, Unlock, CloseDone, CloseExpired, CloseReturn

\* How many entries wait, and what the flusher and the closers have seen of the
\* end of the channel.
DrainInv ==
    /\ fpc \in {"exit", "done"} => chClosed /\ queue = << >> /\ batch = << >>
    /\ fpc = "lastBulk" => chClosed /\ queue = << >>
    /\ fpc \in {"bulk", "lastBulk"} => batch # << >>
    /\ fpc = "select" => Len(batch) < BatchSize
    /\ Len(batch) <= BatchSize
    /\ Len(queue) <= QueueSize
    /\ \A c \in Closers : cres[c] = "nil" => fpc = "done"

LEMMA DrainInit == Init => DrainInv
<1>1. << >> \in Seq(Entries) /\ Len(<< >>) = 0
  BY EmptySeq
<1> QED
  BY <1>1, SizeAssumption DEF Init, DrainInv

LEMMA DrainNext == Typing /\ LockInv /\ DrainInv /\ [Next]_vars => DrainInv'
<1> SUFFICES ASSUME Typing, LockInv, DrainInv, [Next]_vars PROVE DrainInv'
  OBVIOUS
<1> USE SizeAssumption DEF Typing, TypeOK, FlushPC, DrainInv
<1>0. Len(queue) \in Nat /\ Len(batch) \in Nat
  BY LenProperties
<1>1. ASSUME NEW p \in Callers, Send(p) PROVE DrainInv'
  <2>1. ~chClosed /\ fpc \notin {"lastBulk", "exit", "done"}
    BY <1>1 DEF Send, LockInv
  <2>2. CASE UNCHANGED queue
    BY <1>1, <2>1, <2>2 DEF Send, closerVars, flushVars
  <2>3. CASE Len(queue) < QueueSize /\ queue' = Append(queue, Current(p))
    <3>1. Current(p) \in Entries
      BY <1>1, CurrentIsEntry DEF Send
    <3>2. Len(queue') <= QueueSize
      BY <1>0, <2>3, <3>1, AppendProperties
    <3> QED
      BY <1>1, <2>1, <3>2 DEF Send, closerVars, flushVars
  <2> QED
    BY <1>1, <2>1, <2>2, <2>3 DEF Send
<1>2. CASE Receive
  <2>1. /\ Head(queue) \in Entries /\ Tail(queue) \in Seq(Entries)
        /\ Len(Tail(queue)) = Len(queue) - 1
    BY <1>2, HeadTailProperties DEF Receive
  <2>2. Len(batch') = Len(batch) + 1 /\ batch' # << >> /\ fpc = "select"
    <3>1. batch \in Seq(Entries) /\ batch' = Append(batch, Head(queue)) /\ fpc = "select"
      BY <1>2 DEF Receive
    <3> QED
      BY ONLY <2>1, <3>1, AppendProperties
  <2>3. Len(queue') <= QueueSize /\ Len(batch') <= BatchSize
    BY <1>0, <1>2, <2>1, <2>2 DEF Receive
  <2>4. fpc' \in {"select", "bulk"} /\ (fpc' = "select" => Len(batch') < BatchSize)
    BY <1>0, <1>2, <2>2 DEF Receive
  <2> QED
    BY <1>2, <2>2, <2>3, <2>4 DEF Receive, closerVars
<1>3. CASE Tick
  BY <1>3 DEF Tick, closerVars
<1>4. CASE InputEnd
  BY <1>4 DEF InputEnd, closerVars
<1>5. CASE BulkReturn
  <2>1. Len(batch') = 0 /\ batch' = << >>
    BY <1>5 DEF BulkReturn
  <2> QED
    BY <1>5, <2>1 DEF BulkReturn, closerVars
<1>6. CASE Exit
  BY <1>6 DEF Exit, closerVars
<1>7. ASSUME NEW c \in Closers, CloseCh(c) PROVE DrainInv'
  BY <1>7 DEF CloseCh, flushVars
<1>8. ASSUME NEW c \in Closers, CloseDone(c) \/ CloseExpired(c) PROVE DrainInv'
  <2>1. \/ cres' = [cres EXCEPT ![c] = "nil"] /\ fpc = "done"
        \/ cres' = [cres EXCEPT ![c] = "ctxError"]
    BY <1>8 DEF CloseDone, CloseExpired, CloseReturn
  <2>2. \A d \in Closers : cres'[d] = "nil" => fpc = "done"
    BY <2>1
  <2> QED
    BY <1>8, <2>2 DEF CloseDone, CloseExpired, CloseReturn, flushVars
<1>9. CASE UNCHANGED <<fpc, batch, queue, chClosed, cres>>
  BY <1>9
<1> QED
  BY <1>1, <1>2, <1>3, <1>4, <1>5, <1>6, <1>7, <1>8, <1>9
     DEF Next, Caller, Flusher, Closer, vars, flushVars, closerVars, Begin, BadAttr,
         RLock, Check, CheckSync, SyncReturn, Lock, SetClosed, Unlock
-----------------------------------------------------------------------------
(* An entry is accepted at most once.                                      *)

\* Entries carry the number of their call, and the entry of a call that has not
\* sent yet is not among the accepted ones.
FreshInv ==
    /\ \A i \in 1..Len(accepted) : accepted[i][2] <= calls[accepted[i][1]]
    /\ \A p \in Callers : pc[p] \in {"lock", "check", "send"} =>
            \A i \in 1..Len(accepted) : accepted[i] # Current(p)

LEMMA FreshInit == Init => FreshInv
BY DEF Init, FreshInv

LEMMA FreshNext == Typing /\ FreshInv /\ [Next]_vars => FreshInv'
<1> SUFFICES ASSUME Typing, FreshInv, [Next]_vars PROVE FreshInv'
  OBVIOUS
<1> USE SizeAssumption DEF FreshInv
<1>0. /\ Len(accepted) \in Nat /\ accepted \in Seq(Entries)
      /\ \A i \in 1..Len(accepted) : /\ accepted[i] \in Callers \X (1..MaxCalls)
                                     /\ accepted[i][1] \in Callers
                                     /\ accepted[i][2] \in 1..MaxCalls
      /\ calls \in [Callers -> 0..MaxCalls]
      /\ pc \in [Callers -> CallerPC]
  <2>1. accepted \in Seq(Entries) /\ calls \in [Callers -> 0..MaxCalls]
        /\ pc \in [Callers -> CallerPC]
    BY DEF Typing, TypeOK
  <2>2. Len(accepted) \in Nat /\ \A i \in 1..Len(accepted) : accepted[i] \in Entries
    BY <2>1, ElementOfSeq, LenProperties
  <2> QED
    BY <2>1, <2>2 DEF Entries
<1>1. ASSUME NEW p \in Callers,
             calls[p] < MaxCalls, calls' = [calls EXCEPT ![p] = @ + 1],
             \A r \in Callers : pc'[r] = pc[r] \/ r = p,
             UNCHANGED accepted
      PROVE  FreshInv'
  <2>1. \A r \in Callers : calls'[r] \in Nat /\ calls[r] <= calls'[r]
    BY <1>0, <1>1
  <2>2. ASSUME NEW i \in 1..Len(accepted) PROVE accepted[i][2] <= calls'[accepted[i][1]]
    BY <1>0, <2>1
  <2>3. ASSUME NEW i \in 1..Len(accepted) PROVE accepted[i] # Current(p)'
    <3>1. calls'[p] = calls[p] + 1
      BY <1>0, <1>1
    <3>2. ASSUME accepted[i] = <<p, calls[p] + 1>> PROVE FALSE
      <4>1. accepted[i][1] = p /\ accepted[i][2] = calls[p] + 1
        BY <3>2
      <4>2. calls[p] + 1 <= calls[p]
        BY <4>1
      <4> QED
        BY <1>0, <4>2
    <3> QED
      BY <3>1, <3>2 DEF Current
  <2>4. ASSUME NEW r \in Callers, r # p, pc'[r] \in {"lock", "check", "send"},
               NEW i \in 1..Len(accepted)
        PROVE  accepted[i] # Current(r)'
    BY <1>0, <1>1, <2>4 DEF Current
  <2> QED
    BY <1>1, <2>2, <2>3, <2>4
<1>2. ASSUME NEW p \in Callers,
             pc[p] \in {"lock", "check", "send"} \/ pc'[p] \notin {"lock", "check", "send"},
             \A r \in Callers : pc'[r] = pc[r] \/ r = p,
             UNCHANGED <<accepted, calls>>
      PROVE  FreshInv'
  BY <1>2 DEF Current
<1>3. ASSUME NEW p \in Callers, Send(p) PROVE FreshInv'
  <2>1. pc[p] = "send" /\ UNCHANGED calls /\ pc' = [pc EXCEPT ![p] = "idle"]
    BY <1>3 DEF Send, Return
  <2>2. CASE UNCHANGED accepted
    BY <1>0, <1>2, <2>1, <2>2
  <2>3. CASE accepted' = Append(accepted, Current(p))
    <3>1. /\ Len(accepted') = Len(accepted) + 1
          /\ \A i \in 1..Len(accepted) : accepted'[i] = accepted[i]
          /\ accepted'[Len(accepted) + 1] = Current(p)
      <4>1. Current(p) \in Entries
        BY <2>1, CurrentIsEntry
      <4> QED
        BY ONLY <1>0, <2>3, <4>1, AppendProperties
    <3>2. Current(p)[1] = p /\ Current(p)[2] = calls[p] /\ calls[p] <= calls[p]
      BY <1>0 DEF Current
    <3>3. ASSUME NEW i \in 1..Len(accepted') PROVE i \in 1..Len(accepted) \/ i = Len(accepted) + 1
      BY <1>0, <3>1
    <3>4. ASSUME NEW i \in 1..Len(accepted') PROVE accepted'[i][2] <= calls'[accepted'[i][1]]
      BY <2>1, <3>1, <3>2, <3>3
    <3>5. ASSUME NEW r \in Callers, pc'[r] \in {"lock", "check", "send"},
                 NEW i \in 1..Len(accepted')
          PROVE  accepted'[i] # Current(r)'
      <4>1. r # p /\ pc[r] = pc'[r]
        BY <1>0, <2>1, <3>5
      <4>2. Current(r)' = Current(r) /\ Current(r) # Current(p)
        BY <2>1, <4>1 DEF Current
      <4>3. \A j \in 1..Len(accepted) : accepted[j] # Current(r)
        BY <3>5, <4>1
      <4> QED
        BY <3>1, <3>3, <4>2, <4>3
    <3> QED
      BY <3>4, <3>5
  <2> QED
    BY <1>3, <2>2, <2>3 DEF Send
<1>4. ASSUME NEW p \in Callers, NEW s \in BOOLEAN, Begin(p, s) PROVE FreshInv'
  BY <1>0, <1>1, <1>4 DEF Begin
<1>5. ASSUME NEW p \in Callers, BadAttr(p) PROVE FreshInv'
  BY <1>0, <1>1, <1>5 DEF BadAttr
<1>6. ASSUME NEW p \in Callers, RLock(p) PROVE FreshInv'
  BY <1>0, <1>2, <1>6 DEF RLock
<1>7. ASSUME NEW p \in Callers, Check(p) PROVE FreshInv'
  BY <1>0, <1>2, <1>7 DEF Check, Return
<1>8. ASSUME NEW p \in Callers, CheckSync(p) PROVE FreshInv'
  BY <1>0, <1>2, <1>8 DEF CheckSync, Return
<1>9. ASSUME NEW p \in Callers, SyncReturn(p) PROVE FreshInv'
  BY <1>0, <1>2, <1>9 DEF SyncReturn, Return
<1>10. CASE UNCHANGED <<accepted, calls, pc>>
  BY <1>10 DEF Current
<1> QED
  BY <1>3, <1>4, <1>5, <1>6, <1>7, <1>8, <1>9, <1>10
     DEF Next, Caller, Flusher, Closer, vars, callerVars, Receive, Tick, InputEnd,
         BulkReturn, Exit, Lock, SetClosed, CloseCh, Unlock, CloseDone, CloseExpired,
         CloseReturn
-----------------------------------------------------------------------------
(* The whole invariant, and what follows from it.                          *)

IInv == Typing /\ LockInv /\ Conservation /\ LateInv /\ DrainInv /\ FreshInv

LEMMA Invariance == Spec => []IInv
<1>1. Init => IInv
  <2>1. Init => LateInv
    BY DEF Init, LateInv, LateCallsRefused
  <2> QED
    BY <2>1, TypingInit, LockInit, ConservationInit, DrainInit, FreshInit DEF IInv
<1>2. IInv /\ [Next]_vars => IInv'
  BY TypingNext, LockNext, ConservationNext, LateNext, DrainNext, FreshNext DEF IInv
<1> QED
  BY <1>1, <1>2, PTL DEF Spec

\* Between Info and Bulk no entry is lost, repeated or reordered.
THEOREM EntriesConserved == Spec => []Conservation
BY Invariance, PTL DEF IInv

\* When the flusher has gone, and whenever a Close has returned nil, everything
\* accepted has been handed to Bulk.
THEOREM CloseDrainsAlways == Spec => []CloseDrains
<1>1. IInv => CloseDrains
  <2> SUFFICES ASSUME IInv PROVE fpc = "done" => flushed = accepted
    BY DEF CloseDrains, IInv, DrainInv
  <2>1. flushed \o << >> \o << >> = flushed
    BY DropEmpty DEF IInv, Typing, TypeOK
  <2> QED
    BY <2>1 DEF IInv, DrainInv, Conservation
<1> QED
  BY <1>1, Invariance, PTL

\* A call that began after Close is refused, whatever it was raced with.
THEOREM LateCallsRefusedAlways == Spec => []LateCallsRefused
BY Invariance, PTL DEF IInv, LateInv

LEMMA Lengths ==
    ASSUME Typing, Conservation
    PROVE  /\ Len(accepted) = Len(flushed) + Len(batch) + Len(queue)
           /\ Len(accepted) \in Nat /\ Len(flushed) \in Nat
           /\ Len(batch) \in Nat /\ Len(queue) \in Nat
<1>1. flushed \in Seq(Entries) /\ batch \in Seq(Entries) /\ queue \in Seq(Entries)
  BY DEF Typing, TypeOK
<1>2. flushed \o batch \in Seq(Entries) /\ Len(flushed \o batch) = Len(flushed) + Len(batch)
  BY <1>1, ConcatProperties
<1>3. Len((flushed \o batch) \o queue) = Len(flushed \o batch) + Len(queue)
  BY <1>1, <1>2, ConcatProperties
<1>4. Len(flushed) \in Nat /\ Len(batch) \in Nat /\ Len(queue) \in Nat
  BY <1>1, LenProperties
<1> QED
  BY <1>2, <1>3, <1>4 DEF Conservation

\* A crash loses at most the channel and one batch.
THEOREM LossBounded == Spec => []BoundedLoss
<1>1. IInv => BoundedLoss
  BY Lengths, SizeAssumption DEF IInv, DrainInv, BoundedLoss
<1> QED
  BY <1>1, Invariance, PTL

\* A result that concerns AsyncLog is what it calls an answer.
LEMMA Answers ==
    ASSUME Typing, NEW p \in Callers, NEW a \in {"queued", "dropped", "ErrClosed"},
           res[p] = "none", res' = [res EXCEPT ![p] = a]
    PROVE  A!Answer(p, a)
<1>1. answer[p] = "none"
  BY DEF answer
<1>2. answer' = [answer EXCEPT ![p] = a]
  BY DEF answer, Typing, TypeOK
<1> QED
  BY <1>1, <1>2 DEF A!Answer

\* A result that does not concern it is none.
LEMMA Forgets ==
    ASSUME Typing, NEW p \in Callers, NEW r \in {"none", "attrError"},
           res' = [res EXCEPT ![p] = r]
    PROVE  answer' = [answer EXCEPT ![p] = "none"]
BY DEF answer, Typing, TypeOK

\* Every step of the logger is a step of AsyncLog or leaves its state alone.
LEMMA StepRefines == IInv /\ [Next]_vars => [A!Next]_(A!vars)
<1> SUFFICES ASSUME IInv, [Next]_vars PROVE [A!Next]_(A!vars)
  OBVIOUS
<1> USE DEF A!vars
<1>1. /\ Typing /\ Conservation /\ SizeAssumption
      /\ closed \in BOOLEAN /\ flushed \in Seq(Entries) /\ batch \in Seq(Entries)
      /\ queue \in Seq(Entries)
      /\ Len(accepted) = Len(flushed) + Len(batch) + Len(queue)
      /\ Len(flushed) \in Nat /\ Len(batch) \in Nat /\ Len(queue) \in Nat
      /\ Len(batch) <= BatchSize
      /\ fpc \in {"exit", "done"} => closed /\ queue = << >> /\ batch = << >>
  BY Lengths, SizeAssumption DEF IInv, Typing, TypeOK, DrainInv, LockInv
<1>2. ASSUME NEW p \in Callers, Send(p) PROVE [A!Next]_(A!vars)
  <2>1. pc[p] = "send" /\ ~closed /\ ~chClosed /\ Current(p) \in Entries /\ res[p] = "none"
    BY <1>1, <1>2, CurrentIsEntry DEF Send, IInv, LockInv, Typing
  <2>2. phase = "open" /\ UNCHANGED <<flushed, phase>>
    BY <1>1, <1>2, <2>1 DEF Send, flushVars, phase
  <2>3. CASE /\ accepted' = Append(accepted, Current(p)) /\ Len(queue) < QueueSize
             /\ res' = [res EXCEPT ![p] = "queued"]
    <3>1. \A i \in 1..Len(accepted) : accepted[i] # Current(p)
      BY <2>1 DEF IInv, FreshInv
    <3>2. Len(accepted) < Len(flushed) + QueueSize + BatchSize
      BY <1>1, <2>3, SizeAssumption
    <3>3. A!Answer(p, "queued")
      BY <1>1, <2>1, <2>3, Answers
    <3>4. A!Accept(p, Current(p))
      BY <2>2, <2>3, <3>1, <3>2, <3>3 DEF A!Accept
    <3> QED
      BY <2>1, <3>4 DEF A!Next
  <2>4. CASE /\ UNCHANGED accepted /\ Len(queue) >= QueueSize
             /\ res' = [res EXCEPT ![p] = "dropped"]
    <3>1. Len(accepted) >= Len(flushed) + QueueSize
      BY <1>1, <2>4, SizeAssumption
    <3>2. A!Answer(p, "dropped")
      BY <1>1, <2>1, <2>4, Answers
    <3>3. A!Drop(p)
      BY <2>2, <2>4, <3>1, <3>2 DEF A!Drop
    <3> QED
      BY <3>3 DEF A!Next
  <2> QED
    BY <1>2, <2>1, <2>3, <2>4 DEF Send, Return
<1>3. CASE BulkReturn
  <2>1. Len(batch) \in 1..BatchSize
    <3>1. batch # << >>
      BY <1>3 DEF BulkReturn, IInv, DrainInv
    <3> QED
      BY <1>1, <3>1, EmptySeq
  <2>2. flushed' = SubSeq(accepted, 1, Len(flushed) + Len(batch))
    <3>1. /\ flushed \o batch \in Seq(Entries)
          /\ Len(flushed \o batch) = Len(flushed) + Len(batch)
      BY <1>1, ConcatProperties
    <3>2. accepted = (flushed \o batch) \o queue
      BY <1>1 DEF Conservation
    <3>3. 1 \in 1..Len(flushed \o batch) /\ Len(flushed \o batch) \in 1..Len(flushed \o batch)
      BY <1>1, <2>1, <3>1
    <3>4. SubSeq((flushed \o batch) \o queue, 1, Len(flushed \o batch))
            = SubSeq(flushed \o batch, 1, Len(flushed \o batch))
      BY <1>1, <3>1, <3>3, SubSeqOfConcat1
    <3>5. SubSeq(flushed \o batch, 1, Len(flushed \o batch)) = flushed \o batch
      BY <3>1, SubSeqFull
    <3> QED
      BY <1>3, <3>1, <3>2, <3>4, <3>5 DEF BulkReturn
  <2>3. UNCHANGED <<accepted, phase, answer>>
    BY <1>3 DEF BulkReturn, callerVars, phase, answer
  <2>4. A!Deliver(Len(batch))
    BY <1>1, <2>2, <2>3 DEF A!Deliver
  <2> QED
    BY <2>1, <2>4 DEF A!Next
<1>4. CASE Exit
  <2>1. flushed = accepted
    <3>1. flushed \o << >> \o << >> = flushed
      BY <1>1, DropEmpty
    <3> QED
      BY <1>1, <1>4, <3>1 DEF Exit, Conservation
  <2>2. phase = "closing" /\ phase' = "done" /\ UNCHANGED <<accepted, flushed, answer>>
    BY <1>1, <1>4 DEF Exit, callerVars, phase, answer
  <2> QED
    BY <2>1, <2>2 DEF A!Finish, A!Next
<1>5. ASSUME NEW c \in Closers, SetClosed(c) PROVE [A!Next]_(A!vars)
  <2>1. UNCHANGED <<accepted, flushed, fpc, answer>> /\ closed'
    BY <1>5 DEF SetClosed, flushVars, callerVars, answer
  <2>2. CASE phase = "open"
    <3>1. phase' = "closing"
      BY <2>1, <2>2 DEF phase
    <3> QED
      BY <2>1, <2>2, <3>1 DEF A!Shut, A!Next
  <2>3. CASE phase # "open"
    BY <2>1, <2>3 DEF phase
  <2> QED
    BY <2>2, <2>3
<1>6. ASSUME NEW p \in Callers, NEW r \in {"none", "attrError"},
             res' = [res EXCEPT ![p] = r], UNCHANGED <<accepted, flushed, closed, fpc>>
      PROVE  [A!Next]_(A!vars)
  <2>1. answer' = [answer EXCEPT ![p] = "none"]
    BY <1>1, <1>6, Forgets
  <2>2. UNCHANGED phase
    BY <1>6 DEF phase
  <2>3. A!Call(p)
    BY <1>6, <2>1, <2>2 DEF A!Call
  <2> QED
    BY <2>3 DEF A!Next
<1>7. ASSUME NEW p \in Callers, closed, res[p] = "none",
             res' = [res EXCEPT ![p] = "ErrClosed"], UNCHANGED <<accepted, flushed, closed, fpc>>
      PROVE  [A!Next]_(A!vars)
  <2>1. A!Answer(p, "ErrClosed")
    BY <1>1, <1>7, Answers
  <2>2. phase # "open" /\ UNCHANGED phase
    BY <1>7 DEF phase
  <2>3. A!Refuse(p)
    BY <1>7, <2>1, <2>2 DEF A!Refuse
  <2> QED
    BY <2>3 DEF A!Next
<1>8. CASE UNCHANGED <<accepted, flushed, closed, res>>
           /\ (UNCHANGED fpc \/ (fpc # "done" /\ fpc' # "done"))
  BY <1>8 DEF phase, answer
<1>9. ASSUME NEW p \in Callers, SyncReturn(p) PROVE [A!Next]_(A!vars)
  <2>1. PICK r \in {"nil", "storeError"} : res' = [res EXCEPT ![p] = r]
    BY <1>9 DEF SyncReturn, Return
  <2>2. res[p] = "none"
    BY <1>1, <1>9 DEF SyncReturn, Typing
  <2>3. UNCHANGED answer
    BY <1>1, <2>1, <2>2 DEF answer, Typing, TypeOK
  <2> QED
    BY <1>9, <2>3 DEF SyncReturn, flushVars, phase
<1>10. ASSUME NEW p \in Callers, Check(p) \/ CheckSync(p) PROVE [A!Next]_(A!vars)
  <2>1. res[p] = "none" /\ UNCHANGED <<accepted, flushed, closed, fpc>>
    BY <1>1, <1>10 DEF Check, CheckSync, flushVars, Typing
  <2>2. UNCHANGED res \/ (closed /\ res' = [res EXCEPT ![p] = "ErrClosed"])
    BY <1>10 DEF Check, CheckSync, Return
  <2> QED
    BY <1>7, <1>8, <2>1, <2>2
<1>11. ASSUME NEW p \in Callers, (\E s \in BOOLEAN : Begin(p, s)) \/ BadAttr(p)
       PROVE  [A!Next]_(A!vars)
  BY <1>6, <1>11 DEF Begin, BadAttr, flushVars
<1> QED
  BY <1>2, <1>3, <1>4, <1>5, <1>8, <1>9, <1>10, <1>11
     DEF Next, Caller, Flusher, Closer, vars, callerVars, flushVars,
         RLock, Receive, Tick, InputEnd, Lock, CloseCh,
         Unlock, CloseDone, CloseExpired, CloseReturn

\* The logger keeps AsyncLog's promise: entries are taken only while it is open,
\* handed over in order, each once, in chunks of at most BatchSize, and the
\* flusher ends only when nothing is left.  An entry is dropped only when a queue's
\* worth of others waits, and ErrClosed is answered only after Close was called.
THEOREM LoggerImplementsAsyncLog == Spec => ImplementsAsyncLog
<1>1. Init => A!Init
  BY DEF Init, A!Init, phase, answer
<1>2. IInv /\ [Next]_vars => [A!Next]_(A!vars)
  BY StepRefines
<1> QED
  BY <1>1, <1>2, Invariance, PTL DEF Spec, ImplementsAsyncLog, A!Spec
=============================================================================
