----------------------------- MODULE EsStore_proofs -----------------------------
(***************************************************************************)
(* Proofs about the two modules of zenalog/es, EsBulk and EnsureIndex.     *)
(*                                                                         *)
(* EsBulk, for batches of any documents and any number of addresses: the   *)
(* inductive invariant joins TypeOK, LoopInv (where the loop of client.do  *)
(* is and what it has left untouched), StoredInv (what is in the index)    *)
(* and CopiesBounded.                                                      *)
(*                                                                         *)
(* EnsureIndex, for any number of instances, of any versions, any number   *)
(* of addresses and any number of deletions: ReadyMeansMapped is not       *)
(* inductive.  It needs NeverDynamicAgain, that needs the template to be   *)
(* there, and the settings written before the mapping must still stand     *)
(* when the mapping is written (StartUpInv).                               *)
(***************************************************************************)
EXTENDS EsBulk, EnsureIndex, FiniteSetTheorems, TLAPS

-----------------------------------------------------------------------------
(* EsBulk: where the loop of client.do is.                                 *)

\* The loop waits for, or reads from, an address it has; what lies before it was not
\* sent anything, and the first answer stops it.
LoopInv ==
    /\ pc \in {"wait", "read"} => at \in Addrs
    /\ \A n \in Addrs : n > at \/ (n = at /\ pc \in {"start", "next"}) => net[n] = "none"
    /\ heard # 0 => heard = at /\ pc \in {"read", "done"}

Typing == TypeOK /\ LoopInv

LEMMA TypingInit == Init => Typing
<1> SUFFICES ASSUME Init PROVE Typing
  OBVIOUS
<1>1. 1 \in 1..(Nodes + 1) /\ 0 \in 0..Nodes
  BY NodesAssumption
<1> QED
  BY <1>1 DEF Init, Typing, TypeOK, LoopInv, Addrs, Answers

LEMMA TypingNext == Typing /\ [Next]_vars => Typing'
<1> SUFFICES ASSUME Typing, [Next]_vars PROVE Typing'
  OBVIOUS
<1> USE NodesAssumption DEF Typing, TypeOK, LoopInv, Addrs, Answers
<1>1. CASE Begin
  BY <1>1 DEF Begin, Done
<1>2. CASE Try
  <2>1. CASE ctxDone /\ NextAddr /\ UNCHANGED net
    BY <1>2, <2>1 DEF Try, NextAddr
  <2>2. CASE ~ctxDone /\ pc' = "wait" /\ net' = [net EXCEPT ![at] = "sent"] /\ UNCHANGED at
    <3>1. at \in Addrs
      BY <1>2 DEF Try
    <3> QED
      BY <1>2, <2>2, <3>1 DEF Try
  <2> QED
    BY <1>2, <2>1, <2>2 DEF Try
<1>3. ASSUME pc = "wait", NextAddr
      PROVE  at' \in 1..(Nodes + 1) /\ at' = at + 1 /\ pc' = "next"
  BY <1>3 DEF NextAddr
<1>4. CASE Refused
  BY <1>3, <1>4 DEF Refused
<1>5. CASE Broken
  BY <1>3, <1>5 DEF Broken
<1>6. CASE Timeout
  <2>1. ctxDone' \in BOOLEAN
    BY <1>6 DEF Timeout
  <2> QED
    BY <1>3, <1>6, <2>1 DEF Timeout
<1>7. CASE Answered
  BY <1>7 DEF Answered
<1>8. CASE Unreachable \/ ReadError \/ Judge
  BY <1>8 DEF Unreachable, ReadError, Judge, Done
<1>9. CASE CtxEnd
  BY <1>9 DEF CtxEnd
<1>10. ASSUME NEW n \in Addrs, NEW S \in SUBSET docs, NEW a \in Answers, Execute(n, S, a)
      PROVE  Typing'
  <2>1. stored' \in [Docs -> Nat]
    BY <1>10 DEF Execute
  <2>2. net' \in [Addrs -> {"none", "sent", "refused"} \cup Answers] /\ taken' \in [Addrs -> SUBSET Docs]
    BY <1>10 DEF Execute
  <2>3. \A x \in Addrs : net[x] = "none" => net'[x] = "none"
    BY <1>10 DEF Execute
  <2>4. UNCHANGED <<docs, kind, ctxDone, pc, at, heard, res>>
    BY <1>10 DEF Execute
  <2> QED
    BY <2>1, <2>2, <2>3, <2>4
<1>11. CASE UNCHANGED vars
  BY <1>11 DEF vars
<1> HIDE DEF Typing, TypeOK, LoopInv
<1> QED
  BY <1>1, <1>2, <1>4, <1>5, <1>6, <1>7, <1>8, <1>9, <1>10, <1>11 DEF Next, Client

\* The state of one bulk request is well typed, in every execution.
THEOREM BulkTypeCorrect == Spec => []TypeOK
<1>1. Typing => TypeOK
  BY DEF Typing
<1> QED
  BY <1>1, TypingInit, TypingNext, PTL DEF Spec

\* FirstAnswerFinal: once the header of an answer is in, the loop of client.do moves to
\* no further address, so that no other node gets a batch that one has answered.
THEOREM FirstAnswerIsFinal == Spec => []FirstAnswerFinal
<1>1. Typing => FirstAnswerFinal
  BY DEF Typing, LoopInv, FirstAnswerFinal
<1> QED
  BY <1>1, TypingInit, TypingNext, PTL DEF Spec
-----------------------------------------------------------------------------
(* What is in the index.                                                   *)

\* What a node has taken is in the index, and a batch reported as written is.
StoredInv ==
    /\ \A n \in Addrs : \A d \in taken[n] : stored[d] >= 1
    /\ NilMeansIndexed

LEMMA StoredInit == Init => StoredInv
BY DEF Init, StoredInv, NilMeansIndexed

LEMMA StoredNext == Typing /\ StoredInv /\ [Next]_vars => StoredInv'
<1> SUFFICES ASSUME Typing, StoredInv, [Next]_vars PROVE StoredInv'
  OBVIOUS
<1> USE DEF Typing, TypeOK, StoredInv, NilMeansIndexed
<1>1. CASE Begin
  BY <1>1 DEF Begin, Done
<1>2. CASE Judge
  <2>1. ASSUME res' = "nil" PROVE taken[at] = docs /\ at \in Addrs
    BY <1>2, <2>1 DEF Judge, Done, LoopInv
  <2> QED
    BY <1>2, <2>1 DEF Judge
<1>3. CASE Unreachable \/ ReadError
  BY <1>3 DEF Unreachable, ReadError, Done
<1>4. CASE Try \/ Refused \/ Broken \/ Timeout \/ Answered \/ CtxEnd
  BY <1>4 DEF Try, Refused, Broken, Timeout, Answered, CtxEnd
<1>5. ASSUME NEW n \in Addrs, NEW S \in SUBSET docs, NEW a \in Answers, Execute(n, S, a)
      PROVE  StoredInv'
  <2>1. \A d \in Docs : stored'[d] \in Nat /\ stored'[d] >= stored[d] /\ (d \in S => stored'[d] >= 1)
    BY <1>5 DEF Execute
  <2>2. \A x \in Addrs : taken'[x] = IF x = n THEN S ELSE taken[x]
    BY <1>5 DEF Execute
  <2>3. UNCHANGED <<docs, res>> /\ S \subseteq Docs
    BY <1>5 DEF Execute
  <2> QED
    BY <2>1, <2>2, <2>3
<1>6. CASE UNCHANGED vars
  BY <1>6 DEF vars
<1> HIDE DEF Typing, TypeOK, StoredInv, NilMeansIndexed
<1> QED
  BY <1>1, <1>2, <1>3, <1>4, <1>5, <1>6 DEF Next, Client

\* NilMeansIndexed: a nil result, what a caller of Sync() relies on, means that every
\* document of the batch is in the index.
THEOREM NilResultMeansIndexed == Spec => []NilMeansIndexed
<1>1. Init => Typing /\ StoredInv
  BY TypingInit, StoredInit
<1>2. Typing /\ StoredInv /\ [Next]_vars => (Typing /\ StoredInv)'
  BY TypingNext, StoredNext
<1>3. StoredInv => NilMeansIndexed
  BY DEF StoredInv
<1> QED
  BY <1>1, <1>2, <1>3, PTL DEF Spec
-----------------------------------------------------------------------------
(* How often a document is in the index.                                   *)

\* The addresses whose request was executed.
Executed == {n \in Addrs : net[n] \in Answers}

LEMMA ExecutedFinite == IsFiniteSet(Executed) /\ Cardinality(Executed) \in Nat
<1>1. IsFiniteSet(Addrs)
  BY NodesAssumption, FS_Interval DEF Addrs
<1> QED
  BY <1>1, FS_Subset, FS_CardinalityType DEF Executed

LEMMA CopiesInit == Init => CopiesBounded
<1> SUFFICES ASSUME Init PROVE CopiesBounded
  OBVIOUS
<1> QED
  BY ExecutedFinite DEF Init, CopiesBounded, Executed

LEMMA CopiesNext == Typing /\ CopiesBounded /\ [Next]_vars => CopiesBounded'
<1> SUFFICES ASSUME Typing, CopiesBounded, [Next]_vars PROVE CopiesBounded'
  OBVIOUS
<1>1. ASSUME stored' = stored, Executed' = Executed PROVE CopiesBounded'
  BY <1>1 DEF CopiesBounded, Executed
<1> USE DEF Typing, TypeOK
<1>2. CASE Try
  <2>1. ASSUME ~ctxDone, net' = [net EXCEPT ![at] = "sent"] PROVE Executed' = Executed
    <3>1. net[at] = "none" /\ at \in Addrs
      BY <1>2, NodesAssumption DEF Try, LoopInv, Addrs
    <3> QED
      BY <2>1, <3>1 DEF Executed, Answers
  <2> QED
    BY <1>1, <1>2, <2>1 DEF Try, Executed
<1>3. CASE Refused
  <2>1. Executed' = Executed
    BY <1>3 DEF Refused, Executed, Answers
  <2> QED
    BY <1>1, <1>3, <2>1 DEF Refused
<1>4. CASE Begin \/ Broken \/ Timeout \/ Answered \/ Unreachable \/ ReadError \/ Judge \/ CtxEnd
  BY <1>1, <1>4 DEF Begin, Broken, Timeout, Answered, Unreachable, ReadError, Judge, CtxEnd, Executed
<1>5. ASSUME NEW n \in Addrs, NEW S \in SUBSET docs, NEW a \in Answers, Execute(n, S, a)
      PROVE  CopiesBounded'
  <2>1. n \notin Executed /\ Executed' = Executed \cup {n}
    BY <1>5 DEF Execute, Executed, Answers
  <2>2. Cardinality(Executed') = Cardinality(Executed) + 1
    BY <2>1, ExecutedFinite, FS_AddElement
  <2>3. \A d \in Docs : stored'[d] <= stored[d] + 1
    BY <1>5 DEF Execute
  <2>4. \A d \in Docs : stored[d] <= Cardinality(Executed) /\ stored[d] \in Nat /\ stored'[d] \in Nat
    BY <1>5 DEF CopiesBounded, Executed, Execute
  <2>5. \A d \in Docs : stored'[d] <= Cardinality(Executed')
    BY <2>2, <2>3, <2>4, ExecutedFinite
  <2> QED
    BY <2>5 DEF CopiesBounded, Executed
<1>6. CASE UNCHANGED vars
  BY <1>1, <1>6 DEF vars, Executed
<1> HIDE DEF Typing, TypeOK
<1> QED
  BY <1>2, <1>3, <1>4, <1>5, <1>6 DEF Next, Client

\* CopiesBounded: however the addresses fail, a document is in the index at most once
\* for each address that has executed the request.
THEOREM CopiesAreBounded == Spec => []CopiesBounded
<1>1. Init => Typing /\ CopiesBounded
  BY TypingInit, CopiesInit
<1>2. Typing /\ CopiesBounded /\ [Next]_vars => (Typing /\ CopiesBounded)'
  BY TypingNext, CopiesNext
<1> QED
  BY <1>1, <1>2, PTL DEF Spec
-----------------------------------------------------------------------------
(* EnsureIndex: several instances prepare one index.                       *)

\* What an instance has achieved on its way to "ready", whatever the others and the
\* cluster have done since.
StartUpInv ==
    \A i \in Instances :
        /\ progress[i] \notin {"template", "failed"} => template # Absent
        /\ progress[i] = "mapping" => index = Absent \/ window

IndexInv == EnsureTypeOK /\ StartUpInv /\ NeverDynamicAgain /\ ReadyMeansMapped

LEMMA IndexInit == EnsureInit => IndexInv
<1> SUFFICES ASSUME EnsureInit PROVE IndexInv
  OBVIOUS
<1>1. 0 \in 0..(Addresses - 1) /\ 0 \in 0..MaxDeletes
  BY KeysAssumption
<1>2. window \in BOOLEAN
  BY DEF EnsureInit
<1>3. EnsureTypeOK
  BY <1>1, <1>2 DEF EnsureInit, EnsureTypeOK, Requests
<1>4. \A i \in Instances : progress[i] = "template"
  BY DEF EnsureInit
<1> QED
  BY <1>3, <1>4 DEF IndexInv, StartUpInv, NeverDynamicAgain, ReadyMeansMapped

\* The keys of a strict mapping are told from the two other states of the index.
LEMMA KeysAreStrict == ASSUME NEW S \in SUBSET Keys PROVE IsStrict(S)
BY KeysAssumption DEF IsStrict

\* What a request leaves of the other instances' progress, and of its own.
LEMMA MovesInstance ==
    ASSUME EnsureTypeOK, NEW i \in Instances,
           (\E next \in Requests \cup {"ready"} : Goto(i, next)) \/ Unanswered(i) \/ Fail(i)
    PROVE  /\ progress' \in [Instances -> Requests \cup {"ready", "failed"}]
           /\ tries' \in [Instances -> 0..(Addresses - 1)]
           /\ deleted' \in [Instances -> BOOLEAN]
           /\ UNCHANGED <<deletes, quiet>>
           /\ \A j \in Instances \ {i} : progress'[j] = progress[j] /\ deleted'[j] = deleted[j]
<1> USE KeysAssumption DEF EnsureTypeOK
<1>1. ASSUME NEW next \in Requests \cup {"ready"}, Goto(i, next)
      PROVE  /\ progress' \in [Instances -> Requests \cup {"ready", "failed"}]
             /\ tries' \in [Instances -> 0..(Addresses - 1)]
             /\ deleted' \in [Instances -> BOOLEAN]
             /\ UNCHANGED <<deletes, quiet>>
             /\ \A j \in Instances \ {i} : progress'[j] = progress[j] /\ deleted'[j] = deleted[j]
  BY <1>1 DEF Goto
<1>2. CASE Fail(i)
  BY <1>2 DEF Fail
<1>3. CASE Unanswered(i) /\ ~Fail(i)
  BY <1>3 DEF Unanswered
<1> QED
  BY <1>1, <1>2, <1>3

\* One request of instance i preserves the invariant when it takes no key away, makes
\* no index dynamic, forgets neither template nor settings, and leaves i itself well.
LEMMA RequestKeeps ==
    ASSUME IndexInv, NEW i \in Instances,
           (\E next \in Requests \cup {"ready"} : Goto(i, next)) \/ Unanswered(i) \/ Fail(i),
           template' \in {Absent} \cup SUBSET Keys, template # Absent => template' # Absent,
           \/ UNCHANGED index
           \/ /\ index' \in SUBSET Keys
              /\ (index = Absent /\ window') \/ (IsStrict(index) /\ index \subseteq index'),
           window' \in BOOLEAN, window => window',
           progress'[i] \notin {"template", "failed"} => template' # Absent,
           progress'[i] = "mapping" => index' = Absent \/ window',
           progress'[i] = "ready" => IsStrict(index') /\ KeysOf[i] \subseteq index' /\ window'
    PROVE  IndexInv'
<1>1. EnsureTypeOK'
  <2>1. index' \in {Absent, Dynamic} \cup SUBSET Keys
    BY DEF IndexInv, EnsureTypeOK
  <2> QED
    BY <2>1, MovesInstance DEF IndexInv, EnsureTypeOK
<1>2. \A j \in Instances \ {i} : progress'[j] = progress[j] /\ deleted'[j] = deleted[j]
  BY MovesInstance DEF IndexInv
<1>3. index' = index \/ IsStrict(index')
  BY KeysAreStrict
<1>4. StartUpInv'
  <2> SUFFICES ASSUME NEW j \in Instances \ {i}
               PROVE  /\ progress'[j] \notin {"template", "failed"} => template' # Absent
                      /\ progress'[j] = "mapping" => index' = Absent \/ window'
    BY DEF StartUpInv
  <2>1. /\ progress[j] \notin {"template", "failed"} => template # Absent
        /\ progress[j] = "mapping" => index = Absent \/ window
    BY DEF IndexInv, StartUpInv
  <2> QED
    BY <1>2, <2>1 DEF IsStrict
<1>5. NeverDynamicAgain'
  BY <1>2, <1>3 DEF IndexInv, NeverDynamicAgain, IsStrict
<1>6. ReadyMeansMapped'
  <2> SUFFICES ASSUME NEW j \in Instances \ {i}, progress'[j] = "ready", ~deleted'[j]
               PROVE  IsStrict(index') /\ KeysOf[j] \subseteq index' /\ window'
    BY DEF ReadyMeansMapped
  <2>1. IsStrict(index) /\ KeysOf[j] \subseteq index /\ window
    BY <1>2 DEF IndexInv, ReadyMeansMapped
  <2>2. index \subseteq index'
    BY <2>1 DEF IsStrict
  <2> QED
    BY <1>3, <2>1, <2>2
<1> QED
  BY <1>1, <1>4, <1>5, <1>6 DEF IndexInv
-----------------------------------------------------------------------------
LEMMA IndexNext == IndexInv /\ [EnsureNext]_ensureVars => IndexInv'
<1> SUFFICES ASSUME IndexInv, [EnsureNext]_ensureVars PROVE IndexInv'
  OBVIOUS
<1>1. ASSUME NEW i \in Instances, PutTemplate(i) PROVE IndexInv'
  <2>1. KeysOf[i] \in SUBSET Keys /\ KeysOf[i] # Absent
    BY KeysAssumption
  <2>2. progress'[i] \in {"head", "template", "failed"}
    BY <1>1 DEF PutTemplate, Goto, Unanswered, Fail, IndexInv, EnsureTypeOK
  <2>3. Goto(i, "head") \/ Unanswered(i)
    BY <1>1 DEF PutTemplate
  <2>4. template' = KeysOf[i] /\ UNCHANGED <<index, window>> /\ window \in BOOLEAN
    BY <1>1 DEF PutTemplate, IndexInv, EnsureTypeOK
  <2> QED
    BY <2>1, <2>2, <2>3, <2>4, RequestKeeps DEF Requests
<1>2. ASSUME NEW i \in Instances, HeadIndex(i) PROVE IndexInv'
  <2>1. progress'[i] \in {"create", "settings"} /\ template # Absent
    BY <1>2 DEF HeadIndex, Goto, IndexInv, EnsureTypeOK, StartUpInv
  <2>2. \E next \in Requests \cup {"ready"} : Goto(i, next)
    BY <1>2 DEF HeadIndex, Requests
  <2>3. UNCHANGED esVars /\ window \in BOOLEAN /\ template \in {Absent} \cup SUBSET Keys
    BY <1>2 DEF HeadIndex, IndexInv, EnsureTypeOK
  <2> QED
    BY <2>1, <2>2, <2>3, RequestKeeps DEF esVars
<1>3. ASSUME NEW i \in Instances, Create(i) PROVE IndexInv'
  <2>1. template # Absent /\ template' = template /\ template \in SUBSET Keys /\ window \in BOOLEAN
    BY <1>3 DEF Create, IndexInv, EnsureTypeOK, StartUpInv
  <2>2. (\E next \in Requests \cup {"ready"} : Goto(i, next)) \/ Unanswered(i) \/ Fail(i)
    BY <1>3 DEF Create
  <2>3. CASE index = Absent
    <3>1. index' = KeysOf[i] \cup template /\ window'
      BY <1>3, <2>1, <2>3 DEF Create, TemplateKeys
    <3>2. index' \in SUBSET Keys /\ IsStrict(index')
      BY <2>1, <3>1, KeysAreStrict, KeysAssumption
    <3>3. progress'[i] \in {"ready", "create", "failed"} /\ window' \in BOOLEAN
      BY <1>3, <2>3 DEF Create, Goto, Unanswered, Fail, IndexInv, EnsureTypeOK
    <3> QED
      BY <2>1, <2>2, <2>3, <3>1, <3>2, <3>3, RequestKeeps
  <2>4. CASE index # Absent
    <3>1. progress'[i] = "failed" /\ UNCHANGED <<index, window>>
      BY <1>3, <2>4 DEF Create, Fail, IndexInv, EnsureTypeOK
    <3> QED
      BY <2>1, <2>2, <3>1, RequestKeeps
  <2> QED
    BY <2>3, <2>4
<1>4. ASSUME NEW i \in Instances, PutSettings(i) PROVE IndexInv'
  <2>1. template # Absent /\ template' = template /\ template \in SUBSET Keys /\ index' = index
    BY <1>4 DEF PutSettings, IndexInv, EnsureTypeOK, StartUpInv
  <2>2. (\E next \in Requests \cup {"ready"} : Goto(i, next)) \/ Unanswered(i) \/ Fail(i)
    BY <1>4 DEF PutSettings, Requests
  <2>3. window' \in BOOLEAN /\ (window => window')
    BY <1>4 DEF PutSettings, IndexInv, EnsureTypeOK
  <2>4. progress'[i] \in {"mapping", "settings", "failed"} /\ (progress'[i] = "mapping" => window')
    BY <1>4 DEF PutSettings, Goto, Unanswered, Fail, IndexInv, EnsureTypeOK
  <2> QED
    BY <2>1, <2>2, <2>3, <2>4, RequestKeeps
<1>5. ASSUME NEW i \in Instances, PutMapping(i) PROVE IndexInv'
  <2>1. /\ template # Absent /\ template' = template /\ template \in SUBSET Keys
        /\ window' = window /\ window \in BOOLEAN /\ (index = Absent \/ window)
    BY <1>5 DEF PutMapping, IndexInv, EnsureTypeOK, StartUpInv
  <2>2. (\E next \in Requests \cup {"ready"} : Goto(i, next)) \/ Unanswered(i) \/ Fail(i)
    BY <1>5 DEF PutMapping
  <2>3. CASE IsStrict(index)
    <3>1. index' = index \cup KeysOf[i] /\ index \in SUBSET Keys
      BY <1>5, <2>3 DEF PutMapping, IsStrict, IndexInv, EnsureTypeOK
    <3>2. index' \in SUBSET Keys /\ IsStrict(index')
      BY <3>1, KeysAreStrict, KeysAssumption
    <3>3. window
      BY <2>1, <2>3 DEF IsStrict
    <3>4. progress'[i] \in {"ready", "mapping", "failed"}
      BY <1>5, <2>3 DEF PutMapping, IsStrict, Goto, Unanswered, Fail, IndexInv, EnsureTypeOK
    <3> QED
      BY <2>1, <2>2, <2>3, <3>1, <3>2, <3>3, <3>4, RequestKeeps
  <2>4. CASE ~IsStrict(index)
    <3>1. progress'[i] = "failed" /\ UNCHANGED index
      BY <1>5, <2>4 DEF PutMapping, Fail, IndexInv, EnsureTypeOK
    <3> QED
      BY <2>1, <2>2, <3>1, RequestKeeps
  <2> QED
    BY <2>3, <2>4
<1>6. ASSUME NEW i \in Instances, RequestFails(i) PROVE IndexInv'
  <2>1. progress'[i] \in {progress[i], "failed"} /\ progress[i] # "ready"
    BY <1>6 DEF RequestFails, Unanswered, Fail, Requests, IndexInv, EnsureTypeOK
  <2>2. Unanswered(i) \/ Fail(i)
    BY <1>6 DEF RequestFails
  <2>3. UNCHANGED esVars /\ window \in BOOLEAN /\ template \in {Absent} \cup SUBSET Keys
    BY <1>6 DEF RequestFails, IndexInv, EnsureTypeOK
  <2>4. /\ progress[i] \notin {"template", "failed"} => template # Absent
        /\ progress[i] = "mapping" => index = Absent \/ window
    BY DEF IndexInv, StartUpInv
  <2> QED
    BY <2>1, <2>2, <2>3, <2>4, RequestKeeps DEF esVars
<1>7. ASSUME NEW i \in Instances, Restart(i) PROVE IndexInv'
  <2>1. progress' = [progress EXCEPT ![i] = "template"] /\ deleted' = [deleted EXCEPT ![i] = FALSE]
    BY <1>7 DEF Restart
  <2>2. UNCHANGED <<template, index, window, tries, deletes, quiet>>
    BY <1>7 DEF Restart, esVars
  <2>3. EnsureTypeOK'
    BY <2>1, <2>2 DEF IndexInv, EnsureTypeOK, Requests
  <2>4. \A j \in Instances : progress'[j] = "template" \/ (progress'[j] = progress[j] /\ deleted'[j] = deleted[j])
    BY <2>1 DEF IndexInv, EnsureTypeOK
  <2> QED
    BY <2>2, <2>3, <2>4 DEF IndexInv, StartUpInv, NeverDynamicAgain, ReadyMeansMapped
<1>8. CASE AutoCreate
  <2>1. CASE template = Absent
    BY <1>8, <2>1, KeysAssumption
       DEF AutoCreate, IndexInv, EnsureTypeOK, StartUpInv, NeverDynamicAgain, ReadyMeansMapped, IsStrict
  <2>2. CASE template # Absent
    <3>1. index' = template /\ template \in SUBSET Keys /\ window' /\ window' \in BOOLEAN
      BY <1>8, <2>2 DEF AutoCreate, IndexInv, EnsureTypeOK
    <3>2. index = Absent /\ UNCHANGED <<template, progress, tries, deleted, deletes, quiet>>
      BY <1>8 DEF AutoCreate
    <3> QED
      BY <2>2, <3>1, <3>2, KeysAreStrict
         DEF IndexInv, EnsureTypeOK, StartUpInv, NeverDynamicAgain, ReadyMeansMapped, IsStrict
  <2> QED
    BY <2>1, <2>2
<1>9. CASE Delete
  <2>1. deletes' \in 0..MaxDeletes
    BY <1>9, KeysAssumption DEF Delete, IndexInv, EnsureTypeOK
  <2>2. deleted' \in [Instances -> BOOLEAN] /\ \A i \in Instances : progress[i] = "ready" => deleted'[i]
    BY <1>9 DEF Delete
  <2>3. index' = Absent /\ window' = FALSE /\ UNCHANGED <<template, progress, tries, quiet>>
    BY <1>9 DEF Delete
  <2> QED
    BY <2>1, <2>2, <2>3, KeysAssumption
       DEF IndexInv, EnsureTypeOK, StartUpInv, NeverDynamicAgain, ReadyMeansMapped
<1>10. CASE Calm \/ UNCHANGED ensureVars
  BY <1>10 DEF Calm, ensureVars, esVars, IndexInv, EnsureTypeOK, StartUpInv, NeverDynamicAgain,
               ReadyMeansMapped, IsStrict
<1> QED
  BY <1>1, <1>2, <1>3, <1>4, <1>5, <1>6, <1>7, <1>8, <1>9, <1>10 DEF EnsureNext, Ensure

\* The inductive invariant: types, start-up progress and the two properties.
THEOREM IndexInvariant == EnsureSpec => []IndexInv
BY IndexInit, IndexNext, PTL DEF EnsureSpec

\* ReadyMeansMapped: an EnsureIndex that has succeeded has left an index that takes all
\* of its keys, and no start-up of another instance, of any version, takes one away.
THEOREM ReadyStaysMapped == EnsureSpec => []ReadyMeansMapped
<1>1. IndexInv => ReadyMeansMapped
  BY DEF IndexInv
<1> QED
  BY <1>1, IndexInvariant, PTL

\* NeverDynamicAgain: after an instance's success no deletion and no automatic creation
\* ends in an index of dynamic mapping, the template having been written first.
THEOREM NeverDynamicWhileRunning == EnsureSpec => []NeverDynamicAgain
<1>1. IndexInv => NeverDynamicAgain
  BY DEF IndexInv
<1> QED
  BY <1>1, IndexInvariant, PTL
=============================================================================
