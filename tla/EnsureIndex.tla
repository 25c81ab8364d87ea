----------------------------- MODULE EnsureIndex -----------------------------
(***************************************************************************)
(* Store.EnsureIndex (zenalog/es/store.go) as several instances of a       *)
(* service run it at start-up against one cluster: each writes the index   *)
(* template, looks for the index, and creates it or completes its settings *)
(* and mapping.  The instances may be of different versions and register   *)
(* different attr keys.  Meanwhile an operator may delete the index, and   *)
(* any write to a missing index makes the cluster create it: from the      *)
(* template if there is one, by dynamic mapping otherwise.                 *)
(***************************************************************************)
EXTENDS Naturals

CONSTANTS
    Instances,
    Keys,       \* attr keys
    KeysOf,     \* Config.AttrKeys of each instance
    Addresses,  \* addresses client.do tries for one request
    MaxDeletes, \* bound: how often the index is deleted
    Absent, Dynamic

ASSUME KeysAssumption ==
    /\ KeysOf \in [Instances -> SUBSET Keys]
    /\ Addresses \in Nat \ {0} /\ MaxDeletes \in Nat
    /\ Absent # Dynamic /\ \A S \in SUBSET Keys : S \notin {Absent, Dynamic}

VARIABLES
    template,   \* the keys of the index template, or Absent
    index,      \* the keys of the index's strict mapping, Absent, or Dynamic
    window,     \* the index has max_inner_result_window raised
    progress,   \* the request each instance is at
    tries,      \* addresses that request has failed on
    deleted,    \* history: the index was deleted since the instance became ready
    deletes,    \* number of deletions so far
    quiet       \* the cluster answers from now on, and nobody meddles with it

esVars == <<template, index, window>>
ensureVars == <<esVars, progress, tries, deleted, deletes, quiet>>

Requests == {"template", "head", "create", "settings", "mapping"}

EnsureTypeOK ==
    /\ template \in {Absent} \cup SUBSET Keys
    /\ index \in {Absent, Dynamic} \cup SUBSET Keys
    /\ window \in BOOLEAN
    /\ progress \in [Instances -> Requests \cup {"ready", "failed"}]
    /\ tries \in [Instances -> 0..(Addresses - 1)]
    /\ deleted \in [Instances -> BOOLEAN]
    /\ deletes \in 0..MaxDeletes
    /\ quiet \in BOOLEAN

\* A fresh cluster, an index left by an earlier version of the library, or one
\* that the cluster has created by itself.
EnsureInit ==
    /\ template = Absent
    /\ index \in {Absent, Dynamic} \cup SUBSET Keys
    /\ window \in (IF index = Absent THEN {FALSE} ELSE BOOLEAN)
    /\ progress = [i \in Instances |-> "template"]
    /\ tries = [i \in Instances |-> 0]
    /\ deleted = [i \in Instances |-> FALSE]
    /\ deletes = 0 /\ quiet = FALSE
-----------------------------------------------------------------------------
(* What the cluster and its operators do.                                  *)

\* Failures, deletions and writes that come before any template are over.
Calm ==
    /\ ~quiet /\ quiet' = TRUE
    /\ UNCHANGED <<esVars, progress, tries, deleted, deletes>>

IsStrict(x) == x \notin {Absent, Dynamic}

\* Template keys join those of the request that creates the index.
TemplateKeys == IF template = Absent THEN {} ELSE template

\* A write finds no index.
AutoCreate ==
    /\ index = Absent
    /\ template # Absent \/ ~quiet
    /\ index' = IF template = Absent THEN Dynamic ELSE template
    /\ window' = (template # Absent)
    /\ UNCHANGED <<template, progress, tries, deleted, deletes, quiet>>

Delete ==
    /\ ~quiet /\ index # Absent /\ deletes < MaxDeletes
    /\ index' = Absent /\ window' = FALSE
    /\ deletes' = deletes + 1
    /\ deleted' = [i \in Instances |-> deleted[i] \/ progress[i] = "ready"]
    /\ UNCHANGED <<template, progress, tries, quiet>>
-----------------------------------------------------------------------------
(* EnsureIndex of instance i.                                              *)

Goto(i, next) ==
    /\ progress' = [progress EXCEPT ![i] = next]
    /\ tries' = [tries EXCEPT ![i] = 0]
    /\ deleted' = [deleted EXCEPT ![i] = FALSE]
    /\ UNCHANGED <<deletes, quiet>>

\* EnsureIndex returns an error, and so does New.
Fail(i) ==
    /\ progress' = [progress EXCEPT ![i] = "failed"]
    /\ tries' = [tries EXCEPT ![i] = 0]
    /\ UNCHANGED <<deleted, deletes, quiet>>

\* No answer: client.do sends the request to the next address, if any.
Unanswered(i) ==
    /\ ~quiet
    /\ IF tries[i] + 1 < Addresses
         THEN /\ tries' = [tries EXCEPT ![i] = @ + 1]
              /\ UNCHANGED <<progress, deleted, deletes, quiet>>
         ELSE Fail(i)

\* The request never got there, or its answer is another status.
RequestFails(i) ==
    /\ progress[i] \in Requests /\ ~quiet
    /\ Unanswered(i) \/ Fail(i)
    /\ UNCHANGED esVars

\* Altered: no template is written.
PutTemplateSkipped(i) ==
    /\ progress[i] = "template"
    /\ Goto(i, "head")
    /\ UNCHANGED esVars

\* PUT /_template/{index}-template: the last writer's keys stand.
PutTemplate(i) ==
    /\ progress[i] = "template"
    /\ template' = KeysOf[i]
    /\ Goto(i, "head") \/ Unanswered(i)
    /\ UNCHANGED <<index, window>>

\* Altered: the index is taken to be missing.
HeadIgnored(i) ==
    /\ progress[i] = "head"
    /\ Goto(i, "create")
    /\ UNCHANGED esVars

\* HEAD /{index}
HeadIndex(i) ==
    /\ progress[i] = "head"
    /\ Goto(i, IF index = Absent THEN "create" ELSE "settings")
    /\ UNCHANGED esVars

\* PUT /{index}: an index that is there by now is an error.
Create(i) ==
    /\ progress[i] = "create"
    /\ \/ /\ index = Absent
          /\ index' = KeysOf[i] \cup TemplateKeys
          /\ window' = TRUE
          /\ Goto(i, "ready") \/ Unanswered(i)
       \/ /\ index # Absent
          /\ Fail(i)
          /\ UNCHANGED <<index, window>>
    /\ UNCHANGED template

\* PUT /{index}/_settings
PutSettings(i) ==
    /\ progress[i] = "settings"
    /\ \/ index = Absent /\ Fail(i) /\ UNCHANGED window
       \/ index # Absent /\ window' = TRUE /\ (Goto(i, "mapping") \/ Unanswered(i))
    /\ UNCHANGED <<template, index>>

\* Altered: the mapping of an existing index is left as it is.
PutMappingSkipped(i) ==
    /\ progress[i] = "mapping"
    /\ Goto(i, "ready")
    /\ UNCHANGED esVars

\* PUT /{index}/_mapping: keys are added, a field's type is never changed.
PutMapping(i) ==
    /\ progress[i] = "mapping"
    /\ \/ index = Absent /\ Fail(i) /\ UNCHANGED index
       \/ index = Dynamic /\ Fail(i) /\ UNCHANGED index
       \/ /\ IsStrict(index)
          /\ index' = index \cup KeysOf[i]
          /\ Goto(i, "ready") \/ Unanswered(i)
    /\ UNCHANGED <<template, window>>

\* The service is started again, after a failure or for a new deployment.
Restart(i) ==
    /\ progress[i] \in {"ready", "failed"}
    /\ progress' = [progress EXCEPT ![i] = "template"]
    /\ deleted' = [deleted EXCEPT ![i] = FALSE]
    /\ UNCHANGED <<esVars, tries, deletes, quiet>>
-----------------------------------------------------------------------------
Ensure(i) == PutTemplate(i) \/ HeadIndex(i) \/ Create(i) \/ PutSettings(i) \/ PutMapping(i)

EnsureNext ==
    \/ \E i \in Instances : Ensure(i) \/ RequestFails(i) \/ Restart(i)
    \/ AutoCreate \/ Delete \/ Calm

EnsureSpec == EnsureInit /\ [][EnsureNext]_ensureVars

\* A supervisor restarts an instance whose start-up failed.
EnsureFairSpec ==
    EnsureSpec /\ \A i \in Instances :
                    /\ WF_ensureVars(Ensure(i))
                    /\ WF_ensureVars(progress[i] = "failed" /\ Restart(i))
-----------------------------------------------------------------------------
(* Safety.                                                                 *)

\* New returns without error only when the index takes every registered key and
\* by-trace queries, and this lasts until somebody deletes the index: no other
\* instance's start-up, of whatever version, takes a key away.
ReadyMeansMapped ==
    \A i \in Instances : progress[i] = "ready" /\ ~deleted[i] =>
        IsStrict(index) /\ KeysOf[i] \subseteq index /\ window

\* While an instance runs the index is never one of dynamic mapping, also after
\* a deletion: the reason the template is written before anything else.
NeverDynamicAgain == \A i \in Instances : progress[i] = "ready" => index # Dynamic
-----------------------------------------------------------------------------
(* Liveness.                                                               *)

\* Once the cluster answers and nobody deletes the index, restarting brings up
\* every instance, unless the index is one of dynamic mapping: losing the race to
\* create it, to another instance or to an automatic creation, is not for ever.
EventuallyReady ==
    \A i \in Instances : (quiet /\ index # Dynamic) ~> (progress[i] = "ready")
=============================================================================
