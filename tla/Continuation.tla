---------------------------- MODULE Continuation ----------------------------
(***************************************************************************)
(* The engine's stage operations over the manifest store,                  *)
(* src/qairt_agent/pipeline.py: a stage either starts a run or continues a *)
(* published manifest, and ends by publishing a revision that records its  *)
(* success or failure.  Several processes may continue the same manifest;  *)
(* the first to publish wins and the others return what it published.      *)
(***************************************************************************)
EXTENDS ManifestStore

CONSTANTS
    MaxRevisions \* bound: revisions published, of all runs

VARIABLES
    task,        \* the operation each publisher is in, its base and its entry
    result       \* the ToolResult each publisher returned, until it calls again

vars == <<store, task, result>>

\* ToolResult: what was asked, the outcome and the manifest it names.
Result == [base : Ref, name : StageNames, cfg : Configs, ok : BOOLEAN,
           manifest : Ref]

Idle == [pc |-> "idle", base |-> NoRef, entry |-> NoRef, initial |-> FALSE]

Init ==
    /\ store = {}
    /\ task = [r \in Publishers |-> Idle]
    /\ result = [r \in Publishers |-> NoRef]

Answer(r, ok, ref) ==
    [base |-> task[r].base, name |-> task[r].entry.name,
     cfg |-> task[r].entry.cfg, ok |-> ok, manifest |-> ref]

Return(r, answer) ==
    /\ result' = [result EXCEPT ![r] = answer]
    /\ task' = [task EXCEPT ![r] = Idle]

\* A call begins; the answer to the one before has been used.
Begin(r, base, entry, initial) ==
    /\ task' = [task EXCEPT ![r] = [pc |-> "running", base |-> base,
                                    entry |-> entry, initial |-> initial]]
    /\ result' = [result EXCEPT ![r] = NoRef]

\* Fault: a child of the same stage is reused whatever its configuration.
ReusableAnyConfig(child, name, cfg) ==
    /\ child.log # <<>>
    /\ LastEntry(child).name = name

\* _reuse_child_result: the child records the same stage with the same key.
Reusable(child, name, cfg) ==
    /\ child.log # <<>>
    /\ LastEntry(child).name = name
    /\ LastEntry(child).cfg = cfg

\* _reuse_child_result: the child's own outcome is returned; a child of
\* another stage is a ManifestConflictError that names it.
ChildResult(base, child, name, cfg) ==
    [base |-> base, name |-> name, cfg |-> cfg,
     ok |-> Reusable(child, name, cfg) /\ LastEntry(child).ok,
     manifest |-> RefOf(child)]

\* _initial_operation: a new run with an empty revision 0.  The attempt comes
\* from the execution context, or is 1.
StartRun(r, run, name, cfg, attempt) ==
    /\ task[r] = Idle
    /\ run \in NewRuns
    /\ Publish(Created(run, r))
    /\ Begin(r, RefOf(Created(run, r)),
             [name |-> name, cfg |-> cfg, attempt |-> attempt, ok |-> TRUE],
             TRUE)

\* _continuation_operation up to the operation: a manifest that has already
\* been continued is answered from its child.
Continue(r, ref, name, cfg, attempt) ==
    /\ task[r] = Idle
    /\ ref \in Published
    /\ IF Children(ref) = {}
       THEN Begin(r, ref, [name |-> name, cfg |-> cfg, attempt |-> attempt,
                           ok |-> TRUE], FALSE)
       ELSE /\ \E child \in Children(ref) :
                  result' = [result EXCEPT ![r] =
                                ChildResult(ref, child, name, cfg)]
            /\ UNCHANGED task
    /\ UNCHANGED store

\* The stage's own work, which takes minutes and may fail.
Operate(r, ok) ==
    /\ task[r].pc = "running"
    /\ task' = [task EXCEPT ![r].pc = "publish", ![r].entry.ok = ok]
    /\ UNCHANGED <<store, result>>

\* store.revise for a success, _failure_revision for a failure.
PublishStage(r) ==
    LET m == Revised(task[r].base, task[r].entry, r)
    IN  /\ task[r].pc = "publish"
        /\ IF Conflicts(m)
           THEN /\ task' = [task EXCEPT ![r].pc = "conflict"]
                /\ UNCHANGED <<store, result>>
           ELSE /\ Publish(m)
                /\ Return(r, Answer(r, task[r].entry.ok, RefOf(m)))

\* Fault: the loser reports its own outcome with the manifest that won.
LostRaceOwn(r) ==
    /\ task[r].pc = "conflict"
    /\ IF task[r].initial
       THEN Return(r, Answer(r, FALSE, task[r].base))
       ELSE \E child \in Children(task[r].base) :
               Return(r, Answer(r, task[r].entry.ok, RefOf(child)))
    /\ UNCHANGED store

\* Somebody else published first.  An initial operation reports the failure
\* with its own revision 0.  A continuation reads the child again and answers
\* as if it had found it at the start, whether its own stage succeeded or not.
LostRace(r) ==
    /\ task[r].pc = "conflict"
    /\ IF task[r].initial
       THEN Return(r, Answer(r, FALSE, task[r].base))
       ELSE \E child \in Children(task[r].base) :
               Return(r, ChildResult(task[r].base, child,
                                     task[r].entry.name, task[r].entry.cfg))
    /\ UNCHANGED store

\* ManifestStore.fork_snapshot by a worker that is about to diverge.
Fork(r, ref, run) ==
    /\ task[r] = Idle
    /\ ref \in Published
    /\ run \in NewRuns
    /\ Publish(Snapshot(ref, run, r))
    /\ UNCHANGED <<task, result>>

\* The process dies; what it published stays.
Crash(r) ==
    /\ task[r] # Idle
    /\ task' = [task EXCEPT ![r] = Idle]
    /\ UNCHANGED <<store, result>>

Step(r) ==
    \/ \E run \in Runs, n \in StageNames, c \in Configs :
          StartRun(r, run, n, c, 1)
    \/ \E ref \in Published, n \in StageNames, c \in Configs :
          Continue(r, ref, n, c, NextAttempt(ref, n))
    \/ \E ok \in BOOLEAN : Operate(r, ok)
    \/ PublishStage(r)
    \/ LostRace(r)
    \/ \E ref \in Published, run \in Runs : Fork(r, ref, run)
    \/ Crash(r)

Next == \E r \in Publishers : Step(r) /\ Cardinality(store') <= MaxRevisions

Spec == Init /\ [][Next]_vars

-----------------------------------------------------------------------------
Answers == {result[r] : r \in Publishers} \ {NoRef}

\* Processes that run the same stage with the same configuration on the same
\* manifest agree: no two of them are told different outcomes or manifests,
\* except a process that lost its own fresh run and was told so.
ResultsAgree ==
    \A a, b \in Answers :
       /\ a.base = b.base /\ a.name = b.name /\ a.cfg = b.cfg
       /\ a.manifest # a.base /\ b.manifest # b.base
       => a.ok = b.ok /\ a.manifest = b.manifest

\* A success names a published child of its input that records this very
\* stage, with this configuration, as succeeded.
SuccessIsPublished ==
    \A a \in Answers :
       a.ok => \E m \in Children(a.base) :
                  /\ RefOf(m) = a.manifest
                  /\ LastEntry(m).name = a.name /\ LastEntry(m).cfg = a.cfg
                  /\ LastEntry(m).ok

\* The store implements the abstract chains: a run's chain is the history of
\* its latest revision.
ChainOf(run) ==
    LET revs == {m \in store : m.run = run}
    IN  IF revs = {} THEN NoRef
        ELSE (CHOOSE m \in revs : \A x \in revs : x.rev <= m.rev).log

Chains == INSTANCE RunChains
             WITH Absent <- NoRef, chain <- [run \in Runs |-> ChainOf(run)]

ImplementsChains == Chains!Spec

=============================================================================
