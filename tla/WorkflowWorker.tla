--------------------------- MODULE WorkflowWorker ---------------------------
(***************************************************************************)
(* The workflow worker, src/qairt_agent/jobs/worker.py: it drives the      *)
(* stages of a job over the engine (Continuation) and its own journal, and *)
(* decides what a resumed job or a rerun of another job may reuse.         *)
(*                                                                         *)
(* Several jobs share the manifest store.  A job is executed by one worker *)
(* at a time, which may be killed between any two writes; a resume starts  *)
(* another one, which has only the journal and the store to go by.         *)
(*                                                                         *)
(* Journal calls are atomic here (JobJournal has their steps).  The states *)
(* QUEUED, RUNNING (every in-flight state, and ORPHANED, through which a   *)
(* resumed job passes) and the terminal ones are told apart.               *)
(***************************************************************************)
EXTENDS ManifestStore, SequencesExt

CONSTANTS
    Plans,       \* sequences of stages a job may be submitted with
    Specs,       \* workflow specs: the configuration of every stage
    Build,       \* the stage that needs no manifest
    MaxRevisions,\* bound: revisions published, of all runs
    MaxCrashes   \* bound: workers killed

ASSUME PlanAssumption ==
    /\ Build \in StageNames
    /\ Specs \subseteq [StageNames -> Configs]
    /\ \A plan \in Plans : plan \in Seq(StageNames) /\ plan # <<>>

\* The worker of a job publishes in its name.
Jobs == Publishers

VARIABLES
    task, result,   \* the engine, see Continuation
    journal,        \* the journal of each job, NoRef before it exists
    worker,         \* the locals of _run_claimed of each job's worker and its
                    \* next write (pc), NoRef when none is alive
    crashes

vars == <<store, task, result, journal, worker, crashes>>

Engine == INSTANCE Continuation

Terminal == {"SUCCEEDED", "FAILED", "CANCELLED"}

\* Keys identify the manifest a stage reads, its stage and its configuration.
Key == [name : StageNames, cfg : Configs, input : Ref \cup {NoRef}]

\* StageReceipt.  out is the last output, a manifest; copied is the metric
\* reused_from_parent.
Receipt == [key : Key, attempt : Nat, ok : BOOLEAN, out : Ref \cup {NoRef},
            copied : BOOLEAN]

\* Why a manifest is forked: before which stage, if any.
Reason == [why : {"initial", "reused"}, stage : StageNames \cup {NoRef}]

\* state.json, receipts/, the stage_started and manifest_forked events, the
\* cancel file, and what prepare() saved in the launcher.
Journal ==
    [st       : Terminal \cup {"QUEUED", "RUNNING"},
     manifest : Ref \cup {NoRef},
     receipts : SUBSET Receipt,
     started  : Seq([key : Key, attempt : Nat]),
     forks    : SUBSET [source : Ref, reason : Reason, fork : Ref],
     cancel   : BOOLEAN,
     plan     : Plans,
     spec     : Specs,
     initial  : Ref \cup {NoRef},
     parent   : Jobs \cup {NoRef}]

\* The locals of _run_claimed: the next write, the index of the stage, and what
\* it holds between two writes.
Worker == [pc : {"stage", "key", "reuse", "fork", "forked", "adopt", "start",
                 "engine", "running", "commit", "failed", "collect"},
           idx : Nat, manifest : Ref \cup {NoRef}, initialPending : BOOLEAN,
           reusedPending : BOOLEAN, next : Ref \cup {NoRef}, copied : BOOLEAN,
           reason : Reason, attempt : Nat]

\* NoRef is no journal and no worker.
ASSUME NoneAssumption == NoRef \notin Journal /\ NoRef \notin Worker

NoReason == [why |-> "reused", stage |-> NoRef]

Init ==
    /\ Engine!Init
    /\ journal = [j \in Jobs |-> NoRef]
    /\ worker = [j \in Jobs |-> NoRef]
    /\ crashes = 0

-----------------------------------------------------------------------------
(* Helpers of the worker.                                                  *)

Stage(j) == journal[j].plan[worker[j].idx]
Config(j) == journal[j].spec[Stage(j)]
AtEnd(j) == worker[j].idx > Len(journal[j].plan)

\* Fault: the snapshot's own digest goes into the key.
ManifestIdentityOwn(ref) == ref

\* _manifest_stage_key_identity: a fork snapshot stands for its source.
ManifestIdentity(ref) ==
    IF ref # NoRef /\ ref.rev = 0 /\ Load(ref).source # NoRef
    THEN Load(ref).source
    ELSE ref

\* _stage_key: the build key does not depend on a manifest.
StageKey(j) ==
    [name  |-> Stage(j), cfg |-> Config(j),
     input |-> IF Stage(j) = Build THEN NoRef
               ELSE ManifestIdentity(worker[j].manifest)]

\* receipt_for_stage_key: the receipts that succeeded, for a key.
Verified(j, key) == {q \in journal[j].receipts : q.ok /\ q.key = key}

\* Fault: a started attempt without a receipt is forgotten.
JournalAttemptReceipts(j, key) ==
    1 + Max({0} \cup {q.attempt : q \in {r \in journal[j].receipts : r.key = key}})

\* _next_attempt: receipts and stage_started events reserve attempt numbers.
JournalAttempt(j, key) ==
    1 + Max({0}
            \cup {q.attempt : q \in {r \in journal[j].receipts : r.key = key}}
            \cup {q.attempt : q \in {e \in ToSet(journal[j].started) :
                                        e.key = key}})

\* Fault: what the manifest records of earlier jobs is not looked at.
AttemptWithoutFloor(j) == JournalAttempt(j, StageKey(j))

\* _run_claimed: at least _manifest_attempt_floor.
Attempt(j) ==
    Max({JournalAttempt(j, StageKey(j))}
        \cup (IF worker[j].manifest = NoRef THEN {1}
              ELSE {NextAttempt(worker[j].manifest, Stage(j))}))

Goto(j, w) == worker' = [worker EXCEPT ![j] = w]
Write(j, entry) == journal' = [journal EXCEPT ![j] = entry]

-----------------------------------------------------------------------------
(* The client, src/qairt_agent/agent.py.                                   *)

Prepared(plan, spec, initial, parent) ==
    [st |-> "QUEUED", manifest |-> NoRef, receipts |-> {}, started |-> <<>>,
     forks |-> {}, cancel |-> FALSE, plan |-> plan, spec |-> spec,
     initial |-> initial, parent |-> parent]

\* QairtAgentClient.submit and prepare.
Submit(j, plan, spec) ==
    /\ journal[j] = NoRef
    /\ Write(j, Prepared(plan, spec, NoRef, NoRef))
    /\ UNCHANGED <<store, task, result, worker, crashes>>

\* submit(from_job): the manifest that the other job has at this time.
SubmitFrom(j, plan, spec, other) ==
    /\ journal[j] = NoRef
    /\ journal[other] # NoRef
    /\ Write(j, Prepared(plan, spec, journal[other].manifest, NoRef))
    /\ UNCHANGED <<store, task, result, worker, crashes>>

\* rerun: the parent's stages, with the parent as a source of receipts.
Rerun(j, spec, parent) ==
    /\ journal[j] = NoRef
    /\ journal[parent] # NoRef
    /\ Write(j, Prepared(journal[parent].plan, spec, NoRef, parent))
    /\ UNCHANGED <<store, task, result, worker, crashes>>

\* JobHandle.cancel.
RequestCancel(j) ==
    /\ journal[j] # NoRef
    /\ journal[j].st \notin Terminal
    /\ ~journal[j].cancel
    /\ Write(j, [journal[j] EXCEPT !.cancel = TRUE])
    /\ UNCHANGED <<store, task, result, worker, crashes>>

\* WorkflowWorker.run up to the loop of _run_claimed: under the lease, so no
\* other worker is alive; resume and execute clear a pending cancellation
\* first, the thread that submit starts does not.
Claim(j, clear) ==
    LET given == journal[j].manifest = NoRef
    IN  /\ journal[j] # NoRef
        /\ worker[j] = NoRef
        /\ journal[j].st \notin Terminal
        /\ Write(j, [journal[j] EXCEPT !.st = "RUNNING",
                                       !.cancel = @ /\ ~clear])
        /\ Goto(j, [pc |-> "stage", idx |-> 1,
                    manifest |-> IF given THEN journal[j].initial
                                 ELSE journal[j].manifest,
                    initialPending |-> given /\ journal[j].initial # NoRef,
                    reusedPending |-> FALSE, next |-> NoRef, copied |-> FALSE,
                    reason |-> NoReason, attempt |-> 0])
        /\ UNCHANGED <<store, task, result, crashes>>

-----------------------------------------------------------------------------
(* The loop of _run_claimed.                                               *)

At(j, pc) == worker[j] # NoRef /\ worker[j].pc = pc

Finish(j, st, manifest) ==
    /\ Write(j, [journal[j] EXCEPT !.st = st, !.manifest = manifest])
    /\ Goto(j, NoRef)
    /\ UNCHANGED <<store, task, result, crashes>>

\* The cancel file is looked at before every stage.
Cancel(j) ==
    /\ At(j, "stage") /\ ~AtEnd(j)
    /\ journal[j].cancel
    /\ Finish(j, "CANCELLED", journal[j].manifest)

\* An initial manifest is forked before the first stage.
BeginStage(j) ==
    /\ At(j, "stage") /\ ~AtEnd(j)
    /\ ~journal[j].cancel
    /\ Goto(j, IF worker[j].initialPending
               THEN [worker[j] EXCEPT !.pc = "fork", !.reason =
                        [why |-> "initial", stage |-> Stage(j)]]
               ELSE [worker[j] EXCEPT !.pc = "key"])
    /\ UNCHANGED <<store, task, result, journal, crashes>>

\* _try_reuse and what follows it: a receipt of this job, a receipt of the
\* parent (recorded again here), a fork of what was reused so far, or the
\* stage itself.
Reuse(j, w, q) == [w EXCEPT !.pc = "reuse", !.next = q.out, !.copied = q.copied]

Copied(j, q) ==
    [q EXCEPT !.attempt = JournalAttempt(j, q.key), !.copied = TRUE]

ReuseOwn(j) ==
    /\ At(j, "key")
    /\ \E q \in Verified(j, StageKey(j)) : Goto(j, Reuse(j, worker[j], q))
    /\ UNCHANGED <<store, task, result, journal, crashes>>

ReuseParent(j) ==
    /\ At(j, "key")
    /\ Verified(j, StageKey(j)) = {}
    /\ journal[j].parent # NoRef
    /\ \E q \in Verified(journal[j].parent, StageKey(j)) :
          /\ Write(j, [journal[j] EXCEPT !.receipts = @ \cup {Copied(j, q)}])
          /\ Goto(j, Reuse(j, worker[j], Copied(j, q)))
    /\ UNCHANGED <<store, task, result, crashes>>

\* Fault: what was reused is continued without a fork.
ReuseNothingNoFork(j) ==
    /\ At(j, "key")
    /\ Verified(j, StageKey(j)) = {}
    /\ journal[j].parent # NoRef => Verified(journal[j].parent, StageKey(j)) = {}
    /\ Goto(j, [worker[j] EXCEPT !.pc = "start"])
    /\ UNCHANGED <<store, task, result, journal, crashes>>

ReuseNothing(j) ==
    /\ At(j, "key")
    /\ Verified(j, StageKey(j)) = {}
    /\ journal[j].parent # NoRef => Verified(journal[j].parent, StageKey(j)) = {}
    /\ Goto(j, IF worker[j].reusedPending /\ worker[j].manifest # NoRef
               THEN [worker[j] EXCEPT !.pc = "fork", !.reason =
                        [why |-> "reused", stage |-> Stage(j)]]
               ELSE [worker[j] EXCEPT !.pc = "start"])
    /\ UNCHANGED <<store, task, result, journal, crashes>>

\* stage_reused, then ManifestPublisher.commit.
CommitReused(j) ==
    /\ At(j, "reuse")
    /\ Write(j, [journal[j] EXCEPT !.manifest = worker[j].next])
    /\ Goto(j, [worker[j] EXCEPT !.pc = "stage", !.idx = @ + 1,
                                 !.manifest = worker[j].next,
                                 !.reusedPending = worker[j].copied])
    /\ UNCHANGED <<store, task, result, crashes>>

\* _fork_reused_manifest: a fork that the journal records is used again.
RecordedForks(j) ==
    {f \in journal[j].forks :
        f.source = worker[j].manifest /\ f.reason = worker[j].reason}

ForkAgain(j) ==
    /\ At(j, "fork")
    /\ \E f \in RecordedForks(j) :
          Goto(j, [worker[j] EXCEPT !.pc = "adopt", !.next = f.fork])
    /\ UNCHANGED <<store, task, result, journal, crashes>>

\* Otherwise a new run is forked in the store ...
Fork(j, run) ==
    /\ At(j, "fork")
    /\ RecordedForks(j) = {}
    /\ Engine!Fork(j, worker[j].manifest, run)
    /\ Goto(j, [worker[j] EXCEPT !.pc = "forked", !.next =
                   RefOf(Snapshot(worker[j].manifest, run, j))])
    /\ UNCHANGED <<journal, crashes>>

\* ... and then recorded by a manifest_forked event.
RecordFork(j) ==
    /\ At(j, "forked")
    /\ Write(j, [journal[j] EXCEPT !.forks = @ \cup
                    {[source |-> worker[j].manifest,
                      reason |-> worker[j].reason, fork |-> worker[j].next]}])
    /\ Goto(j, [worker[j] EXCEPT !.pc = "adopt"])
    /\ UNCHANGED <<store, task, result, crashes>>

\* The fork is committed.  An initial fork comes before the stage's key, one
\* that was forced by reuse leads to the stage, or to the end of the job.
AdoptFork(j) ==
    LET w == [worker[j] EXCEPT !.manifest = worker[j].next]
    IN  /\ At(j, "adopt")
        /\ Write(j, [journal[j] EXCEPT !.manifest = worker[j].next])
        /\ Goto(j, IF w.reason.why = "initial"
                   THEN [w EXCEPT !.pc = "key", !.initialPending = FALSE]
                   ELSE [w EXCEPT !.pc = IF AtEnd(j) THEN "collect" ELSE "start",
                                  !.reusedPending = FALSE])
        /\ UNCHANGED <<store, task, result, crashes>>

\* resume_after_manifest_fork: the key is computed again for the fork.
ReuseAfterFork(j) ==
    /\ At(j, "start")
    /\ \E q \in Verified(j, StageKey(j)) :
          Goto(j, [Reuse(j, worker[j], q) EXCEPT !.copied = FALSE])
    /\ UNCHANGED <<store, task, result, journal, crashes>>

\* The stage_started event reserves the attempt.
StartStage(j) ==
    /\ At(j, "start")
    /\ Verified(j, StageKey(j)) = {}
    /\ Write(j, [journal[j] EXCEPT !.started =
                    Append(@, [key |-> StageKey(j), attempt |-> Attempt(j)])])
    /\ Goto(j, [worker[j] EXCEPT !.pc = "engine", !.attempt = Attempt(j)])
    /\ UNCHANGED <<store, task, result, crashes>>

\* EngineStageRunner: build starts a run, every other stage continues the
\* manifest.
CallBuild(j, run) ==
    /\ At(j, "engine")
    /\ Stage(j) = Build
    /\ Engine!StartRun(j, run, Build, Config(j), worker[j].attempt)
    /\ Goto(j, [worker[j] EXCEPT !.pc = "running"])
    /\ UNCHANGED <<journal, crashes>>

CallContinue(j) ==
    /\ At(j, "engine")
    /\ Stage(j) # Build
    /\ worker[j].manifest # NoRef
    /\ Engine!Continue(j, worker[j].manifest, Stage(j), Config(j),
                       worker[j].attempt)
    /\ Goto(j, [worker[j] EXCEPT !.pc = "running"])
    /\ UNCHANGED <<journal, crashes>>

StageReceipt(j, ok, out) ==
    [key |-> StageKey(j), attempt |-> worker[j].attempt, ok |-> ok,
     out |-> out, copied |-> FALSE]

StageFailed(j) ==
    /\ Write(j, [journal[j] EXCEPT !.receipts =
                    @ \cup {StageReceipt(j, FALSE, NoRef)}])
    /\ Goto(j, [worker[j] EXCEPT !.pc = "failed"])
    /\ UNCHANGED <<store, task, result, crashes>>

\* _require_manifest raises, and the stage has failed.
CallWithoutManifest(j) ==
    /\ At(j, "engine")
    /\ Stage(j) # Build
    /\ worker[j].manifest = NoRef
    /\ StageFailed(j)

EngineStep(j) ==
    /\ At(j, "running")
    /\ \/ \E ok \in BOOLEAN : Engine!Operate(j, ok)
       \/ Engine!PublishStage(j)
       \/ Engine!LostRace(j)
    /\ UNCHANGED <<journal, worker, crashes>>

\* The engine has returned: the receipt of a success, and then its manifest.
RecordSuccess(j) ==
    /\ At(j, "running")
    /\ task[j] = Engine!Idle
    /\ result[j].ok
    /\ Write(j, [journal[j] EXCEPT !.receipts =
                    @ \cup {StageReceipt(j, TRUE, result[j].manifest)}])
    /\ Goto(j, [worker[j] EXCEPT !.pc = "commit", !.next = result[j].manifest])
    /\ UNCHANGED <<store, task, result, crashes>>

CommitStage(j) ==
    /\ At(j, "commit")
    /\ Write(j, [journal[j] EXCEPT !.manifest = worker[j].next])
    /\ Goto(j, [worker[j] EXCEPT !.pc = "stage", !.idx = @ + 1,
                                 !.manifest = worker[j].next])
    /\ UNCHANGED <<store, task, result, crashes>>

\* ToolResult.failure is raised by the runner: the failed receipt ...
RecordFailure(j) ==
    /\ At(j, "running")
    /\ task[j] = Engine!Idle
    /\ ~result[j].ok
    /\ StageFailed(j)

\* ... and then the state FAILED.
Fail(j) ==
    /\ At(j, "failed")
    /\ Finish(j, "FAILED", journal[j].manifest)

\* Fault: a job whose stages were all reused ends with the parent's manifest.
EndOfStagesNoFork(j) ==
    /\ At(j, "stage") /\ AtEnd(j)
    /\ Goto(j, [worker[j] EXCEPT !.pc = "collect"])
    /\ UNCHANGED <<store, task, result, journal, crashes>>

\* All stages done: what was only reused is forked at last.
EndOfStages(j) ==
    /\ At(j, "stage") /\ AtEnd(j)
    /\ Goto(j, IF worker[j].reusedPending /\ worker[j].manifest # NoRef
               THEN [worker[j] EXCEPT !.pc = "fork", !.reason = NoReason]
               ELSE [worker[j] EXCEPT !.pc = "collect"])
    /\ UNCHANGED <<store, task, result, journal, crashes>>

\* COLLECTING, COMMITTING, SUCCEEDED.
Succeed(j) ==
    /\ At(j, "collect")
    /\ Finish(j, "SUCCEEDED", worker[j].manifest)

\* The worker is killed: its lease is released, the engine's call is lost.
Crash(j) ==
    /\ worker[j] # NoRef
    /\ crashes < MaxCrashes
    /\ crashes' = crashes + 1
    /\ Goto(j, NoRef)
    /\ task' = [task EXCEPT ![j] = Engine!Idle]
    /\ UNCHANGED <<store, result, journal>>

-----------------------------------------------------------------------------
WorkerStep(j) ==
    \/ Cancel(j)
    \/ BeginStage(j)
    \/ ReuseOwn(j)
    \/ ReuseParent(j)
    \/ ReuseNothing(j)
    \/ CommitReused(j)
    \/ ForkAgain(j)
    \/ \E run \in Runs : Fork(j, run) \/ CallBuild(j, run)
    \/ RecordFork(j)
    \/ AdoptFork(j)
    \/ ReuseAfterFork(j)
    \/ StartStage(j)
    \/ CallContinue(j)
    \/ CallWithoutManifest(j)
    \/ EngineStep(j)
    \/ RecordSuccess(j)
    \/ CommitStage(j)
    \/ RecordFailure(j)
    \/ Fail(j)
    \/ EndOfStages(j)
    \/ Succeed(j)

ClientStep(j) ==
    \/ \E spec \in Specs, plan \in Plans :
          \/ Submit(j, plan, spec)
          \/ \E other \in Jobs : SubmitFrom(j, plan, spec, other)
    \/ \E spec \in Specs, parent \in Jobs : Rerun(j, spec, parent)
    \/ RequestCancel(j)
    \/ \E clear \in BOOLEAN : Claim(j, clear)

Bounded == Cardinality(store') <= MaxRevisions

Next ==
    \E j \in Jobs : (ClientStep(j) \/ WorkerStep(j) \/ Crash(j)) /\ Bounded

Spec == Init /\ [][Next]_vars

-----------------------------------------------------------------------------
(* Properties.                                                             *)

Exists(j) == journal[j] # NoRef

\* Fork isolation: a run is written by one job only, whatever is reused,
\* resumed or rerun; a rerun never extends the chain of its parent.
RunsHaveOneWriter ==
    \A a, b \in store : a.run = b.run => a.by = b.by

\* docs/native-workflow.md: incomplete attempts are never reused.  Every
\* execution of a stage has an attempt directory of its own, also after a hard
\* kill, and no two receipts claim one file.
AttemptsFresh ==
    \A j \in Jobs : Exists(j) =>
       /\ IsInjective(journal[j].started)
       /\ \A a, b \in journal[j].receipts :
             a.key = b.key /\ a.attempt = b.attempt => a = b

\* RunManifest.validate_revision_chain: a manifest with two records of one attempt
\* at a stage is refused.  Whatever the journal and the manifest, which a job may
\* be given, inherit from a parent or fork, have counted apart from each other, the
\* attempt of the stage that is being executed can be published.
AttemptsAccepted ==
    \A j \in Jobs :
        /\ worker[j] # NoRef /\ worker[j].pc \in {"engine", "running"}
        /\ worker[j].manifest # NoRef
        => \A ok \in BOOLEAN :
             Valid(Revised(worker[j].manifest,
                           [name |-> Stage(j), cfg |-> Config(j),
                            attempt |-> worker[j].attempt, ok |-> ok], j))

\* A job that succeeded has a receipt of every stage of its plan, and its
\* manifest, in a run of its own, records a success of each of these stages
\* with the job's configuration.
SucceededComplete ==
    \A j \in Jobs : Exists(j) /\ journal[j].st = "SUCCEEDED" =>
       /\ journal[j].manifest \in Published
       /\ journal[j].manifest.by = j
       /\ \A i \in DOMAIN journal[j].plan :
             LET name == journal[j].plan[i]
                 cfg  == journal[j].spec[name]
             IN  /\ \E q \in journal[j].receipts :
                       q.ok /\ q.key.name = name /\ q.key.cfg = cfg
                 /\ \E e \in ToSet(Load(journal[j].manifest).log) :
                       e.ok /\ e.name = name /\ e.cfg = cfg

\* worker.py:10 -- "resume skips any stage whose verified receipt already
\* exists in this journal": a stage succeeds at most once in a job.
RunsStagesOnce(j) ==
    \A a, b \in journal[j].receipts :
       a.ok /\ b.ok /\ a.key.name = b.key.name => a = b

StagesRunOnce == \A j \in Jobs : Exists(j) => RunsStagesOnce(j)

\* The same of the jobs that build their own manifest: kills, resumes and
\* receipts taken over from a parent never make them run a stage again.
BuiltStagesRunOnce ==
    \A j \in Jobs : Exists(j) /\ journal[j].initial = NoRef => RunsStagesOnce(j)

=============================================================================
