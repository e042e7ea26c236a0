# qairt-agent: verification project

`qairt-agent` prepares, builds, validates and benchmarks models with the QAIRT
SDK. It is driven by a command line and an MCP server; the work is done by
detached worker processes, and everything that outlives a process is a file.
No process talks to another one directly: they share a job directory, a
manifest store, a lease directory and a device, and any of them may be killed
between two writes. The work itself is a chain of stages (build, validate,
benchmark, diagnose) that know of each other only what a manifest and its
runtime index say. This project models both, checks them with TLC on small
instances and proves their invariants and action properties with TLAPS.

Paths below are relative to `src/qairt_agent/` of the repository. `PROJECT.json`
lists the runs, the source lines behind every definition (`map`), the mutants
that show each property can fail, the hazards and the findings.

## 1. The system

| component | state it keeps | operations | who shares it |
|---|---|---|---|
| job journal `jobs/journal.py` | `state.json`, `events/*.json`, `receipts/*.json`, `cancel`, `heartbeat.json`, two lock files | create, append_event, set_state, record_receipt, request/clear_cancel, touch_heartbeat, mark_orphaned_if_stale, worker_lease | worker, its heartbeat helper, launchers, clients |
| workflow worker `jobs/worker.py` | locals only; everything else is in the journal and the store | run: claim, reuse, fork, execute, record, publish, finish | one per job by the lease |
| heartbeat helper `jobs/heartbeat.py` | none | beat while its parent lives | its worker |
| job client `agent.py` | none | prepare, submit, rerun, cancel, resume, execute | command line, MCP server |
| launcher and watch `cli.py` | none | spawn a worker and wait for its claim; follow a job | users |
| manifest store `artifacts.py` | one immutable file per manifest revision | create, revise, fork_snapshot, publish | all workers, direct callers |
| stage engine `pipeline.py` | none | initial and continuing stage operations | worker, MCP, Python callers |
| device lease `device/lease.py` | owner record, heartbeat file, lock file | acquire, record, forget, release | attempts, `device gc` |
| device runtime `device/runtime.py`, `adb.py` | a directory on the device | stage an attempt, remove exactly it | stage attempts |
| collector `device/doctor.py` | none | scan, recheck, clean, reclaim | users, cron |
| QAIRT adapter `qairt_adapter/adapter.py` | accumulators of live models, minted evidence, `progress.jsonl`, contexts on disk | three lanes of building, compile_context, container graphs | the build stage, one instance per operation |
| build stages `pipeline_stages/build.py`, `planning.py` | artifacts of a manifest | plan, build, build_genai_container; bind vectors, publish routes and the runtime index | worker, direct callers |
| runtime index and chain `runtime/` | the index on the manifest; KV state between slices | select a binding, run slices in order | all stages after the build |
| execution stages `pipeline_stages/validate.py`, `benchmark*.py`, `diagnose.py`, `float_reference.py`, `execution.py`, `stage_tools.py` | reports on the manifest, executors on the device | validate, benchmark, diagnose, single steps; fan out over ARs | worker, direct callers |
| test vectors `vectors*.py`, `vector_retarget.py` | vector manifests | accept, reshape, capture goldens | build and validate |
| pure parts: `jobs/keys.py`, `harness.py`, `families/`, `compare.py`, `diagnostics/`, parsing in `adb.py` | none | computations | |
| glue: `docker/`, `apple_container/`, `project.py`, `contracts*.py` | none | command lines, data classes | |

How they interact. The launcher creates a journal in QUEUED, spawns a worker and
polls `state.json` until the state has left QUEUED, the worker has exited or a
timeout has passed. The worker takes the job's lease, starts a helper that beats
every few seconds, and advances the job: for every stage it derives a key from
the current manifest, looks for a receipt with that key, and otherwise calls the
engine, which publishes a new manifest revision; then it records a receipt and
publishes the manifest into `state.json`. A resume starts another worker which
has nothing but those files to go by. A rerun is a new job that may take
receipts over from its parent, and forks the parent's manifest before it writes.
A stage that needs a device takes the device's lease for one attempt.

A build turns an ONNX model into contexts: for every context length (CL) the
model is rewritten for each AR (the number of tokens per step: 1 to decode, 128
to prefill), split into slices, converted and compiled. It ends by publishing
slice routes (which slice takes which tensor from where) and a runtime index.
validate, benchmark and diagnose are called on that manifest, mostly without
naming anything: they select contexts and vectors from the index, run once for
every AR, and publish their reports as artifacts that later calls inherit and
read.

What makes it hard, and where the properties come from:

* **Two files, one commit.** The journal writes an event and then the state; a
  receipt is three writes. A kill may fall between any two.
* **Read, then lock, then write.** `append_event`, `set_state` and
  `record_receipt` read the status before they take the lock and write it back
  under it.
* **Nobody knows whether a worker is dead.** Only its heartbeat can be late, and
  a worker that is late may wake up after another one has taken over.
* **Races to publish.** Several processes may continue one manifest; the store
  serialises them, and the losers must answer as if they had come second.
* **Attempts are counted twice**, in the journal and in the manifest, and forks
  carry the counts of another run along.
* **Leases under kill.** The device's lease, its heartbeat and the remote
  directory are three things removed in an order that a kill or an adb error may
  cut anywhere, while a collector works from a scan that may be out of date.

* **Long builds that fail late.** Any call into the SDK may fail hours into a
  build; what is on disk and in the progress file by then must be true, what a
  compilation reads must still be in memory and little else, and an authorisation to compile
  unproven graphs together must not outlive the attempt it was for.
* **Separate computations that must agree.** The plan and the build, the routes
  and the contexts, the graph order of a container and the list of ARs, the
  inputs recorded from a timed run and the steps it is said to have had.
* **Reports about reports.** A diagnosis reads what a validation has summarised
  for several ARs, or a trace that a parent's benchmark has left behind.

The hazards in `PROJECT.json` give each of these its lines, and the properties
that would show it going wrong.

## 2. Modules

| module | models | notes |
|---|---|---|
| `JobJournal` | the journal's methods as steps of client processes | its own most general client |
| `JobJournalProofs` | | inductive invariant and theorems |
| `ManifestStore` | `artifacts.py` | operators over the variable `store`, no behaviour of its own |
| `ManifestStoreProofs` | | what holds of a store whatever uses it: lemmas, and `StoreInv` |
| `RunChains` | | abstract specification of the store: histories that only grow |
| `Continuation` | `pipeline.py`'s two operations over the store | implements `RunChains` |
| `ContinuationProofs` | | invariant of the engine; it implements `RunChains` |
| `WorkflowWorker` | `jobs/worker.py` and `agent.py` over several jobs | INSTANCEs `Continuation` as its engine |
| `WorkflowWorkerProofs` | | who writes a run, which attempts and receipts are whose; what a job has done when it ends, and how often |
| `JobLifecycle` | launchers, workers, helper and canceller of one job | INSTANCEs `JobJournal`, whose variables it shares, and implements it |
| `JobLifecycleProofs` | | it implements `JobJournal`; launches, ends and orphans |
| `JobFollow` | `job watch --follow` beside `JobLifecycle` | |
| `DeviceLease` | lease, attempt, sidecar and collector for one device | |
| `DeviceLeaseProofs` | | exclusive use of the device, and what is on record of it |
| `RuntimeIndex` | `runtime/index.py` and the slice routes of `planning.py` | operators only |
| `SliceChain` | `runtime/chain.py` | operators only; a chain as a recursive function of its slices, a sequence as one of its steps |
| `LowLevelBuild` | `QairtSdkAdapter.build` and the Qwen3.5 validation | a process, one action per SDK call |
| `GenaiBuild` | `build_genai_container` and its omni variant | extends `LowLevelBuild`: same adapter, same variables |
| `BuildStage` | the stages build, build_genai_container and plan around the adapter's lanes | first complete behaviour of the stages |
| `StageCall` | what all calls on a built manifest share: binding, fan-out over ARs, artifacts of a revision | |
| `ValidateStage`, `BenchmarkStage`, `DiagnoseStage`, `StageTools` | the stages of these names | `DiagnoseStage` composes all of them |
| `StagesProofs` | | inductive invariants and theorems about builds, their index and what is published on it |
| `ExecutionProofs` | | what a chain executes, and what validate, benchmark and diagnose say about it; extends the former |

`MC*` modules only define symmetry sets and constant values for TLC. Operators
whose comment begins with "Fault" are variants of the definition that follows
them, with a plausible bug; `PROJECT.json` says which property each one breaks.
No specification uses them.

### JobJournal

A method call is a little state machine in `call[p]`: `request_cancel` writes
the flag, `record_receipt` the receipt file, then the status is read
(`commit`), the lock is taken and the event appended (`write`), `state.json` is
rewritten and the lock released (`idle`). A refused commit is `raised`. `Crash`
may hit a call anywhere and frees the lock, as `flock` does. A status carries
its state, sequence number, receipts, manifest and heartbeat; the error, the
current stage and the time stamps travel with them and are left out. The clients
call anything in any order, except that the states passed to `set_state` are a
constant and receipts are recorded by workers.

### ManifestStore, RunChains, Continuation

A manifest is its run, revision, publishing process, parent, fork source and the
list of stage records. A digest is abstracted to the publishing process, because
manifests carry time stamps and two processes never publish the same bytes.
`Publish` has the checks of `ManifestStore.publish` in one action: they are made
under the revision's lock. `Continuation` runs stage operations over it: answer
from a published child, run for a long time, publish, or lose the race and
answer from the child. `RunChains` says what the store promises without files
and races: each run is a history that is only ever extended by one stage at its
end, and a new run starts empty or with a prefix of an existing history.

### WorkflowWorker

One action per write of `_run_claimed`: claim, initial fork (store, then event,
then publication), key and reuse, the copy of a parent's receipt, the
`stage_started` event, the engine's steps, receipt, publication, end. `Crash`
drops the worker's locals and its engine call. Journal calls are atomic here.
The manifests that keys name go through `ManifestIdentity`, by which a snapshot
stands for its source.

### JobLifecycle, JobFollow

One job, its processes and the journal's steps. A worker stands at the statement
it executes next; each `set_state`, `append_event` and `record_receipt` is the
journal's own action, so every interleaving of reads, locks and writes is there.
Heartbeat times are abstracted to whether the newest one is stale. The launcher
is `_spawn_worker` with `_await_worker_startup`: state test, process poll,
timeout, stop, failure record. `JobFollow` adds the reader.

### DeviceLease

One device, attempts that follow one another, their sidecars, and collectors. An
attempt is `DeviceRuntime.stage` statement by statement; each bookkeeping update
reads the record without the lock and replaces it under the lock. `rev` stands
for what else the compare-and-swap token distinguishes (inode, time stamp).
Heartbeats are fresh, stale or missing. adb may fail before or after its effect.

### RuntimeIndex, SliceChain

Contexts, routes and the index are values, so these modules have operators only.
A tensor is its stem and whether it is state (KV cache, recurrent state), in
which case it is an input under one name and an output under another. A value is
where it comes from: the slice (or the vector) and the step that produced it,
and the slices whose numerical deviation it carries. That is all the properties
tell apart, and it is what goes wrong when a chain is fed wrongly: the shapes
still fit. `TrueSource` says where the undivided model has a tensor from.

### LowLevelBuild, GenaiBuild, BuildStage

`LowLevelBuild` follows the three loops of `build` with `at`, and is at one
statement (`pc`) after each SDK call. Every such call may raise (`Call`), which
ends the build and loses what it holds in memory but not the files (`made`). `live`
is what it holds: for each artifact with an SDK object, whether an accumulator of
the result refers to it (`"result"`) and which of the lists local to the loops do
(`Locals`). A release takes an artifact out of an accumulator only; a local list is
gone when the loop that fills it begins again, or the build returns.
A decoder slice of the Qwen3.5 family with several ARs passes through
`Structure`, `Standalone`, `Authorise`, `Joint` and `Runtime` before its final
context; `minted` is the adapter's set of evidence ids, and evidence is identified
by what it covers. `GenaiBuild` is the container lane, whose interesting part is
what the SDK may have saved (`SavedSlices`): graphs in the order of the ARs or
not, dimensions that show it, contradict it or do not vary. `BuildStage` resolves
the configuration, chooses the lane, binds the vectors (before a container is
built, after everything else is) and publishes the index. A configuration is a
record (`SpecAssumption`, `StageAssumption`); whatever `contracts.py` refuses is
not in it, and long lists of plain checks are one Boolean (`ready`, `sources`).

### StageCall and the stages on it

`CallStage` starts a call on the manifest of a build that has succeeded. `turn`
is the list of ARs a call fans out over, `work` its intermediate results for the
current one, `drafts` what it has published so far. A call that ends replaces
artifacts of the same logical name (`EndCall`, `_merge_artifacts`) and makes the
old revision an ancestor; one that fails leaves a revision with its parent's
artifacts. `ValidateStage` chooses bindings, references and modes, executes on a
device whose deviating slices (`NoisySets`) are chosen freely, and reports which
slices deviate. `BenchmarkStage` has the executors that are open on the device
(`held`, by the benchmark that opened them), the timed executions, the recorded inputs
and the profiled replay; closing an executor may fail like any other call.
`DiagnoseStage` reads reports of the manifest and traces of its ancestors.
`StageTools` are the single steps; of what they leave behind only the contexts of
compile_context matter to anything else.

## 3. Runs

"States" are distinct states; times are for two TLC workers.

| run | instance | shows |
|---|---|---|
| `journal` | a worker, its helper and another client; one receipt slot with two contents, three events, two clock ticks | the journal's files stay consistent through kills and stale snapshots |
| `continuation` | two processes, two runs, one stage with two configurations, four revisions | the store stays a set of linear chains; racing processes agree; the engine implements `RunChains` |
| `worker` | two jobs of one or two stages, two specs, eight revisions, one kill; the second job is unrelated, submitted from the first, or its rerun (851k states, 100 s) | one writer per run, fresh attempts that the manifest accepts, completeness of a success, no stage twice in a job that builds |
| `lifecycle` | two launchers, two workers, a kill (975k states, 70 s) | a launch that fails and a worker that returns leave a job that has ended; a job is orphaned only when nobody runs it |
| `launch_once` | one launcher, one worker, a canceller, a watch, one stage, a kill (188k states, 85 s) | the launch and the watch end (the watch unless a cancel reverts the state); no stage starts after the end; the whole is a behaviour of `JobJournal` |
| `device_lease` | two attempts, two collectors, one kill, one late heartbeat (359k states, 75 s) | exclusive use, nothing left on the device without a pointer, nothing of others touched, the device comes back |
| `stages` | an embedding and two slices of layers; 26 configurations, up to three calls (32k states, 15 s) | see below |

What `stages` asks, from the build to the diagnosis:

| property | promise |
|---|---|
| `SharedContextsValidated` | derived Qwen3.5 graphs are compiled together only after they have agreed with their goldens on the device, alone and jointly; no provisional authorisation is left over, and no tool gets around it |
| `ProgressTruthful` | a line of `progress.jsonl` names contexts that are on disk, for all ARs |
| `ModelsReleasedInTime` | an accumulator keeps no model of a published slice, no list one of before the last context length, and none is let go that is still read |
| `RawSlicesTrue` | a saved graph that is bound to an AR was compiled for it |
| `PlanIsBuilt` | the contexts `plan` announces are those `build` makes |
| `IndexUsable` | for each AR and CL the index selects the whole chain, of contexts on disk |
| `PublishedIsValidatable` | what a build has published can be validated without naming anything |
| `AttributionTrue` | teacher-forced errors blame the slices that deviate, chained ones those and what they reach, the full reference iff one reaches the end (`DeviationsAttributed`); layers were compared with tensors of tapped graphs of that AR, for every slice (`LayersTapped`) |
| `ClaimsExecuted` | a report on several ARs and CLs is about combinations that were executed, each with its vector |
| `LatencyMetricTrue` | a latency called device time covers every slice in every step, with the inputs the undivided model would have |
| `DivergenceReachesDiagnosis` | a deviation that validate has compared is in what diagnose attributes, for each AR |
| `LatencyDiagnosisTrue` | trace and latency are of one benchmark, a baseline is of an earlier one with the same graphs |

The instances are small but reach what they are for: two of everything that
races, a kill anywhere, and bounds that stop a run only after the interesting
end. Three events are enough for a writer to be overtaken twice. Eight revisions
are enough for a job, its rerun, a fork and a stage executed twice. A third
attempt on a device would meet nothing that the second does not, since
`ExclusiveUse` says that whoever works holds the lease. Two launchers together
with a canceller exceed what TLC finishes in the time allowed; each is checked
with the rest.

For the stages, two slices of layers and an embedding are the least with a slice
that has a neighbour on each side and one outside the contexts. The
configurations (`MCSpecs`) are one for each branch of the code and the
combinations that interact: CLs with vectors, ARs with sharing, families with
lanes. Calls come in sequences somebody would make (`Worthwhile`, `Follows`): a
validation, then a diagnosis; benchmarks, then a diagnosis; a benchmark between a
validation and its diagnosis would change nothing that the diagnosis of quality
reads. `MaxCalls = 3` gives two benchmarks and a diagnosis that may find a
baseline, or a stale trace. Tools are called first and on low-level builds only,
where a chain exists. `runs = 2` executions are the least that shows whether
records are overwritten or repeated. No call reads `progress.jsonl`, so calls
are made only where no line was lost (`Unlost`).

The runs over the journal, the jobs and the device do not check deadlock: a job
that has ended, a store that is full and a device nobody wants are places where
these systems stop. The runs over the stages do: a build or a call that can
neither go on nor raise would be found (`Ended` is where they may stop).

Runs that TLC must find violated, each a disagreement between the code and what
its documentation says (quoted in `PROJECT.json`, "findings"):

| run | property | what happens |
|---|---|---|
| `worker_reexecutes` | `StagesRunOnce` | a job submitted from another one and killed after its first stage executes that stage again when it is resumed, because its key is computed from the manifest on file |
| `cancel_reverts_state` | `OnlyWorkersAdvance` | a cancel writes the state it has read before the lock back over the worker's |
| `resume_unclaimed` | `ReturnsClaimed` | the launcher of a resumed job takes the job's old state for the claim of the worker it has just spawned, which may exit or hang unnoticed (one launch at a time, `OneAtATime`) |
| `fallback_fails` | `FallbackUsable` | goldens captured from the whole model include KV outputs of every slice, and are compared with the outputs of the last slice: the validation is refused |
| `repeats_as_steps` | `ChainTotalsTrue` | every warmup, measured and calibrating execution of a chain is recorded as a step of its own, and the totals are summed over all of them |

## 4. Fairness

Fairness appears only where liveness is checked. The stages are sequential, and
what may not return in them is the vendor's: nothing is claimed of their end.

* `JobLifecycle!Fairness`: a worker that has claimed the job runs on (weak
  fairness of its steps while `Executing`), as do launchers and journal calls
  once begun; the startup timeout passes; a heartbeat nobody renews becomes
  stale. A worker that has not claimed the job may hang, as a container that is
  pulled or an import that blocks may, which is why the launcher has a timeout.
  Nothing obliges a user to submit, resume, cancel or kill. A vendor call that
  never returns is excluded: nothing in the program would end it.
* `DeviceLease!Fairness`: attempts run on once they hold the lease; sidecars beat
  and look after their parents; files grow old. Somebody runs `device gc` again
  and again and adb works now and then: strong fairness of some collector's
  step, and of some collector's cleaning, because adb may fail in between.

## 5. Proofs

### The journal

`JobJournalProofs` proves, for every set of clients, receipts and manifests and
for every bound, that the journal's type invariant, its four invariants and its
four action properties hold of `Spec`. The constants are assumed to be what the
code guarantees: workers are clients, the helper is a client and no worker, null
values are none of the others, `set_state` is passed job states.

The properties are not inductive: whether the log is behind the state depends on
what a process that waits for the lock is about to write. The strengthening is

    IInv == TypeOK /\ LogGapFree /\ StateNotAheadOfLog /\ ReceiptsBacked
            /\ WritersExclude /\ CallsConsistent

where `CallsConsistent` says what each phase of a call knows. A status that waits
for the lock may be out of date, but its receipts are on file and its heartbeat
is not newer than the one on file. A status that is about to be written under
the lock has the number of the last event, a larger one than the file's, the
file's heartbeat, and does not leave a terminal state; a heartbeat that is about
to be written differs from the file in the heartbeat only. Everything then hangs
on `WritersExclude`: nobody else writes between the check under the lock and the
write. The proof has a lemma per group of actions (`PrepareSteps`,
`ReceiptSteps`, `CommitEventStep`, `WriteSteps`, `BeatFileStep`, `CrashStep`,
`OtherSteps`) over frame lemmas that say what a step of one client leaves alone
of the others' calls. The action properties use the invariant and the fact that
two actions only write `state.json` (`StatusWriters`, `StatusStep`).

`CallsConsistent` and `SeqMonotone` (the sequence number of `state.json` never goes
back) are proved only; the other seven are also checked by the run `journal`, as
far as a small instance goes.

### The processes of a job

`JobLifecycleProofs` proves, for every set of launchers, workers and cancellers,
every number of stages, kills and events:

| theorem | property | argument |
|---|---|---|
| `KeepsToJournal` | `ImplementsJournal` | every step is a call the journal allows (`StepIsJournalStep`), so `JobJournalProofs`, instantiated as `JP`, speaks of these processes: `Lasting` takes from it that a terminal state stays |
| `FailedLaunchesEnd` | `FailedLaunchEnds` | `LaunchInv`: while a launcher raises, its own FAILED is on its way, or its call is over and the job is terminal, because a commit is refused for one reason only |
| `OrphansAreAlone` | `OrphanedOnlyWhenAlone` | `WorkerInv`: a worker has a call in progress only while it executes, and executes only while it holds the lease |
| `NothingStartsAfterEnd` | `NoStageAfterEnd` | `Ended`: a terminal state is written by a launcher that has outlived its worker or by a worker's last call; every other writer of one has read one |

The first three rest on `IInv`, the last on `OneLaunch` as well, and on the
hypothesis `OneLauncher`: with a second launcher that resumes the job it is
false (section 6), which is why the run `launch_once` has one. `Spawned`
says what makes one launch special: its child is the only worker. The constants are assumed to be
disjoint kinds of processes. `IInv` contains the journal's invariant; that no
process calls `touch_heartbeat` (`Beat` is that call here) and that nothing is
prepared before the job has a state (`CallInv`) is what these clients do less
than the journal's.

### Store and engine

`ManifestStoreProofs` is about the files alone. `StoreInv` says that there is one
file for each revision, that revisions have no gaps, that each records what its
parent does and one entry more, that parents are stored, and that a fork's
snapshot records what its source does; `PublishKeeps` adds a file to such a store,
`CreatedKeeps`, `RevisedKeeps` and `SnapshotKeeps` do so for the three that the code
makes. The latest revision is the largest of finitely many numbers; induction is out
of reach, so `FiniteIsBounded` and `MaxProperties` find it by a minimal
counterexample.

`ContinuationProofs` adds `BasesStored` and `AnswersTrue` (what a process has been
told is what the store says, now and later) and proves `StoreIsSound`,
`ResultsAlwaysAgree` (`ResultsAgree`), `SuccessesArePublished`
(`SuccessIsPublished`) and `StoreImplementsChains` (`ImplementsChains`). For the last,
a run's history is the log of its largest revision: publishing revision `n + 1` appends
an entry to it, a first revision starts a run, a fork copies a prefix of another's, and
everything else, kills and lost races included, changes no history. The assumption
`NoRefAssumption` says that the null value is no reference and no history.

### Jobs

`WorkflowWorkerProofs` has one invariant, `IInv`: the store is sound, a run has one
writer, and for every job what its journal claims (`JobOK`, `JobFresh`), what its
worker's locals are worth at the statement it stands at (`WorkerOK`) and what its
call of the engine will publish (`CallOK`). From it:

| theorem | property | what carries it |
|---|---|---|
| `ForksAreIsolated` | `RunsHaveOneWriter` | a worker publishes into a run of its own, or starts or forks one first; between the fork and its adoption the run is known to the job's worker only |
| `AttemptsAreFresh` | `AttemptsFresh` | an attempt is counted in the event log before it starts, and events outlive kills |
| `AttemptsAreAccepted` | `AttemptsAccepted` | `AcceptableInv`, with `IInv`: an attempt that a worker has taken is larger than all its manifest records of the stage (`_manifest_attempt_floor`, `worker.py:653`), and the manifest does not change while the stage runs. The journal's own count would not do: a manifest that a job was given, or that is forked from a parent's, has attempts the journal knows nothing of |
| `ReceiptsAreTrue` | | a receipt of a success, also one copied from a parent, names a published manifest that records this success and all that the stage's input records |
| `ForksReuseNothing` | | after a fork the second look at the receipts (`worker.py:634`) finds none, because the key of a snapshot is that of its source and the first look has found none: the branch is dead |

`TypesHold` is the type invariant. Two more invariants are built on `IInv` and on one
lemma that says how a step changes a journal and its worker (`JobMoves`):

* `SuccessIsComplete` (`SucceededComplete`), from `DoneInv`: what lies before a
  worker's position has a receipt and is on the worker's manifest. It assumes
  `BuildFirst`, since a build in the middle of a plan starts another run, and
  what came before would not be on its manifest.
* `StagesSucceedOnce` (`BuiltStagesRunOnce`), from `OnceInv`: in a job that builds,
  the successes form a chain, each read what the one before published, and the
  worker continues the last. So the key of a stage is the same in every worker of the job,
  however often it is killed, and a second success would have been a reuse. It assumes `NoRepeats`;
  a stage named twice is meant to run twice.

Every command of the command line has a plan of both kinds (`_STAGE_COMMANDS`,
`DEFAULT_WORKFLOW_STAGES`); the MCP server's `submit_job` takes any list. The
other theorems hold of every plan. `NoneAssumption` says that the null value is no
journal and no worker.

### The device

`DeviceLeaseProofs` proves, for every set of attempts and collectors and any
number of kills, `UseIsExclusive` (`ExclusiveUse`), `DirsAreRecorded` (`DirsRecorded`)
and `BeatsAreReferenced` (`BeatsReferenced`), which are claimed while no heartbeat of a
live attempt is late, and `OthersAreUntouched` (`OthersUntouched`), which is claimed
always. The invariant is split alike: `LockInv` holds whatever is late (the owner file
changes under the lock, or by an attempt while it is that attempt's), `TimelyInv` says that
who works holds the lease and has a sidecar that beats (`HolderInv`), and that what
a collector takes apart belongs to nobody who works (`CollectorInv`). `TimelyInv` has to
say when a read of the owner file is still current: that is the step between
reading it and writing it back, which no lock covers. `TypesHold` and `OneAtATime` follow.

### The stages

`StagesProofs` and `ExecutionProofs` prove the twelve invariants of the run `stages` for `StagesSpec`: for
every split plan, every set of configurations and of calls, and every number of
calls (`MaxCalls`). `MCStages` checks the same steps and one that stutters where
a behaviour ends.

| theorem | property | invariant it follows from |
|---|---|---|
| `AuthorityHolds` | `SharedContextsValidated` | `AuthorityInv`: evidence in `minted` is final and backed by a report, or is the provisional one of the slice that is compiled jointly at this moment. The check `MayCompile` makes looks at `minted` only, so without this the report would be unknown when the context is written |
| `ProgressHolds` | `ProgressTruthful` | `ProgressInv`: the loops stay inside the configuration; in the loop over the ARs the contexts of the earlier ones exist (`SliceCompiled`), and no context holds an AR of another configuration (`OwnArs`). A record is written when only the loop's position says that the slice is complete |
| `ReleaseHolds` | `ModelsReleasedInTime` | `LiveInv`, with `ProgressInv`: for each reference to a model (`Tracked`), that an accumulator's is to one not published yet, and that a local list's is of the current context length once the list has been filled again (`Fresh`), else of the one before; while the ARs of a slice are converted, the converted models of the earlier ones are in the local list, and from then to the record of the slice those of all ARs. That the loop over the ARs is at its beginning outside of it (`OutsideArs`) is what makes the next slice begin with the first AR. A boundary embedding (its release is skipped by the `continue`, `adapter.py:3611`) and a vision encoder are outside of the theorem |
| `PlanHolds` | `PlanIsBuilt` | `PlanInv`, with the two before: the slices before the loop's position are built (`SliceBuilt`) and every context with a CL is announced; a context is written only at statements that no slice outside the plan reaches, and tools write no context of the build |
| `LatencyDiagnosesHold` | `LatencyDiagnosisTrue` | `DiagnosesInv`: the trace of a manifest is that of its parent or has a later stamp, since a call publishes one trace of all its ARs at most (`TracesInv`), and reports on one AR have names of their own while those on the others are missing (`CallsInv`). So another trace in an ancestor is an older one; it is found by `LastOf`, the largest of finitely many positions |
| `ReportsAreExecuted` | `ClaimsExecuted` | `ClaimsInv`, with `ProgressInv` and `CallsInv`: of a call that fans out, an AR has its report among the drafts, or its turn will come (`FanInv`); the work on the current AR has a binding of that AR and, once executed, a vector that fits it (`WorkInv`); and vectors are bound for one context length only (`VectorsInv`), which is why the aggregate may pair every AR with every context length it lists |
| `IndexHolds` | `IndexUsable` | `BuiltInv`, with `ProgressInv`, `LiveInv` and `PlanInv`: one operator (`Precedes`) says in which order the loops go, and everything before their position is made; so when the index is written the transformed models, the contexts and the vectors are complete. `RankedOrder` is about sorting any finite set by a strict total order, `ContextsOrdered` applies it to the contexts of a result, and `RoutesOf` says which routes come out: the slices of the plan, each once, in its order, with the ARs of its context |
| `AttributionsTrue` | `AttributionTrue` | `TrustInv`, with all the invariants above: what is known of the current AR after each part of a validation (`Examined`), and that a report keeps it (`TrueReport`) |
| `LatenciesTrue` | `LatencyMetricTrue` | `TrustInv`: what has been recorded and measured of the current AR (`Benched`) |
| `DivergencesReach` | `DivergenceReachesDiagnosis` | `TrustInv`: a report in which a deviation can be seen has a block that names it, and a diagnosis reads every block |
| `ValidationsAccepted` | `PublishedIsValidatable` | `ReadyInv`, with all the invariants above: what a validation that names nothing has before each of its parts (`Prepares`), and which AR it executes |

The last four are about what is computed by `RunSequence`. A property of a
recursive function for every input is induction over data; but how often it has been
applied is a number between 0 and the length of the chain, and of those the lemma
`Positions` finds a smallest counterexample, as for the revisions of a store. `SlicesRun` and `StepsRun`
say by it what a chain whose slices did not fail has done: every slice once, in order, each
fed from the slices before it, from the vector, or with the state of the step before (`Did`,
`Sequenced`). That the state is the one of the step before rests on `Wired`: slices
do not share a slot, and return every state they take. From there the argument has three parts:

* Deviations. `Reached` is the least set of slices that is closed under feeding, the
  chain computes it slice by slice, and a forced slice shows only its own; so outputs deviate
  where `Displays` says. References deviate in nothing (`GoldensClean`), so a report compares
  deviating with clean tensors (`ReportTrue`).
* Layers. `LayersLink` says that when every route's slice has intermediate outputs, they
  are of the AR that is executed, because the contexts of an automatic binding are those of
  the build (`Backed`).
* Latencies. Executing a sequence `runs` times records no other invocations than once (`Again`).

The three say what an execution has done that has not failed. That one does not fail is the
fourth (`FedRuns`): no slice is short of a tensor if its graph has the AR and each input
is in the vector, in the state, forced, or an output of a slice before it (`Fed`). For a build that has
vectors with goldens, every step of a plain validation provides the next one with that.
The index selects all slices (`CompleteSelected`), so their inputs are the vector's or come from an
earlier slice (`Supplied`). The transformed models are all there
(`CompleteModels`), so the goldens of the slices can be captured, and they are what the teacher-forced mode
needs (`GoldensWhole`). What the vector has goldens of comes from the last slice (`LogitsLast`). And
whatever mode is requested has been executed (`OutcomeShows`), so the report compares what is
there (`CompleteReportable`). This holds for one context length, one AR or several, and every set of
modes; the device may deviate in any slices.

Bindings come from the index (`BindingFits`, for which `BuiltInv` and `RawInv` say what
an index holds), or from the caller. `AttributionsTrue` assumes `LayersOfChains`: a caller
who names the graph himself and wants its layers compared names a chain. Otherwise its part
`LayersTapped` is false: such a caller may name a slice for which the build has no
intermediate outputs under one context length, and `Layered` compares the slices of a chain, not the
slice of a single graph.

`ReportsAreExecuted` is about calls that name a configured context length, or none
(`OwnContextLengths`, which the calls of `MCStages` satisfy). For others it is false:
for a container `select_runtime_binding` (`runtime/index.py:415`) looks at the AR of a
call only, and a report on all ARs takes its list of context lengths from the build
specification (`validate.py:1005`, `benchmark.py:348`).

They rest on what `contracts.py` demands of a configuration (`SpecAssumption`: lists
are not empty and have no duplicates, shared weights mean AR 1 and 128, a Qwen3.5 with several ARs
shares weights), on `SliceAssumption`, `NoCallAssumption` and `ToolAssumption` (the tools
that there are, none of which publishes under a name that a diagnosis reads), and
`BindingsTrue` on
`ColumnsAssumption`: if dimensions of a saved graph take the ARs as their values,
one of them takes the right ones. The comment of `_ar_graph_order_error` says so
("some dimension carries the AR"); a container whose only such dimension lies
would be bound wrongly by the code, too. The theorems about executions rest on what
splitting one ONNX model means (`WiringAssumption`, `VisionAssumption`, `VitAssumption`):
a tensor has one producer, which comes before its consumers; a state belongs to one slice,
which returns it; every slice computes something; and what no slice takes comes
from the last. Routes and steps that a caller names are of this kind too
(`NamedAssumption`, `BenchmarkAssumption`). TLC evaluates all of them.

### What is only model-checked

All liveness (`LaunchSettles`, `FollowEnds`, `Reclaimed`), which the prover does not
reach.

The variables of `JobFollow` and of the stages have the types their comments say;
the other modules' type invariants are parts of the invariants above.

## 6. What is left out, and what it means

* `JobJournal`: log files, `spec.*.json` and `launcher.json`, written once by
  `create`; the re-hashing of outputs in `receipt_for_stage_key`, for files are
  assumed not to rot.
* `WorkflowWorker`: rebasing a fork onto a new build spec and its conflicts;
  output verification; outputs that are not manifests. `JobCancelledError` is
  handled inside a stage but raised nowhere in `src/`. A rerun has its parent's
  stages; the stages given explicitly are left out.
* `JobLifecycle`: the inline launch of `resume_job` and of Python callers, a
  thread in the client's process. Terminating a worker is assumed to kill it.
  Journal calls by a worker do not fail for want of disk.
* `DeviceLease`: one device; no records of earlier versions or malformed ones; no
  canonical-server check (it refuses before anything is written). A heartbeat of
  a live attempt is late at most `MaxLate` times; `ExclusiveUse`, `DirsRecorded`
  and `BeatsReferenced` are claimed while none is, since the lease rests on it
  (30 s against beats of 5 s). An adb command is taken to end with its process.
* Stages: numbers (metrics, thresholds, times) are abstracted to whether a tensor
  deviates and whether a meter was available; files, digests and shapes are left
  out. A lineage of revisions has no forks, so a baseline is looked for on one
  line; the index of a manifest is never replaced by a caller's. Two traces of the
  same graphs are taken to have the same number of operators. `init`, `doctor` and
  `generate_config` write files once and are left out.
* Adapter: the native-KV arithmetic, the preflight, and the translation of options
  into SDK objects. The SDK is not in the repository: `GenaiBuild!SavedSlices`
  and the calls that may raise are what `src/` expects of it.
* Not modelled at all: see the components with status `not_modelled`.

Behaviours that are in the model (or next to it) and in no property, because no
document takes a side or because they only cost time, memory or a report:

* `execute` clears the cancel flag when the worker starts (`agent.py:557`): a
  cancel between submit and that moment is on record as an event and the job runs.
* A launcher that resumes a job whose first worker lives may fail it; that worker
  notices at its next commit. So `NoStageAfterEnd` is claimed of one launcher.
* A concurrent cancel that restores QUEUED (`cancel_reverts_state`), together with
  a killed worker, leaves the watch without an end (`cli.py:721`); `FollowEnds` is
  claimed of jobs, cancelled or not, whose state no cancel reverts (`CancelReverts`).
* The watch prints the events and then reads the state (`cli.py:711`), and may
  miss the last event; a rerun of a job submitted from another one has the stages
  but not the initial manifest of its parent (`agent.py:514`).
* `float_reference.py` calls op-level dumps available when diagnostic contexts
  exist and a divergence was seen, whether or not they were executed;
  `docs/architecture.md` says "a context's existence is not a dump". The model
  has the claim (`DumpEvidence`) and the execution (`Layered`) apart.
* An embedding that stays outside the contexts (`lut`, the default, or `external`)
  is in no route; a validation of such a build that names nothing is refused, since
  the vector of the whole model has no input of the first slice that is compiled. A build of several ARs without sharing, and
  the vision encoder of a Qwen3-VL, cannot be selected from the index either.
* A second context length, or a symbolic vision width, is refused after everything
  has been compiled; a Qwen3.5 build with several ARs and CLs always is, at the
  second CL's report.
* Comments on memory say more than the code does; `ModelsReleasedInTime` states what
  holds. The accumulators get stripped copies, but
  `slices_by_name` keeps the original transformed models of a published slice while the
  slices after it are converted (`adapter.py:3522`; the comment at 3853 says they are released
  "before the next slice allocates its own"), and `converted_for_slice` those of the last
  slice until the next one has begun. And no release is passed the contexts, which keep
  `sdk_compiled_model` until the build returns, although it is one of the fields
  "released once the artifact they belong to has been published"
  (`qairt_adapter/types.py:50`; `docs/plan/T20-build-scale-preparation.md:63` says the same).
* The models of an embedding that stays outside the contexts are released never
  (`adapter.py:3611`). A benchmark whose cleanup raises leaves its executor open
  (`benchmark_one.py:422`, `557`) and fails; nothing closes it later. A saved container slice with one graph is bound to all ARs.
* `compile_context` as a tool believes the slice name and the model kinds it is
  given (`derived` in the model), as its caller is expected to know them.
* An old trace on a manifest makes every later automatic diagnosis raise until a
  new one replaces it; a comparison with a baseline is dropped when both paths of a
  diagnosis have found something.

## 7. Plan

Done: journal and its proofs, store and engine, worker, lifecycle, watch, device,
build lanes, runtime index and chain, validate, benchmark, diagnose, tools; the proofs of
section 5.

Left to model, each a pure module checked against a reference definition:

1. `StageKeys`: `jobs/keys.py`; which changes of a spec change which stage's key.
2. `RemotePaths`, `LeaseRecords`: parsing and classification in `adb.py` and
   `lease.py`, earlier and malformed records included.
3. `SplitPlan`: `families/split_plan.py`, `native_kv.py`, `harness.py`.
4. `Verdicts`: `compare.py`, doctor and SoC verdicts, tensors of
   `vector_retarget.py`.

Nothing is left to prove of the invariants and action properties that the runs check: what
remains with TLC is liveness.
