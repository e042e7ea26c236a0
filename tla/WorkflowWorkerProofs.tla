------------------------ MODULE WorkflowWorkerProofs ------------------------
(***************************************************************************)
(* Proofs about the workflow worker, for every set of jobs, plans and      *)
(* specs, every interleaving of the jobs' workers and any number of kills. *)
(***************************************************************************)
EXTENDS WorkflowWorker, ManifestStoreProofs

-----------------------------------------------------------------------------
(* The inductive invariant.                                                *)

\* A fork is being made, recorded or adopted.
Forking == {"fork", "forked", "adopt"}

\* The stage's own execution.
Executing == {"start", "engine", "running"}

Task == {Engine!Idle} \cup
        [pc : {"running", "publish", "conflict"}, base : Ref, entry : Entry,
         initial : BOOLEAN]

TypeOK ==
    /\ journal \in [Jobs -> Journal \cup {NoRef}]
    /\ worker \in [Jobs -> Worker \cup {NoRef}]
    /\ task \in [Jobs -> Task]
    /\ result \in [Jobs -> Engine!Result \cup {NoRef}]
    /\ \A j \in Jobs :
          /\ worker[j] # NoRef => journal[j] # NoRef
          /\ journal[j] # NoRef /\ journal[j].parent # NoRef =>
                journal[journal[j].parent] # NoRef

\* The stage of a worker's locals, its configuration and its key.
StageOf(J, w) == J.plan[w.idx]
ConfigOf(J, w) == J.spec[StageOf(J, w)]

KeyOf(J, w) ==
    [name |-> StageOf(J, w), cfg |-> ConfigOf(J, w),
     input |-> IF StageOf(J, w) = Build THEN NoRef
               ELSE ManifestIdentity(w.manifest)]

VerifiedIn(J, key) == {q \in J.receipts : q.ok /\ q.key = key}

\* What a manifest records.
Entries(ref) == {Load(ref).log[i] : i \in DOMAIN Load(ref).log}

Records(ref, name, cfg) ==
    \E e \in Entries(ref) : e.ok /\ e.name = name /\ e.cfg = cfg

\* A success names the manifest that its stage made of its input.
ReceiptTrue(q) ==
    q.ok =>
       /\ q.out \in Published /\ q.out.rev # 0
       /\ Records(q.out, q.key.name, q.key.cfg)
       /\ IF q.key.name = Build
          THEN q.key.input = NoRef
          ELSE q.key.input \in Published /\ Entries(q.key.input) \subseteq Entries(q.out)

\* A recorded fork is this job's own, a snapshot of its source.
ForkTrue(j, f) ==
    /\ f.source \in Published /\ f.fork \in Published
    /\ f.fork.by = j /\ f.fork.rev = 0 /\ Load(f.fork).source = f.source

\* The job has, or has taken over, a success of its first stage, the build.
Built(J) ==
    /\ J.plan[1] = Build
    /\ VerifiedIn(J, [name |-> Build, cfg |-> J.spec[Build], input |-> NoRef]) # {}

\* A journal.  A job either starts from a given manifest, or may have a parent to
\* take receipts from.
JobOK(j, J) ==
    /\ IsFiniteSet(J.receipts)
    /\ \A q \in J.receipts :
          /\ ReceiptTrue(q)
          /\ q.ok /\ ~q.copied => q.out.by = j
          /\ q.copied => J.initial = NoRef
    /\ \A f \in J.forks : ForkTrue(j, f)
    /\ J.initial # NoRef => J.initial \in Published /\ J.parent = NoRef
    /\ J.manifest # NoRef =>
          /\ J.manifest \in Published
          /\ IF J.initial = NoRef THEN Built(J) ELSE J.manifest.by = j

\* No two executions of a stage, and no two receipts, share an attempt.
JobFresh(J) ==
    /\ IsInjective(J.started)
    /\ \A a, b \in J.receipts : a.key = b.key /\ a.attempt = b.attempt => a = b

\* Where the worker is in its plan.
PositionOK(J, w) ==
    /\ w.idx \in 1..Len(J.plan) + 1
    /\ w.idx > 1 => w.manifest # NoRef
    /\ w.pc \in Executing \cup {"key", "reuse", "commit"} => w.idx <= Len(J.plan)
    /\ w.initialPending =>
          /\ w.idx = 1 /\ w.pc \in {"stage"} \cup Forking
          /\ J.initial # NoRef /\ w.manifest # NoRef /\ ~w.reusedPending
    /\ w.pc \in Forking =>
          /\ w.manifest # NoRef
          /\ w.reason.why = (IF w.initialPending THEN "initial" ELSE "reused")
          /\ w.initialPending \/ w.reusedPending
    /\ w.pc = "collect" => w.idx = Len(J.plan) + 1

\* What it is about to continue is its own, or it will fork it before it does.
ManifestOK(j, J, w) ==
    /\ w.manifest # NoRef =>
          /\ w.manifest \in Published
          /\ J.initial = NoRef => Built(J)
          /\ w.manifest.by # j =>
                \/ w.pc \in Forking \cup {"reuse"}
                \/ w.pc \in {"stage", "key"} /\ (w.initialPending \/ w.reusedPending)
                \/ w.pc \in {"stage", "key"} /\ w.idx = 1 /\ J.initial = NoRef
    /\ w.reusedPending /\ w.pc \in {"stage", "key"} \cup Forking =>
          w.manifest # NoRef /\ w.manifest.rev # 0
    /\ w.pc = "running" /\ StageOf(J, w) # Build => w.manifest # NoRef

\* What it is about to commit.
NextOK(j, J, w) ==
    /\ w.pc = "reuse" =>
          \E q \in VerifiedIn(J, KeyOf(J, w)) : q.out = w.next /\ q.copied = w.copied
    /\ w.pc = "commit" =>
          \E q \in VerifiedIn(J, KeyOf(J, w)) : q.out = w.next /\ ~q.copied
    /\ w.pc \in {"forked", "adopt"} =>
          /\ w.next \in Published /\ w.next.by = j /\ w.next.rev = 0
          /\ Load(w.next).source = w.manifest

\* It executes a stage only if there is nothing to reuse, in a new attempt.
AttemptOK(J, w) ==
    /\ \/ w.pc \in Executing
       \/ w.pc \in Forking /\ ~w.initialPending /\ w.idx <= Len(J.plan)
       => VerifiedIn(J, KeyOf(J, w)) = {}
    /\ w.pc \in {"engine", "running"} =>
          \A q \in J.receipts : q.key = KeyOf(J, w) => q.attempt < w.attempt

WorkerOK(j, J, w) ==
    /\ J.st = "RUNNING"
    /\ PositionOK(J, w) /\ ManifestOK(j, J, w) /\ NextOK(j, J, w)
    /\ AttemptOK(J, w)

\* The engine's operation is the one the worker called.
CallOK(j, J, w, t) ==
    /\ w # NoRef /\ w.pc = "running"
    /\ t.base \in Published /\ t.base.by = j
    /\ t.entry.name = StageOf(J, w) /\ t.entry.cfg = ConfigOf(J, w)
    /\ IF StageOf(J, w) = Build THEN t.initial
       ELSE ~t.initial /\ t.base = w.manifest

\* Its answer, if it is a success.
AnswerOK(j, J, w, a) ==
    a.ok =>
       /\ a.manifest \in Published /\ a.manifest.by = j /\ a.manifest.rev # 0
       /\ Records(a.manifest, StageOf(J, w), ConfigOf(J, w))
       /\ StageOf(J, w) # Build => Entries(w.manifest) \subseteq Entries(a.manifest)

JobInv(j) == journal[j] # NoRef => JobOK(j, journal[j]) /\ JobFresh(journal[j])

WorkerInv(j) == worker[j] # NoRef => WorkerOK(j, journal[j], worker[j])

EngineInv(j) ==
    /\ task[j] # Engine!Idle => CallOK(j, journal[j], worker[j], task[j])
    /\ task[j] = Engine!Idle /\ At(j, "running") =>
          AnswerOK(j, journal[j], worker[j], result[j])

IInv ==
    /\ StoreInv /\ RunsHaveOneWriter /\ TypeOK
    /\ \A j \in Jobs : JobInv(j) /\ WorkerInv(j) /\ EngineInv(j)

-----------------------------------------------------------------------------
(* The worker's own names.                                                 *)

LEMMA StageKeyIs ==
    ASSUME NEW j
    PROVE  /\ Stage(j) = StageOf(journal[j], worker[j])
           /\ Config(j) = ConfigOf(journal[j], worker[j])
           /\ StageKey(j) = KeyOf(journal[j], worker[j])
  BY DEF Stage, Config, StageKey, StageOf, ConfigOf, KeyOf

LEMMA VerifiedIs ==
    ASSUME NEW j, NEW key
    PROVE  Verified(j, key) = VerifiedIn(journal[j], key)
  BY DEF Verified, VerifiedIn

\* A fork snapshot stands for its source, which records the same.
LEMMA IdentityTyped ==
    ASSUME StoreInv, NEW ref \in Published
    PROVE  /\ ManifestIdentity(ref) \in Published
           /\ ManifestIdentity(ref) # NoRef
           /\ Entries(ManifestIdentity(ref)) = Entries(ref)
           /\ ref.rev # 0 => ManifestIdentity(ref) = ref
<1>1. /\ Load(ref) \in store /\ Load(ref).rev = ref.rev
      /\ ref # NoRef
  BY LoadOne, RefTyped
<1>2. CASE ref.rev = 0 /\ Load(ref).source # NoRef
  <2>1. /\ Load(ref).source \in Published
        /\ Load(ref).log = Load(Load(ref).source).log
    BY <1>1, <1>2 DEF StoreInv, CopiesStored
  <2>2. ManifestIdentity(ref) = Load(ref).source
    BY <1>1, <1>2 DEF ManifestIdentity
  <2>3. Load(ref).source # NoRef
    BY <1>2
  <2> QED
    BY <1>2, <2>1, <2>2, <2>3 DEF Entries
<1>3. CASE ~(ref.rev = 0 /\ Load(ref).source # NoRef)
  BY <1>1, <1>3 DEF ManifestIdentity
<1> QED
  BY <1>2, <1>3

LEMMA ManifestNull == ManifestIdentity(NoRef) = NoRef
  BY DEF ManifestIdentity

-----------------------------------------------------------------------------
(* What is true of the files stays true when others are added.             *)

LEMMA EntriesKept ==
    ASSUME StoreInv, StoreInv', store \subseteq store'
    PROVE  /\ Published \subseteq Published'
           /\ \A ref \in Published :
                 /\ Load(ref)' = Load(ref)
                 /\ Entries(ref)' = Entries(ref)
                 /\ ManifestIdentity(ref)' = ManifestIdentity(ref)
                 /\ \A n, c : Records(ref, n, c) => Records(ref, n, c)'
           /\ ManifestIdentity(NoRef)' = ManifestIdentity(NoRef)
<1>1. \A ref \in Published : Load(ref)' = Load(ref)
  BY Kept DEF StoreInv
<1>2. Published \subseteq Published'
  BY DEF Published
<1>3. \A ref \in Published : Entries(ref)' = Entries(ref)
  BY <1>1 DEF Entries
<1>4. \A ref \in Published : ManifestIdentity(ref)' = ManifestIdentity(ref)
  BY <1>1 DEF ManifestIdentity
<1>5. \A ref \in Published : \A n, c : Records(ref, n, c) => Records(ref, n, c)'
  BY <1>3 DEF Records
<1> QED
  BY <1>1, <1>2, <1>3, <1>4, <1>5 DEF ManifestIdentity

LEMMA JobKept ==
    ASSUME StoreInv, StoreInv', store \subseteq store', NEW j, NEW J, JobOK(j, J)
    PROVE  JobOK(j, J)'
<1>1. /\ Published \subseteq Published'
      /\ \A ref \in Published :
            /\ Load(ref)' = Load(ref)
            /\ Entries(ref)' = Entries(ref)
            /\ \A n, c : Records(ref, n, c) => Records(ref, n, c)'
  BY EntriesKept
<1>2. \A q \in J.receipts : ReceiptTrue(q) => ReceiptTrue(q)'
  BY <1>1 DEF ReceiptTrue
<1>3. \A f \in J.forks : ForkTrue(j, f) => ForkTrue(j, f)'
  BY <1>1 DEF ForkTrue
<1> QED
  BY <1>1, <1>2, <1>3 DEF JobOK

LEMMA KeyKept ==
    ASSUME StoreInv, StoreInv', store \subseteq store', NEW J, NEW w,
           w.manifest # NoRef => w.manifest \in Published
    PROVE  KeyOf(J, w)' = KeyOf(J, w)
<1>1. ManifestIdentity(w.manifest)' = ManifestIdentity(w.manifest)
  BY EntriesKept
<1> QED
  BY <1>1 DEF KeyOf

LEMMA WorkerKept ==
    ASSUME StoreInv, StoreInv', store \subseteq store', NEW j, NEW J, NEW w,
           WorkerOK(j, J, w)
    PROVE  WorkerOK(j, J, w)'
<1>1. Published \subseteq Published'
      /\ \A ref \in Published : Load(ref)' = Load(ref)
  BY EntriesKept
<1>2. KeyOf(J, w)' = KeyOf(J, w)
  BY KeyKept DEF WorkerOK, ManifestOK
<1>3. PositionOK(J, w)' /\ AttemptOK(J, w)'
  BY <1>2 DEF WorkerOK, PositionOK, AttemptOK
<1>4. ManifestOK(j, J, w)'
  BY <1>1 DEF WorkerOK, ManifestOK
<1>5. NextOK(j, J, w)'
  BY <1>1, <1>2 DEF WorkerOK, NextOK
<1> QED
  BY <1>3, <1>4, <1>5 DEF WorkerOK

LEMMA CallKept ==
    ASSUME StoreInv, StoreInv', store \subseteq store', NEW j, NEW J, NEW w, NEW t,
           CallOK(j, J, w, t)
    PROVE  CallOK(j, J, w, t)'
  BY EntriesKept DEF CallOK

LEMMA AnswerKept ==
    ASSUME StoreInv, StoreInv', store \subseteq store', NEW j, NEW J, NEW w, NEW a,
           StageOf(J, w) # Build => w.manifest \in Published,
           AnswerOK(j, J, w, a)
    PROVE  AnswerOK(j, J, w, a)'
<1>1. /\ Published \subseteq Published'
      /\ \A ref \in Published :
            /\ Entries(ref)' = Entries(ref)
            /\ \A n, c : Records(ref, n, c) => Records(ref, n, c)'
  BY EntriesKept
<1> QED
  BY <1>1 DEF AnswerOK


-----------------------------------------------------------------------------
(* One step of one job.                                                    *)

LEMMA StepKeeps ==
    ASSUME IInv, NEW j \in Jobs, StoreInv', RunsHaveOneWriter', TypeOK',
           store \subseteq store',
           \A k \in Jobs \ {j} :
              /\ journal'[k] = journal[k] /\ worker'[k] = worker[k]
              /\ task'[k] = task[k] /\ result'[k] = result[k],
           JobInv(j)', WorkerInv(j)', EngineInv(j)'
    PROVE  IInv'
<1> SUFFICES ASSUME NEW k \in Jobs \ {j}
             PROVE  JobInv(k)' /\ WorkerInv(k)' /\ EngineInv(k)'
  BY DEF IInv
<1>1. StoreInv /\ JobInv(k) /\ WorkerInv(k) /\ EngineInv(k)
  BY DEF IInv
<1>2. JobInv(k)'
  <2>1. journal[k] # NoRef => JobOK(k, journal[k])'
    BY <1>1, JobKept DEF JobInv
  <2> QED
    BY <1>1, <2>1 DEF JobInv, JobFresh
<1>3. WorkerInv(k)'
  <2>1. worker[k] # NoRef => WorkerOK(k, journal[k], worker[k])'
    BY <1>1, WorkerKept DEF WorkerInv
  <2> QED
    BY <2>1 DEF WorkerInv
<1>4. EngineInv(k)'
  <2>1. task[k] # Engine!Idle => CallOK(k, journal[k], worker[k], task[k])'
    BY <1>1, CallKept DEF EngineInv
  <2>2. At(k, "running") /\ StageOf(journal[k], worker[k]) # Build
        => worker[k].manifest \in Published
    BY <1>1 DEF At, WorkerInv, WorkerOK, ManifestOK
  <2>3. task[k] = Engine!Idle /\ At(k, "running")
        => AnswerOK(k, journal[k], worker[k], result[k])'
    BY <1>1, <2>2, AnswerKept DEF EngineInv
  <2>4. Engine!Idle' = Engine!Idle
    BY DEF Engine!Idle
  <2> QED
    BY <2>1, <2>3, <2>4 DEF EngineInv, At
<1> QED
  BY <1>2, <1>3, <1>4

\* What every live worker can rely on.
LEMMA Alive ==
    ASSUME IInv, NEW j \in Jobs, worker[j] # NoRef
    PROVE  /\ worker[j] \in Worker /\ journal[j] \in Journal /\ journal[j] # NoRef
           /\ WorkerOK(j, journal[j], worker[j])
           /\ JobOK(j, journal[j]) /\ JobFresh(journal[j])
  BY DEF IInv, TypeOK, WorkerInv, JobInv

LEMMA PlanTyped ==
    ASSUME NEW J \in Journal
    PROVE  /\ J.plan \in Seq(StageNames) /\ J.plan # <<>>
           /\ Len(J.plan) \in Nat /\ Len(J.plan) >= 1
           /\ J.spec \in [StageNames -> Configs]
<1>1. J.plan \in Plans /\ J.spec \in Specs
  BY DEF Journal
<1> QED
  BY <1>1, PlanAssumption

\* A worker's stage, in the loop.
LEMMA StageTyped ==
    ASSUME StoreInv, NEW J \in Journal, NEW w \in Worker, w.idx \in 1..Len(J.plan),
           w.manifest # NoRef => w.manifest \in Published
    PROVE  /\ StageOf(J, w) \in StageNames /\ ConfigOf(J, w) \in Configs
           /\ KeyOf(J, w) \in Key
<1>1. StageOf(J, w) \in StageNames
  BY PlanTyped DEF StageOf
<1>2. ConfigOf(J, w) \in Configs
  BY <1>1, PlanTyped DEF ConfigOf
<1>3. ManifestIdentity(w.manifest) \in Ref \cup {NoRef}
  BY IdentityTyped, ManifestNull, RefTyped
<1> QED
  BY <1>1, <1>2, <1>3 DEF KeyOf, Key

\* A step that leaves the store and the engine alone.
LEMMA LocalStep ==
    ASSUME IInv, NEW j \in Jobs, NEW J \in Journal, NEW w \in Worker \cup {NoRef},
           UNCHANGED <<store, task, result>>,
           journal' = [journal EXCEPT ![j] = J],
           worker' = [worker EXCEPT ![j] = w],
           J.parent # NoRef => journal[J.parent] # NoRef,
           JobOK(j, J), JobFresh(J),
           w # NoRef => WorkerOK(j, J, w) /\ w.pc # "running",
           task[j] = Engine!Idle
    PROVE  IInv'
<1>1. StoreInv /\ TypeOK /\ RunsHaveOneWriter
  BY DEF IInv
<1>2. StoreInv' /\ RunsHaveOneWriter' /\ store \subseteq store'
  BY <1>1, StoreStays DEF RunsHaveOneWriter
<1>3. journal'[j] = J /\ worker'[j] = w /\ journal'[j] # NoRef
  BY <1>1, NoneAssumption DEF TypeOK
<1>4. \A k \in Jobs \ {j} : journal'[k] = journal[k] /\ worker'[k] = worker[k]
  BY <1>1 DEF TypeOK
<1>5. TypeOK'
  <2>1. /\ journal' \in [Jobs -> Journal \cup {NoRef}]
        /\ worker' \in [Jobs -> Worker \cup {NoRef}]
    BY <1>1 DEF TypeOK
  <2>2. task' \in [Jobs -> Task] /\ result' \in [Jobs -> Engine!Result \cup {NoRef}]
    BY <1>1 DEF TypeOK
  <2>3. \A k \in Jobs : worker'[k] # NoRef => journal'[k] # NoRef
    BY <1>1, <1>3, <1>4 DEF TypeOK
  <2>4. \A k \in Jobs : journal[k] # NoRef => journal'[k] # NoRef
    BY <1>3, <1>4
  <2>5. \A k \in Jobs : journal[k] # NoRef => journal[k].parent \in Jobs \cup {NoRef}
    BY <1>1 DEF TypeOK, Journal
  <2>6. J.parent \in Jobs \cup {NoRef}
    BY DEF Journal
  <2>7. \A k \in Jobs : journal'[k] # NoRef /\ journal'[k].parent # NoRef =>
                            journal'[journal'[k].parent] # NoRef
    BY <1>1, <1>3, <1>4, <2>4, <2>5, <2>6 DEF TypeOK
  <2> QED
    BY <2>1, <2>2, <2>3, <2>7 DEF TypeOK
<1>6. JobInv(j)'
  <2>1. JobOK(j, J)'
    BY <1>1, <1>2, JobKept
  <2> QED
    BY <1>3, <2>1 DEF JobInv, JobFresh
<1>7. WorkerInv(j)'
  <2>1. w # NoRef => WorkerOK(j, J, w)'
    BY <1>1, <1>2, WorkerKept
  <2> QED
    BY <1>3, <2>1 DEF WorkerInv
<1>8. EngineInv(j)'
  <2>1. task'[j] = Engine!Idle'
    BY DEF Engine!Idle
  <2> QED
    BY <1>3, <2>1 DEF EngineInv, At
<1>9. \A k \in Jobs \ {j} : task'[k] = task[k] /\ result'[k] = result[k]
  OBVIOUS
<1> QED
  BY <1>2, <1>4, <1>5, <1>6, <1>7, <1>8, <1>9, StepKeeps

\* The engine is idle unless the worker waits for it.
LEMMA IdleUnlessRunning ==
    ASSUME IInv, NEW j \in Jobs, ~At(j, "running")
    PROVE  task[j] = Engine!Idle
  BY DEF IInv, EngineInv, CallOK, At

-----------------------------------------------------------------------------
(* The client.                                                             *)

\* A job without a journal has no worker.
LEMMA NoJournal ==
    ASSUME IInv, NEW j \in Jobs, journal[j] = NoRef
    PROVE  worker[j] = NoRef /\ task[j] = Engine!Idle
<1>1. worker[j] = NoRef
  BY DEF IInv, TypeOK
<1> QED
  BY <1>1, IdleUnlessRunning DEF At

LEMMA PreparedOK ==
    ASSUME IInv, NEW j \in Jobs, journal[j] = NoRef,
           NEW plan \in Plans, NEW spec \in Specs,
           NEW initial \in Published \cup {NoRef}, NEW parent \in Jobs \cup {NoRef},
           initial = NoRef \/ parent = NoRef,
           parent # NoRef => journal[parent] # NoRef,
           journal' = [journal EXCEPT ![j] = Prepared(plan, spec, initial, parent)],
           UNCHANGED <<store, task, result, worker>>
    PROVE  IInv'
<1> DEFINE J == Prepared(plan, spec, initial, parent)
<1>1. initial \in Ref \cup {NoRef}
  BY RefTyped DEF IInv
<1>2. J \in Journal
  BY <1>1 DEF Prepared, Journal
<1>3. JobOK(j, J)
  <2>1. IsFiniteSet({})
    BY FS_EmptySet
  <2> QED
    BY <2>1 DEF JobOK, Prepared
<1>4. JobFresh(J)
  BY DEF JobFresh, Prepared, IsInjective
<1>5. J.parent = parent
  BY DEF Prepared
<1>6. worker' = [worker EXCEPT ![j] = NoRef] /\ task[j] = Engine!Idle
  BY NoJournal DEF IInv, TypeOK
<1>7. journal' = [journal EXCEPT ![j] = J]
  OBVIOUS
<1> HIDE DEF J
<1> QED
  BY <1>2, <1>3, <1>4, <1>5, <1>6, <1>7, LocalStep

LEMMA SubmitStep ==
    ASSUME IInv, NEW j \in Jobs, NEW plan \in Plans, NEW spec \in Specs,
           Submit(j, plan, spec)
    PROVE  IInv'
  BY PreparedOK DEF Submit, Write

LEMMA SubmitFromStep ==
    ASSUME IInv, NEW j \in Jobs, NEW plan \in Plans, NEW spec \in Specs,
           NEW other \in Jobs, SubmitFrom(j, plan, spec, other)
    PROVE  IInv'
<1>1. journal[other].manifest \in Published \cup {NoRef}
  BY DEF SubmitFrom, IInv, JobInv, JobOK
<1> QED
  BY <1>1, PreparedOK DEF SubmitFrom, Write

LEMMA RerunStep ==
    ASSUME IInv, NEW j \in Jobs, NEW spec \in Specs, NEW parent \in Jobs,
           Rerun(j, spec, parent)
    PROVE  IInv'
<1>1. journal[parent].plan \in Plans
  BY DEF Rerun, IInv, TypeOK, Journal
<1> QED
  BY <1>1, PreparedOK DEF Rerun, Write

\* A request to cancel changes nothing that the others rely on.
LEMMA CancelRequested ==
    ASSUME NEW j, NEW J \in Journal, NEW b \in BOOLEAN
    PROVE  LET K == [J EXCEPT !.cancel = b]
           IN  /\ K \in Journal /\ K.parent = J.parent
               /\ JobOK(j, J) => JobOK(j, K)
               /\ JobFresh(J) => JobFresh(K)
               /\ \A w : WorkerOK(j, J, w) => WorkerOK(j, K, w)
               /\ \A w, t : CallOK(j, J, w, t) => CallOK(j, K, w, t)
               /\ \A w, a : AnswerOK(j, J, w, a) => AnswerOK(j, K, w, a)
<1> DEFINE K == [J EXCEPT !.cancel = b]
<1>1. K \in Journal
  BY DEF Journal
<1>2. /\ K.st = J.st /\ K.manifest = J.manifest /\ K.receipts = J.receipts
      /\ K.started = J.started /\ K.forks = J.forks /\ K.plan = J.plan
      /\ K.spec = J.spec /\ K.initial = J.initial /\ K.parent = J.parent
  BY DEF Journal
<1> HIDE DEF K
<1>3. /\ \A w : /\ StageOf(K, w) = StageOf(J, w)
                /\ ConfigOf(K, w) = ConfigOf(J, w)
                /\ KeyOf(K, w) = KeyOf(J, w)
      /\ \A key : VerifiedIn(K, key) = VerifiedIn(J, key)
      /\ Built(K) <=> Built(J)
  BY <1>2 DEF StageOf, ConfigOf, KeyOf, VerifiedIn, Built
<1>4. JobOK(j, J) => JobOK(j, K)
  BY <1>2, <1>3 DEF JobOK
<1>5. JobFresh(J) => JobFresh(K)
  BY <1>2 DEF JobFresh
<1>6. ASSUME NEW w, WorkerOK(j, J, w)
      PROVE  WorkerOK(j, K, w)
  <2>1. PositionOK(K, w)
    BY <1>2, <1>6 DEF WorkerOK, PositionOK
  <2>2. ManifestOK(j, K, w)
    BY <1>2, <1>3, <1>6 DEF WorkerOK, ManifestOK
  <2>3. NextOK(j, K, w) /\ AttemptOK(K, w)
    BY <1>2, <1>3, <1>6 DEF WorkerOK, NextOK, AttemptOK
  <2> QED
    BY <1>2, <1>6, <2>1, <2>2, <2>3 DEF WorkerOK
<1>7. /\ \A w, t : CallOK(j, J, w, t) => CallOK(j, K, w, t)
      /\ \A w, a : AnswerOK(j, J, w, a) => AnswerOK(j, K, w, a)
  BY <1>3 DEF CallOK, AnswerOK
<1> QED
  BY <1>1, <1>2, <1>4, <1>5, <1>6, <1>7 DEF K

LEMMA RequestCancelStep ==
    ASSUME IInv, NEW j \in Jobs, RequestCancel(j)
    PROVE  IInv'
<1>0. PICK K : K = [journal[j] EXCEPT !.cancel = TRUE]
  OBVIOUS
<1>1. /\ journal[j] \in Journal /\ journal[j] # NoRef
      /\ journal' = [journal EXCEPT ![j] = K]
      /\ UNCHANGED <<store, task, result, worker>>
  BY <1>0 DEF RequestCancel, Write, IInv, TypeOK
<1>2. /\ K \in Journal /\ K.parent = journal[j].parent
      /\ JobOK(j, journal[j]) => JobOK(j, K)
      /\ JobFresh(journal[j]) => JobFresh(K)
      /\ \A w : WorkerOK(j, journal[j], w) => WorkerOK(j, K, w)
      /\ \A w, t : CallOK(j, journal[j], w, t) => CallOK(j, K, w, t)
      /\ \A w, a : AnswerOK(j, journal[j], w, a) => AnswerOK(j, K, w, a)
  BY <1>0, <1>1, CancelRequested
<1>3. StoreInv' /\ RunsHaveOneWriter' /\ store \subseteq store' /\ Published' = Published
  BY <1>1, StoreStays DEF IInv, RunsHaveOneWriter
<1>4. /\ journal'[j] = K /\ journal'[j] # NoRef
      /\ \A k \in Jobs \ {j} : journal'[k] = journal[k]
  BY <1>1, <1>2, NoneAssumption DEF IInv, TypeOK
<1>5. TypeOK'
  <2>1. journal' \in [Jobs -> Journal \cup {NoRef}]
    BY <1>1, <1>2 DEF IInv, TypeOK
  <2>2. \A k \in Jobs : /\ journal[k] # NoRef <=> journal'[k] # NoRef
                        /\ journal'[k] # NoRef => journal'[k].parent = journal[k].parent
    BY <1>1, <1>2, <1>4
  <2>3. \A k \in Jobs : journal[k] # NoRef => journal[k].parent \in Jobs \cup {NoRef}
    BY DEF IInv, TypeOK, Journal
  <2> QED
    BY <1>1, <2>1, <2>2, <2>3 DEF IInv, TypeOK
<1>6. JobInv(j)'
  <2>1. JobOK(j, K) /\ JobFresh(K)
    BY <1>1, <1>2 DEF IInv, JobInv
  <2>2. JobOK(j, K)'
    BY <1>3, <2>1, JobKept DEF IInv
  <2> QED
    BY <1>4, <2>1, <2>2 DEF JobInv, JobFresh
<1>7. WorkerInv(j)'
  <2>1. worker[j] # NoRef => WorkerOK(j, K, worker[j])
    BY <1>2 DEF IInv, WorkerInv
  <2>2. \A w : WorkerOK(j, K, w) => WorkerOK(j, K, w)'
    BY <1>3, WorkerKept DEF IInv
  <2> QED
    BY <1>1, <1>4, <2>1, <2>2 DEF WorkerInv
<1>8. EngineInv(j)'
  <2>1. \A w, t : CallOK(j, K, w, t) => CallOK(j, K, w, t)'
    BY <1>3, CallKept DEF IInv
  <2>7. task[j] # Engine!Idle => CallOK(j, K, worker[j], task[j])
    BY <1>2 DEF IInv, EngineInv
  <2>2. task[j] = Engine!Idle /\ At(j, "running") =>
          AnswerOK(j, K, worker[j], result[j])
    BY <1>2 DEF IInv, EngineInv
  <2>3. worker[j] # NoRef => WorkerOK(j, K, worker[j])
    BY <1>2 DEF IInv, WorkerInv
  <2>4. At(j, "running") /\ StageOf(K, worker[j]) # Build
        => worker[j].manifest \in Published
    BY <2>3 DEF At, WorkerOK, ManifestOK
  <2>5. \A w, a : /\ StageOf(K, w) # Build => w.manifest \in Published
                  /\ AnswerOK(j, K, w, a)
                  => AnswerOK(j, K, w, a)'
    BY <1>3, AnswerKept DEF IInv
  <2>6. Engine!Idle' = Engine!Idle
    BY DEF Engine!Idle
  <2> QED
    BY <1>1, <1>4, <2>1, <2>2, <2>4, <2>5, <2>6, <2>7 DEF EngineInv, At
<1>9. \A k \in Jobs \ {j} :
         /\ worker'[k] = worker[k] /\ task'[k] = task[k] /\ result'[k] = result[k]
  BY <1>1
<1> QED
  BY <1>3, <1>4, <1>5, <1>6, <1>7, <1>8, <1>9, StepKeeps

-----------------------------------------------------------------------------
(* The worker's state changes.                                             *)

\* Journals that differ in their state, their manifest and the request to cancel.
Alike(J, K) ==
    /\ K.receipts = J.receipts /\ K.started = J.started /\ K.forks = J.forks
    /\ K.plan = J.plan /\ K.spec = J.spec
    /\ K.initial = J.initial /\ K.parent = J.parent

LEMMA AlikeOK ==
    ASSUME NEW j, NEW J, NEW K, Alike(J, K)
    PROVE  /\ \A w : /\ StageOf(K, w) = StageOf(J, w)
                     /\ KeyOf(K, w) = KeyOf(J, w)
           /\ \A key : VerifiedIn(K, key) = VerifiedIn(J, key)
           /\ Built(K) <=> Built(J)
           /\ JobFresh(J) => JobFresh(K)
           /\ JobOK(j, J) /\ K.manifest = J.manifest => JobOK(j, K)
           /\ JobOK(j, J) /\ K.manifest \in Published
              /\ (IF J.initial = NoRef THEN Built(J) ELSE K.manifest.by = j)
              => JobOK(j, K)
<1>1. /\ \A w : /\ StageOf(K, w) = StageOf(J, w)
                /\ KeyOf(K, w) = KeyOf(J, w)
      /\ \A key : VerifiedIn(K, key) = VerifiedIn(J, key)
      /\ Built(K) <=> Built(J)
  BY DEF Alike, StageOf, ConfigOf, KeyOf, VerifiedIn, Built
<1>2. JobFresh(J) => JobFresh(K)
  BY DEF Alike, JobFresh
<1>3. JobOK(j, J) /\ K.manifest = J.manifest => JobOK(j, K)
  BY <1>1 DEF Alike, JobOK
<1>4. JobOK(j, J) /\ K.manifest \in Published
      /\ (IF J.initial = NoRef THEN Built(J) ELSE K.manifest.by = j)
      => JobOK(j, K)
  BY <1>1 DEF Alike, JobOK
<1> QED
  BY <1>1, <1>2, <1>3, <1>4

\* The parent of a job exists.
LEMMA ParentExists ==
    ASSUME IInv, NEW j \in Jobs, journal[j] # NoRef, journal[j].parent # NoRef
    PROVE  journal[journal[j].parent] # NoRef
  BY DEF IInv, TypeOK

LEMMA ClaimStep ==
    ASSUME IInv, NEW j \in Jobs, NEW clear \in BOOLEAN, Claim(j, clear)
    PROVE  IInv'
<1> DEFINE given == journal[j].manifest = NoRef
           c == journal[j].cancel /\ ~clear
           S == [journal[j] EXCEPT !.st = "RUNNING"]
           J == [S EXCEPT !.cancel = c]
           m == IF given THEN journal[j].initial ELSE journal[j].manifest
           i == given /\ journal[j].initial # NoRef
           w == [pc |-> "stage", idx |-> 1, manifest |-> m, initialPending |-> i,
                 reusedPending |-> FALSE, next |-> NoRef, copied |-> FALSE,
                 reason |-> NoReason, attempt |-> 0]
<1>1. /\ journal[j] \in Journal /\ journal[j] # NoRef /\ worker[j] = NoRef
      /\ UNCHANGED <<store, task, result>>
      /\ worker' = [worker EXCEPT ![j] = w]
  BY DEF Claim, Goto, IInv, TypeOK
<1>2. journal' = [journal EXCEPT ![j] = J]
  BY DEF Claim, Write
<1>3. JobOK(j, journal[j]) /\ JobFresh(journal[j])
  BY <1>1 DEF IInv, JobInv
<1>4. c \in BOOLEAN /\ i \in BOOLEAN
  OBVIOUS
<1> HIDE DEF c
<1>5. S \in Journal /\ Alike(journal[j], S) /\ S.manifest = journal[j].manifest
      /\ S.st = "RUNNING"
  BY <1>1 DEF Journal, Alike
<1> HIDE DEF S
<1>6. J \in Journal /\ Alike(journal[j], J) /\ J.manifest = journal[j].manifest
      /\ J.st = "RUNNING"
  BY <1>4, <1>5 DEF Journal, Alike
<1> HIDE DEF J
<1>7. JobOK(j, J) /\ JobFresh(J) /\ (Built(J) <=> Built(journal[j]))
  BY <1>3, <1>6, AlikeOK
<1>8. J.parent # NoRef => journal[J.parent] # NoRef
  BY <1>1, <1>6, ParentExists DEF Alike
<1>9. m \in Ref \cup {NoRef}
  BY <1>1 DEF Journal
<1>10. m # NoRef =>
         /\ m \in Published
         /\ J.initial = NoRef => Built(J)
         /\ m.by # j => i \/ J.initial = NoRef
  BY <1>3, <1>6, <1>7 DEF JobOK, Alike
<1>11. i => J.initial # NoRef /\ m # NoRef
  BY <1>6 DEF Alike
<1>12. 1 \in 1..Len(J.plan) + 1 /\ 1 <= Len(J.plan)
  BY <1>6, PlanTyped
<1> HIDE DEF m, i
<1>13. w \in Worker
  BY <1>4, <1>9 DEF Worker, NoReason, Reason
<1>14. /\ w.pc = "stage" /\ w.idx = 1 /\ w.manifest = m /\ w.initialPending = i
       /\ w.reusedPending = FALSE
  OBVIOUS
<1> HIDE DEF w
<1>15. WorkerOK(j, J, w)
  <2>1. PositionOK(J, w)
    BY <1>11, <1>12, <1>14 DEF PositionOK, Executing, Forking
  <2>2. ManifestOK(j, J, w)
    BY <1>10, <1>14 DEF ManifestOK
  <2>3. NextOK(j, J, w) /\ AttemptOK(J, w)
    BY <1>14 DEF NextOK, AttemptOK, Executing, Forking
  <2> QED
    BY <1>6, <2>1, <2>2, <2>3 DEF WorkerOK
<1>16. task[j] = Engine!Idle
  BY <1>1, IdleUnlessRunning DEF At
<1> QED
  BY <1>1, <1>2, <1>6, <1>7, <1>8, <1>13, <1>14, <1>15, <1>16, LocalStep

\* A worker ends, with a manifest that the journal may name.
LEMMA FinishStep ==
    ASSUME IInv, NEW j \in Jobs, NEW st \in Terminal, NEW manifest,
           worker[j] # NoRef, worker[j].pc # "running",
           manifest = journal[j].manifest
           \/ /\ manifest \in Published
              /\ IF journal[j].initial = NoRef THEN Built(journal[j])
                 ELSE manifest.by = j,
           Finish(j, st, manifest)
    PROVE  IInv'
<1> DEFINE S == [journal[j] EXCEPT !.st = st]
           J == [S EXCEPT !.manifest = manifest]
<1>1. /\ journal[j] \in Journal /\ journal[j] # NoRef
      /\ JobOK(j, journal[j]) /\ JobFresh(journal[j])
  BY Alive
<1>2. /\ UNCHANGED <<store, task, result>>
      /\ worker' = [worker EXCEPT ![j] = NoRef]
      /\ journal' = [journal EXCEPT ![j] = J]
  BY DEF Finish, Goto, Write
<1>3. manifest \in Ref \cup {NoRef}
  BY <1>1, RefTyped DEF IInv, Journal
<1>4. S \in Journal /\ Alike(journal[j], S)
  BY <1>1 DEF Journal, Alike
<1> HIDE DEF S
<1>5. J \in Journal /\ Alike(journal[j], J) /\ J.manifest = manifest
  BY <1>3, <1>4 DEF Journal, Alike
<1> HIDE DEF J
<1>6. JobOK(j, J) /\ JobFresh(J)
  BY <1>1, <1>5, AlikeOK
<1>7. J.parent # NoRef => journal[J.parent] # NoRef
  BY <1>1, <1>5, ParentExists DEF Alike
<1>8. task[j] = Engine!Idle
  BY IdleUnlessRunning DEF At
<1> QED
  BY <1>2, <1>5, <1>6, <1>7, <1>8, LocalStep

LEMMA CancelStep ==
    ASSUME IInv, NEW j \in Jobs, Cancel(j)
    PROVE  IInv'
  BY FinishStep DEF Cancel, At, Terminal

LEMMA FailStep ==
    ASSUME IInv, NEW j \in Jobs, Fail(j)
    PROVE  IInv'
  BY FinishStep DEF Fail, At, Terminal

LEMMA SucceedStep ==
    ASSUME IInv, NEW j \in Jobs, Succeed(j)
    PROVE  IInv'
<1>1. /\ worker[j] # NoRef /\ worker[j].pc = "collect"
      /\ Finish(j, "SUCCEEDED", worker[j].manifest)
  BY DEF Succeed, At
<1>2. WorkerOK(j, journal[j], worker[j]) /\ journal[j] \in Journal
  BY <1>1, Alive
<1>3. worker[j].idx > 1
  BY <1>1, <1>2, PlanTyped DEF WorkerOK, PositionOK
<1>4. worker[j].manifest # NoRef
  BY <1>2, <1>3 DEF WorkerOK, PositionOK
<1>5. /\ worker[j].manifest \in Published
      /\ IF journal[j].initial = NoRef THEN Built(journal[j])
         ELSE worker[j].manifest.by = j
  BY <1>1, <1>2, <1>4 DEF WorkerOK, ManifestOK, Forking
<1> QED
  BY <1>1, <1>5, FinishStep DEF Terminal

-----------------------------------------------------------------------------
(* The worker's steps that write nothing.                                  *)

LEMMA MoveStep ==
    ASSUME IInv, NEW j \in Jobs, worker[j] # NoRef, worker[j].pc # "running",
           NEW w \in Worker, WorkerOK(j, journal[j], w), w.pc # "running",
           Goto(j, w), UNCHANGED <<store, task, result, journal>>
    PROVE  IInv'
<1>1. /\ journal[j] \in Journal /\ journal[j] # NoRef
      /\ JobOK(j, journal[j]) /\ JobFresh(journal[j])
  BY Alive
<1>2. journal' = [journal EXCEPT ![j] = journal[j]]
  BY DEF IInv, TypeOK
<1>3. worker' = [worker EXCEPT ![j] = w]
  BY DEF Goto
<1>4. journal[j].parent # NoRef => journal[journal[j].parent] # NoRef
  BY <1>1, ParentExists
<1>5. task[j] = Engine!Idle
  BY IdleUnlessRunning DEF At
<1> QED
  BY <1>1, <1>2, <1>3, <1>4, <1>5, LocalStep

\* Moves that keep all else, and the fork that is asked for.
LEMMA Moved ==
    ASSUME NEW w \in Worker, NEW p, p \in {x.pc : x \in Worker}
    PROVE  LET v == [w EXCEPT !.pc = p]
           IN  /\ v \in Worker /\ v.pc = p /\ v.idx = w.idx
               /\ v.manifest = w.manifest /\ v.initialPending = w.initialPending
               /\ v.reusedPending = w.reusedPending /\ v.next = w.next
               /\ v.copied = w.copied /\ v.reason = w.reason
               /\ v.attempt = w.attempt
  BY DEF Worker

LEMMA Asked ==
    ASSUME NEW w \in Worker, NEW r \in Reason
    PROVE  LET v == [w EXCEPT !.pc = "fork", !.reason = r]
           IN  /\ v \in Worker /\ v.pc = "fork" /\ v.idx = w.idx
               /\ v.manifest = w.manifest /\ v.initialPending = w.initialPending
               /\ v.reusedPending = w.reusedPending /\ v.reason = r
<1> DEFINE u == [w EXCEPT !.pc = "fork"]
           v == [u EXCEPT !.reason = r]
<1>1. /\ u \in Worker /\ u.pc = "fork" /\ u.idx = w.idx /\ u.manifest = w.manifest
      /\ u.initialPending = w.initialPending /\ u.reusedPending = w.reusedPending
  BY DEF Worker
<1> HIDE DEF u
<1>2. /\ v \in Worker /\ v.pc = "fork" /\ v.idx = w.idx /\ v.manifest = w.manifest
      /\ v.initialPending = w.initialPending /\ v.reusedPending = w.reusedPending
      /\ v.reason = r
  BY <1>1 DEF Worker
<1> QED
  BY <1>2 DEF u

\* The stage, its key and the plan's end depend on the index and the manifest.
LEMMA SameKey ==
    ASSUME NEW J, NEW w, NEW v, v.idx = w.idx, v.manifest = w.manifest
    PROVE  /\ StageOf(J, v) = StageOf(J, w) /\ ConfigOf(J, v) = ConfigOf(J, w)
           /\ KeyOf(J, v) = KeyOf(J, w)
  BY DEF StageOf, ConfigOf, KeyOf

LEMMA BeginStageStep ==
    ASSUME IInv, NEW j \in Jobs, BeginStage(j)
    PROVE  IInv'
<1>1. /\ worker[j] # NoRef /\ worker[j].pc = "stage" /\ ~AtEnd(j)
      /\ UNCHANGED <<store, task, result, journal>>
  BY DEF BeginStage, At
<1> DEFINE J == journal[j]
           o == worker[j]
<1>2. /\ o \in Worker /\ J \in Journal /\ WorkerOK(j, J, o)
  BY <1>1, Alive
<1>3. o.idx \in Nat /\ o.idx <= Len(J.plan) /\ o.idx \in 1..Len(J.plan)
  BY <1>1, <1>2, PlanTyped DEF AtEnd, WorkerOK, PositionOK
<1>4. CASE o.initialPending
  <2> DEFINE r == [why |-> "initial", stage |-> Stage(j)]
             w == [o EXCEPT !.pc = "fork", !.reason = r]
  <2>1. Goto(j, w)
    BY <1>4 DEF BeginStage
  <2>2. Stage(j) \in StageNames
    BY <1>2, <1>3, PlanTyped DEF Stage
  <2>3. r \in Reason /\ r.why = "initial"
    BY <2>2 DEF Reason
  <2>4. /\ w \in Worker /\ w.pc = "fork" /\ w.idx = o.idx /\ w.manifest = o.manifest
        /\ w.initialPending = o.initialPending /\ w.reusedPending = o.reusedPending
        /\ w.reason = r
    BY <1>2, <2>3, Asked
  <2> HIDE DEF w, r
  <2>5. PositionOK(J, w)
    BY <1>2, <1>4, <2>3, <2>4 DEF WorkerOK, PositionOK, Forking, Executing
  <2>6. ManifestOK(j, J, w)
    BY <1>2, <1>1, <1>4, <2>4 DEF WorkerOK, ManifestOK, Forking, PositionOK
  <2>7. NextOK(j, J, w) /\ AttemptOK(J, w)
    BY <1>4, <2>4 DEF NextOK, AttemptOK, Forking, Executing
  <2>8. WorkerOK(j, J, w)
    BY <1>2, <2>5, <2>6, <2>7 DEF WorkerOK
  <2> QED
    BY <1>1, <2>1, <2>4, <2>8, MoveStep
<1>5. CASE ~o.initialPending
  <2> DEFINE w == [o EXCEPT !.pc = "key"]
  <2>1. Goto(j, w)
    BY <1>5 DEF BeginStage
  <2>2. /\ w \in Worker /\ w.pc = "key" /\ w.idx = o.idx /\ w.manifest = o.manifest
        /\ w.initialPending = o.initialPending /\ w.reusedPending = o.reusedPending
    BY <1>2 DEF Worker
  <2> HIDE DEF w
  <2>3. PositionOK(J, w)
    BY <1>2, <1>3, <1>5, <2>2 DEF WorkerOK, PositionOK, Forking, Executing
  <2>4. ManifestOK(j, J, w)
    BY <1>1, <1>2, <1>5, <2>2 DEF WorkerOK, ManifestOK, Forking
  <2>5. NextOK(j, J, w) /\ AttemptOK(J, w)
    BY <2>2 DEF NextOK, AttemptOK, Forking, Executing
  <2>6. WorkerOK(j, J, w)
    BY <1>2, <2>3, <2>4, <2>5 DEF WorkerOK
  <2> QED
    BY <1>1, <2>1, <2>2, <2>6, MoveStep
<1> QED
  BY <1>4, <1>5

\* A receipt is about to be committed.
LEMMA Reusing ==
    ASSUME NEW o \in Worker, NEW q, q.out \in Ref \cup {NoRef}, q.copied \in BOOLEAN,
           NEW j
    PROVE  LET w == Reuse(j, o, q)
           IN  /\ w \in Worker /\ w.pc = "reuse" /\ w.idx = o.idx
               /\ w.manifest = o.manifest /\ w.initialPending = o.initialPending
               /\ w.reusedPending = o.reusedPending
               /\ w.next = q.out /\ w.copied = q.copied
<1> DEFINE u == [o EXCEPT !.pc = "reuse"]
           v == [u EXCEPT !.next = q.out]
           w == [v EXCEPT !.copied = q.copied]
<1>1. /\ u \in Worker /\ u.pc = "reuse" /\ u.idx = o.idx /\ u.manifest = o.manifest
      /\ u.initialPending = o.initialPending /\ u.reusedPending = o.reusedPending
  BY DEF Worker
<1> HIDE DEF u
<1>2. /\ v \in Worker /\ v.pc = "reuse" /\ v.idx = o.idx /\ v.manifest = o.manifest
      /\ v.initialPending = o.initialPending /\ v.reusedPending = o.reusedPending
      /\ v.next = q.out
  BY <1>1 DEF Worker
<1> HIDE DEF v
<1>3. /\ w \in Worker /\ w.pc = "reuse" /\ w.idx = o.idx /\ w.manifest = o.manifest
      /\ w.initialPending = o.initialPending /\ w.reusedPending = o.reusedPending
      /\ w.next = q.out /\ w.copied = q.copied
  BY <1>2 DEF Worker
<1>4. Reuse(j, o, q) = w
  BY DEF Reuse, u, v
<1> QED
  BY <1>3, <1>4

LEMMA ReuseOwnStep ==
    ASSUME IInv, NEW j \in Jobs, ReuseOwn(j)
    PROVE  IInv'
<1>1. /\ worker[j] # NoRef /\ worker[j].pc = "key"
      /\ UNCHANGED <<store, task, result, journal>>
  BY DEF ReuseOwn, At
<1>2. PICK q \in Verified(j, StageKey(j)) : Goto(j, Reuse(j, worker[j], q))
  BY DEF ReuseOwn
<1> DEFINE J == journal[j]
           o == worker[j]
           w == Reuse(j, o, q)
<1>3. /\ o \in Worker /\ J \in Journal /\ WorkerOK(j, J, o)
  BY <1>1, Alive
<1>4. q \in VerifiedIn(J, KeyOf(J, o)) /\ q \in Receipt
  BY <1>2, <1>3, StageKeyIs, VerifiedIs DEF VerifiedIn, Journal
<1>5. /\ w \in Worker /\ w.pc = "reuse" /\ w.idx = o.idx /\ w.manifest = o.manifest
      /\ w.initialPending = o.initialPending /\ w.reusedPending = o.reusedPending
      /\ w.next = q.out /\ w.copied = q.copied
  BY <1>3, <1>4, Reusing DEF Receipt
<1> HIDE DEF w
<1>6. PositionOK(J, w)
  BY <1>1, <1>3, <1>5 DEF WorkerOK, PositionOK, Forking, Executing
<1>7. ManifestOK(j, J, w)
  BY <1>1, <1>3, <1>5 DEF WorkerOK, ManifestOK, Forking
<1>8. NextOK(j, J, w) /\ AttemptOK(J, w)
  BY <1>4, <1>5, SameKey DEF NextOK, AttemptOK, Forking, Executing
<1>9. WorkerOK(j, J, w)
  BY <1>3, <1>6, <1>7, <1>8 DEF WorkerOK
<1> QED
  BY <1>1, <1>2, <1>5, <1>9, MoveStep DEF w

\* The first stage of a job that has built is not executed again.
LEMMA BuiltIsReused ==
    ASSUME NEW J, NEW w, w.idx = 1, Built(J)
    PROVE  VerifiedIn(J, KeyOf(J, w)) # {}
<1>1. StageOf(J, w) = Build
  BY DEF StageOf, Built
<1>2. KeyOf(J, w) = [name |-> Build, cfg |-> J.spec[Build], input |-> NoRef]
  BY <1>1 DEF KeyOf, ConfigOf
<1> QED
  BY <1>2 DEF Built

LEMMA ReuseNothingStep ==
    ASSUME IInv, NEW j \in Jobs, ReuseNothing(j)
    PROVE  IInv'
<1>1. /\ worker[j] # NoRef /\ worker[j].pc = "key"
      /\ UNCHANGED <<store, task, result, journal>>
  BY DEF ReuseNothing, At
<1> DEFINE J == journal[j]
           o == worker[j]
<1>2. /\ o \in Worker /\ J \in Journal /\ WorkerOK(j, J, o)
  BY <1>1, Alive
<1>3. o.idx \in Nat /\ o.idx <= Len(J.plan) /\ o.idx \in 1..Len(J.plan)
      /\ ~o.initialPending
  BY <1>1, <1>2, PlanTyped DEF WorkerOK, PositionOK, Forking
<1>4. VerifiedIn(J, KeyOf(J, o)) = {}
  BY StageKeyIs, VerifiedIs DEF ReuseNothing
<1>5. CASE o.reusedPending /\ o.manifest # NoRef
  <2> DEFINE r == [why |-> "reused", stage |-> Stage(j)]
             w == [o EXCEPT !.pc = "fork", !.reason = r]
  <2>1. Goto(j, w)
    BY <1>5 DEF ReuseNothing
  <2>2. Stage(j) \in StageNames
    BY <1>2, <1>3, PlanTyped DEF Stage
  <2>3. r \in Reason /\ r.why = "reused"
    BY <2>2 DEF Reason
  <2>4. /\ w \in Worker /\ w.pc = "fork" /\ w.idx = o.idx /\ w.manifest = o.manifest
        /\ w.initialPending = o.initialPending /\ w.reusedPending = o.reusedPending
        /\ w.reason = r
    BY <1>2, <2>3, Asked
  <2> HIDE DEF w, r
  <2>5. PositionOK(J, w)
    BY <1>2, <1>3, <1>5, <2>3, <2>4 DEF WorkerOK, PositionOK, Forking, Executing
  <2>6. ManifestOK(j, J, w)
    BY <1>1, <1>2, <1>5, <2>4 DEF WorkerOK, ManifestOK, Forking
  <2>7. NextOK(j, J, w) /\ AttemptOK(J, w)
    BY <1>4, <2>4, SameKey DEF NextOK, AttemptOK, Forking, Executing
  <2>8. WorkerOK(j, J, w)
    BY <1>2, <2>5, <2>6, <2>7 DEF WorkerOK
  <2> QED
    BY <1>1, <2>1, <2>4, <2>8, MoveStep
<1>6. CASE ~(o.reusedPending /\ o.manifest # NoRef)
  <2> DEFINE w == [o EXCEPT !.pc = "start"]
  <2>1. Goto(j, w)
    BY <1>6 DEF ReuseNothing
  <2>2. /\ w \in Worker /\ w.pc = "start" /\ w.idx = o.idx /\ w.manifest = o.manifest
        /\ w.initialPending = o.initialPending /\ w.reusedPending = o.reusedPending
    BY <1>2 DEF Worker
  <2> HIDE DEF w
  <2>3. PositionOK(J, w)
    BY <1>2, <1>3, <2>2 DEF WorkerOK, PositionOK, Forking, Executing
  <2>4. ManifestOK(j, J, w)
    <3>1. o.idx = 1 /\ Built(J) => FALSE
      BY <1>4, BuiltIsReused
    <3>2. o.manifest # NoRef => o.manifest.by = j
      BY <1>1, <1>2, <1>3, <1>6, <3>1 DEF WorkerOK, ManifestOK, Forking
    <3> QED
      BY <1>1, <1>2, <2>2, <3>2 DEF WorkerOK, ManifestOK, Forking
  <2>5. NextOK(j, J, w) /\ AttemptOK(J, w)
    BY <1>4, <2>2, SameKey DEF NextOK, AttemptOK, Forking, Executing
  <2>6. WorkerOK(j, J, w)
    BY <1>2, <2>3, <2>4, <2>5 DEF WorkerOK
  <2> QED
    BY <1>1, <2>1, <2>2, <2>6, MoveStep
<1> QED
  BY <1>5, <1>6

\* After a fork there is nothing to reuse: the key of the fork is its source's.
LEMMA NothingAfterFork ==
    ASSUME IInv, NEW j \in Jobs, At(j, "start")
    PROVE  Verified(j, StageKey(j)) = {}
<1>1. WorkerOK(j, journal[j], worker[j])
  BY Alive DEF At
<1> QED
  BY <1>1, StageKeyIs, VerifiedIs DEF At, WorkerOK, AttemptOK, Executing

LEMMA ForkAgainStep ==
    ASSUME IInv, NEW j \in Jobs, ForkAgain(j)
    PROVE  IInv'
<1>1. /\ worker[j] # NoRef /\ worker[j].pc = "fork"
      /\ UNCHANGED <<store, task, result, journal>>
  BY DEF ForkAgain, At
<1>2. PICK f \in RecordedForks(j) :
          Goto(j, [worker[j] EXCEPT !.pc = "adopt", !.next = f.fork])
  BY DEF ForkAgain
<1> DEFINE J == journal[j]
           o == worker[j]
           u == [o EXCEPT !.pc = "adopt"]
           w == [u EXCEPT !.next = f.fork]
<1>3. /\ o \in Worker /\ J \in Journal /\ WorkerOK(j, J, o) /\ JobOK(j, J)
  BY <1>1, Alive
<1>4. /\ f.fork \in Published /\ f.fork.by = j /\ f.fork.rev = 0
      /\ Load(f.fork).source = o.manifest /\ f.fork \in Ref
  BY <1>3, RefTyped DEF RecordedForks, JobOK, ForkTrue, IInv
<1>5. Goto(j, w)
  BY <1>2
<1>6. /\ u \in Worker /\ u.pc = "adopt" /\ u.idx = o.idx /\ u.manifest = o.manifest
      /\ u.initialPending = o.initialPending /\ u.reusedPending = o.reusedPending
      /\ u.reason = o.reason
  BY <1>3 DEF Worker
<1> HIDE DEF u
<1>7. /\ w \in Worker /\ w.pc = "adopt" /\ w.idx = o.idx /\ w.manifest = o.manifest
      /\ w.initialPending = o.initialPending /\ w.reusedPending = o.reusedPending
      /\ w.reason = o.reason /\ w.next = f.fork
  BY <1>4, <1>6 DEF Worker
<1> HIDE DEF w
<1>8. PositionOK(J, w)
  BY <1>1, <1>3, <1>7 DEF WorkerOK, PositionOK, Forking, Executing
<1>9. ManifestOK(j, J, w)
  BY <1>1, <1>3, <1>7 DEF WorkerOK, ManifestOK, Forking
<1>10. NextOK(j, J, w)
  BY <1>4, <1>7 DEF NextOK
<1>11. AttemptOK(J, w)
  BY <1>1, <1>3, <1>7, SameKey DEF WorkerOK, AttemptOK, Forking, Executing
<1>12. WorkerOK(j, J, w)
  BY <1>3, <1>8, <1>9, <1>10, <1>11 DEF WorkerOK
<1> QED
  BY <1>1, <1>5, <1>7, <1>12, MoveStep

LEMMA EndOfStagesStep ==
    ASSUME IInv, NEW j \in Jobs, EndOfStages(j)
    PROVE  IInv'
<1>1. /\ worker[j] # NoRef /\ worker[j].pc = "stage" /\ AtEnd(j)
      /\ UNCHANGED <<store, task, result, journal>>
  BY DEF EndOfStages, At
<1> DEFINE J == journal[j]
           o == worker[j]
<1>2. /\ o \in Worker /\ J \in Journal /\ WorkerOK(j, J, o)
  BY <1>1, Alive
<1>3. o.idx \in Nat /\ o.idx = Len(J.plan) + 1 /\ o.idx > 1 /\ ~o.initialPending
  BY <1>1, <1>2, PlanTyped DEF AtEnd, WorkerOK, PositionOK
<1>4. CASE o.reusedPending /\ o.manifest # NoRef
  <2> DEFINE w == [o EXCEPT !.pc = "fork", !.reason = NoReason]
  <2>1. Goto(j, w)
    BY <1>4 DEF EndOfStages
  <2>2. NoReason \in Reason /\ NoReason.why = "reused"
    BY DEF Reason, NoReason
  <2>3. /\ w \in Worker /\ w.pc = "fork" /\ w.idx = o.idx /\ w.manifest = o.manifest
        /\ w.initialPending = o.initialPending /\ w.reusedPending = o.reusedPending
        /\ w.reason = NoReason
    BY <1>2, <2>2, Asked
  <2> HIDE DEF w
  <2>4. PositionOK(J, w)
    BY <1>2, <1>3, <1>4, <2>2, <2>3 DEF WorkerOK, PositionOK, Forking, Executing
  <2>5. ManifestOK(j, J, w)
    BY <1>1, <1>2, <1>4, <2>3 DEF WorkerOK, ManifestOK, Forking
  <2>6. NextOK(j, J, w)
    BY <2>3 DEF NextOK
  <2>7. AttemptOK(J, w)
    <3>1. Len(J.plan) \in Nat
      BY <1>2, PlanTyped
    <3> QED
      BY <1>3, <2>3, <3>1 DEF AttemptOK, Forking, Executing
  <2>8. WorkerOK(j, J, w)
    BY <1>2, <2>4, <2>5, <2>6, <2>7 DEF WorkerOK
  <2> QED
    BY <1>1, <2>1, <2>3, <2>8, MoveStep
<1>5. CASE ~(o.reusedPending /\ o.manifest # NoRef)
  <2> DEFINE w == [o EXCEPT !.pc = "collect"]
  <2>1. Goto(j, w)
    BY <1>5 DEF EndOfStages
  <2>2. /\ w \in Worker /\ w.pc = "collect" /\ w.idx = o.idx /\ w.manifest = o.manifest
        /\ w.initialPending = o.initialPending /\ w.reusedPending = o.reusedPending
    BY <1>2 DEF Worker
  <2> HIDE DEF w
  <2>3. PositionOK(J, w)
    BY <1>2, <1>3, <2>2 DEF WorkerOK, PositionOK, Forking, Executing
  <2>4. ManifestOK(j, J, w)
    BY <1>1, <1>2, <1>3, <1>5, <2>2 DEF WorkerOK, ManifestOK, Forking
  <2>5. NextOK(j, J, w) /\ AttemptOK(J, w)
    BY <2>2 DEF NextOK, AttemptOK, Forking, Executing
  <2>6. WorkerOK(j, J, w)
    BY <1>2, <2>3, <2>4, <2>5 DEF WorkerOK
  <2> QED
    BY <1>1, <2>1, <2>2, <2>6, MoveStep
<1> QED
  BY <1>4, <1>5

-----------------------------------------------------------------------------
(* The worker's receipts.                                                  *)

\* A receipt of a new attempt.
LEMMA ReceiptAdded ==
    ASSUME NEW j, NEW J \in Journal, NEW q \in Receipt, JobOK(j, J), JobFresh(J),
           ReceiptTrue(q), q.ok /\ ~q.copied => q.out.by = j,
           q.copied => J.initial = NoRef,
           \A r \in J.receipts : r.key = q.key => r.attempt < q.attempt
    PROVE  LET K == [J EXCEPT !.receipts = @ \cup {q}]
           IN  /\ K \in Journal /\ JobOK(j, K) /\ JobFresh(K)
               /\ K.st = J.st /\ K.plan = J.plan /\ K.initial = J.initial
               /\ K.parent = J.parent
               /\ K.receipts = J.receipts \cup {q}
               /\ \A w : KeyOf(K, w) = KeyOf(J, w) /\ StageOf(K, w) = StageOf(J, w)
               /\ \A key : VerifiedIn(J, key) \subseteq VerifiedIn(K, key)
               /\ Built(J) => Built(K)
               /\ q.ok => q \in VerifiedIn(K, q.key)
<1> DEFINE K == [J EXCEPT !.receipts = @ \cup {q}]
<1>1. K \in Journal
  <2>1. J.receipts \cup {q} \subseteq Receipt
    BY DEF Journal
  <2> QED
    BY <2>1 DEF Journal
<1>2. /\ K.receipts = J.receipts \cup {q}
      /\ K.st = J.st /\ K.manifest = J.manifest /\ K.started = J.started
      /\ K.forks = J.forks /\ K.plan = J.plan /\ K.spec = J.spec
      /\ K.initial = J.initial /\ K.parent = J.parent
  BY DEF Journal
<1> HIDE DEF K
<1>3. \A w : KeyOf(K, w) = KeyOf(J, w) /\ StageOf(K, w) = StageOf(J, w)
  BY <1>2 DEF KeyOf, StageOf, ConfigOf
<1>4. \A key : VerifiedIn(J, key) \subseteq VerifiedIn(K, key)
  BY <1>2 DEF VerifiedIn
<1>5. Built(J) => Built(K)
  BY <1>2, <1>4 DEF Built
<1>6. q.ok => q \in VerifiedIn(K, q.key)
  BY <1>2 DEF VerifiedIn
<1>7. JobFresh(K)
  <2>1. q.attempt \in Nat /\ \A r \in J.receipts : r.attempt \in Nat
    BY DEF Receipt, Journal
  <2>2. \A r \in J.receipts : r.key = q.key => r.attempt # q.attempt
    BY <2>1
  <2> QED
    BY <1>2, <2>2 DEF JobFresh
<1>8. JobOK(j, K)
  <2>1. IsFiniteSet(K.receipts)
    BY <1>2, FS_AddElement DEF JobOK
  <2>2. \A r \in K.receipts :
           /\ ReceiptTrue(r)
           /\ r.ok /\ ~r.copied => r.out.by = j
           /\ r.copied => K.initial = NoRef
    BY <1>2 DEF JobOK
  <2>3. /\ \A f \in K.forks : ForkTrue(j, f)
        /\ K.initial # NoRef => K.initial \in Published /\ K.parent = NoRef
        /\ K.manifest # NoRef =>
              /\ K.manifest \in Published
              /\ IF K.initial = NoRef THEN Built(K) ELSE K.manifest.by = j
    BY <1>2, <1>5 DEF JobOK
  <2> QED
    BY <2>1, <2>2, <2>3 DEF JobOK
<1> QED
  BY <1>1, <1>2, <1>3, <1>4, <1>5, <1>6, <1>7, <1>8 DEF K

\* Receipts and started attempts reserve their numbers.
LEMMA NewAttempt ==
    ASSUME NEW j, journal[j] \in Journal, IsFiniteSet(journal[j].receipts), NEW key
    PROVE  /\ JournalAttempt(j, key) \in Nat
           /\ \A q \in journal[j].receipts :
                 q.key = key => q.attempt < JournalAttempt(j, key)
           /\ \A i \in DOMAIN journal[j].started :
                 journal[j].started[i].key = key
                 => journal[j].started[i].attempt < JournalAttempt(j, key)
<1> DEFINE receipts == journal[j].receipts
           started == journal[j].started
           A == {r \in receipts : r.key = key}
           B == {e \in ToSet(started) : e.key = key}
           AN == {q.attempt : q \in A}
           BN == {q.attempt : q \in B}
           S == {0} \cup AN \cup BN
<1>1. /\ receipts \subseteq Receipt
      /\ started \in Seq([key : Key, attempt : Nat])
  BY DEF Journal
<1>2. IsFiniteSet(AN)
  <2>1. IsFiniteSet(A)
    BY FS_Subset
  <2> DEFINE f == [q \in A |-> q.attempt]
  <2>2. AN = {f[x] : x \in A}
    OBVIOUS
  <2> HIDE DEF A, AN, f
  <2> QED
    BY <2>1, <2>2, ImageIsFinite
<1>3. IsFiniteSet(BN)
  <2>1. IsFiniteSet(DOMAIN started)
    BY <1>1, FS_Interval
  <2>2. ToSet(started) = {started[x] : x \in DOMAIN started}
    BY DEF ToSet
  <2>3. IsFiniteSet(ToSet(started))
    BY <2>1, <2>2, ImageIsFinite
  <2>4. IsFiniteSet(B)
    BY <2>3, FS_Subset
  <2> DEFINE f == [q \in B |-> q.attempt]
  <2>5. BN = {f[x] : x \in B}
    OBVIOUS
  <2> HIDE DEF B, BN, f
  <2> QED
    BY <2>4, <2>5, ImageIsFinite
<1>4. AN \subseteq Nat
  BY <1>1 DEF Receipt
<1>5. \A e \in ToSet(started) : e.attempt \in Nat
  <2> SUFFICES ASSUME NEW i \in DOMAIN started
               PROVE  started[i].attempt \in Nat
    BY DEF ToSet
  <2>1. DOMAIN started = 1..Len(started) /\ Len(started) \in Nat
    BY <1>1
  <2> DEFINE E == [key : Key, attempt : Nat]
  <2>2. started \in Seq(E)
    BY <1>1
  <2>3. started[i] \in E
    <3> HIDE DEF started, E
    <3> QED
      BY <2>1, <2>2
  <2> QED
    BY <2>3
<1>6. BN \subseteq Nat
  BY <1>5
<1>7. IsFiniteSet(S)
  BY <1>2, <1>3, FS_Union, FS_Singleton
<1>8. S \subseteq Nat /\ S # {}
  BY <1>4, <1>6
<1>9. Max(S) \in S /\ \A y \in S : y <= Max(S)
  BY <1>7, <1>8, MaxProperties
<1>10. JournalAttempt(j, key) = 1 + Max(S)
  BY DEF JournalAttempt
<1>11. \A q \in receipts : q.key = key => q.attempt \in S
  OBVIOUS
<1>12. \A i \in DOMAIN started : started[i] \in ToSet(started)
  BY DEF ToSet
<1>13. \A i \in DOMAIN started : started[i].key = key => started[i].attempt \in S
  BY <1>12
<1> HIDE DEF S
<1>14. /\ Max(S) \in Nat
       /\ \A y \in S : y < 1 + Max(S)
  <2> DEFINE m == Max(S)
  <2>1. m \in Nat /\ \A y \in S : y \in Nat /\ y <= m
    BY <1>8, <1>9
  <2> HIDE DEF m
  <2>2. \A y \in S : y < 1 + m
    BY <2>1
  <2> QED
    BY <2>1, <2>2 DEF m
<1> QED
  BY <1>10, <1>11, <1>13, <1>14

LEMMA ReuseParentStep ==
    ASSUME IInv, NEW j \in Jobs, ReuseParent(j)
    PROVE  IInv'
<1> DEFINE o == worker[j]
           parent == journal[j].parent
<1>1. /\ o # NoRef /\ o.pc = "key" /\ parent # NoRef
      /\ UNCHANGED <<store, task, result>>
  BY DEF ReuseParent, At
<1>2. /\ o \in Worker /\ journal[j] \in Journal /\ journal[j] # NoRef
      /\ WorkerOK(j, journal[j], o) /\ JobOK(j, journal[j]) /\ JobFresh(journal[j])
  BY <1>1, Alive
<1>3. /\ parent \in Jobs /\ journal[parent] # NoRef /\ journal[parent] \in Journal
      /\ JobOK(parent, journal[parent])
  <2>1. parent \in Jobs
    BY <1>1, <1>2 DEF Journal
  <2>2. journal[parent] # NoRef
    BY <1>1, <1>2, ParentExists
  <2> QED
    BY <2>1, <2>2 DEF IInv, TypeOK, JobInv
<1>4. PICK p \in Verified(parent, StageKey(j)) :
         /\ Write(j, [journal[j] EXCEPT !.receipts = @ \cup {Copied(j, p)}])
         /\ Goto(j, Reuse(j, o, Copied(j, p)))
  BY DEF ReuseParent
<1>5. /\ p \in journal[parent].receipts /\ p.ok /\ p.key = KeyOf(journal[j], o)
      /\ ReceiptTrue(p) /\ p \in Receipt
  BY <1>3, <1>4, StageKeyIs DEF Verified, JobOK, Journal
<1>6. PICK q : q = Copied(j, p)
  OBVIOUS
<1>7. /\ JournalAttempt(j, p.key) \in Nat
      /\ \A r \in journal[j].receipts :
            r.key = p.key => r.attempt < JournalAttempt(j, p.key)
  BY <1>2, NewAttempt DEF JobOK
<1>8. /\ q \in Receipt /\ q.key = p.key /\ q.ok /\ q.copied /\ q.out = p.out
      /\ q.attempt = JournalAttempt(j, p.key)
  <2> DEFINE n == JournalAttempt(j, p.key)
             u == [p EXCEPT !.attempt = n]
             v == [u EXCEPT !.copied = TRUE]
  <2>1. n \in Nat
    BY <1>7
  <2> HIDE DEF n
  <2>2. /\ u \in Receipt /\ u.key = p.key /\ u.ok = p.ok /\ u.out = p.out
        /\ u.attempt = n
    BY <1>5, <2>1 DEF Receipt
  <2> HIDE DEF u
  <2>3. /\ v \in Receipt /\ v.key = p.key /\ v.ok = p.ok /\ v.out = p.out
        /\ v.attempt = n /\ v.copied
    BY <2>2 DEF Receipt
  <2>4. q = v
    BY <1>6 DEF Copied, u, n
  <2> QED
    BY <1>5, <2>3, <2>4 DEF n
<1>9. ReceiptTrue(q)
  BY <1>5, <1>8 DEF ReceiptTrue
<1>10. journal[j].initial = NoRef
  BY <1>1, <1>2 DEF JobOK
<1>11. PICK K : K = [journal[j] EXCEPT !.receipts = @ \cup {q}]
  OBVIOUS
<1>12. \A r \in journal[j].receipts : r.key = q.key => r.attempt < q.attempt
  BY <1>7, <1>8
<1>13. /\ K \in Journal /\ JobOK(j, K) /\ JobFresh(K)
       /\ K.st = journal[j].st /\ K.plan = journal[j].plan
       /\ K.initial = journal[j].initial /\ K.parent = parent
       /\ \A w : KeyOf(K, w) = KeyOf(journal[j], w)
                 /\ StageOf(K, w) = StageOf(journal[j], w)
       /\ Built(journal[j]) => Built(K)
       /\ q \in VerifiedIn(K, q.key)
  BY <1>2, <1>8, <1>9, <1>10, <1>11, <1>12, ReceiptAdded
<1>14. PICK w : w = Reuse(j, o, q)
  OBVIOUS
<1>15. q.out \in Ref \cup {NoRef} /\ q.copied \in BOOLEAN
  BY <1>8 DEF Receipt
<1>16. /\ w \in Worker /\ w.pc = "reuse" /\ w.idx = o.idx /\ w.manifest = o.manifest
       /\ w.initialPending = o.initialPending /\ w.reusedPending = o.reusedPending
       /\ w.next = q.out /\ w.copied = q.copied
  BY <1>2, <1>14, <1>15, Reusing
<1>17. WorkerOK(j, K, w)
  <2>1. PositionOK(K, w)
    BY <1>1, <1>2, <1>13, <1>16 DEF WorkerOK, PositionOK, Forking, Executing
  <2>2. ManifestOK(j, K, w)
    BY <1>1, <1>2, <1>13, <1>16 DEF WorkerOK, ManifestOK, Forking
  <2>3. KeyOf(K, w) = q.key
    BY <1>5, <1>8, <1>13, <1>16, SameKey
  <2>4. NextOK(j, K, w) /\ AttemptOK(K, w)
    BY <1>13, <1>16, <2>3 DEF NextOK, AttemptOK, Forking, Executing
  <2> QED
    BY <1>2, <1>13, <2>1, <2>2, <2>4 DEF WorkerOK
<1>18. /\ journal' = [journal EXCEPT ![j] = K] /\ worker' = [worker EXCEPT ![j] = w]
  BY <1>4, <1>6, <1>11, <1>14 DEF Write, Goto
<1>19. task[j] = Engine!Idle
  BY <1>1, IdleUnlessRunning DEF At
<1> QED
  BY <1>1, <1>2, <1>3, <1>13, <1>16, <1>17, <1>18, <1>19, LocalStep

\* A worker at its stage.
LEMMA AtStage ==
    ASSUME IInv, NEW j \in Jobs, worker[j] # NoRef,
           worker[j].pc \in Executing \cup {"key", "reuse", "commit"}
    PROVE  /\ worker[j].idx \in 1..Len(journal[j].plan)
           /\ KeyOf(journal[j], worker[j]) \in Key
<1>1. /\ worker[j] \in Worker /\ journal[j] \in Journal
      /\ WorkerOK(j, journal[j], worker[j])
  BY Alive
<1>2. worker[j].idx \in 1..Len(journal[j].plan)
  BY <1>1, PlanTyped DEF WorkerOK, PositionOK
<1>3. worker[j].manifest # NoRef => worker[j].manifest \in Published
  BY <1>1 DEF WorkerOK, ManifestOK
<1> QED
  BY <1>1, <1>2, <1>3, StageTyped DEF IInv

LEMMA RecordSuccessStep ==
    ASSUME IInv, NEW j \in Jobs, RecordSuccess(j)
    PROVE  IInv'
<1> DEFINE o == worker[j]
           out == result[j].manifest
<1>1. /\ o # NoRef /\ o.pc = "running" /\ task[j] = Engine!Idle /\ result[j].ok
      /\ UNCHANGED <<store, task, result>>
  BY DEF RecordSuccess, At
<1>2. /\ o \in Worker /\ journal[j] \in Journal /\ journal[j] # NoRef
      /\ WorkerOK(j, journal[j], o) /\ JobOK(j, journal[j]) /\ JobFresh(journal[j])
  BY <1>1, Alive
<1>3. KeyOf(journal[j], o) \in Key
  BY <1>1, AtStage DEF Executing
<1>4. /\ out \in Published /\ out.by = j /\ out.rev # 0 /\ out \in Ref /\ out # NoRef
      /\ Records(out, StageOf(journal[j], o), ConfigOf(journal[j], o))
      /\ StageOf(journal[j], o) # Build => Entries(o.manifest) \subseteq Entries(out)
  <2>1. AnswerOK(j, journal[j], o, result[j])
    BY <1>1 DEF IInv, EngineInv, At
  <2> QED
    BY <1>1, <2>1, RefTyped DEF AnswerOK, IInv
<1>5. PICK q : q = StageReceipt(j, TRUE, out)
  OBVIOUS
<1>6. /\ q.key = KeyOf(journal[j], o) /\ q.attempt = o.attempt /\ q.ok
      /\ q.out = out /\ ~q.copied
  BY <1>5, StageKeyIs DEF StageReceipt
<1>7. q \in Receipt
  BY <1>2, <1>3, <1>4, <1>5, StageKeyIs DEF StageReceipt, Receipt, Worker
<1>8. ReceiptTrue(q)
  <2> DEFINE key == KeyOf(journal[j], o)
  <2>1. key.name = StageOf(journal[j], o) /\ key.cfg = ConfigOf(journal[j], o)
    BY DEF KeyOf
  <2>2. key.name = Build => key.input = NoRef
    BY <2>1 DEF KeyOf
  <2>3. key.name # Build =>
           key.input \in Published /\ Entries(key.input) \subseteq Entries(out)
    <3>1. key.name # Build => o.manifest \in Published
      BY <1>1, <1>2, <2>1 DEF WorkerOK, ManifestOK
    <3>2. key.name # Build => key.input = ManifestIdentity(o.manifest)
      BY <2>1 DEF KeyOf
    <3> QED
      BY <1>4, <2>1, <3>1, <3>2, IdentityTyped DEF IInv
  <2> HIDE DEF key
  <2> QED
    BY <1>4, <1>6, <2>1, <2>2, <2>3 DEF ReceiptTrue, key
<1>9. \A r \in journal[j].receipts : r.key = q.key => r.attempt < q.attempt
  BY <1>1, <1>2, <1>6 DEF WorkerOK, AttemptOK
<1>10. PICK K : K = [journal[j] EXCEPT !.receipts = @ \cup {q}]
  OBVIOUS
<1>11. /\ K \in Journal /\ JobOK(j, K) /\ JobFresh(K)
       /\ K.st = journal[j].st /\ K.plan = journal[j].plan
       /\ K.initial = journal[j].initial /\ K.parent = journal[j].parent
       /\ \A w : KeyOf(K, w) = KeyOf(journal[j], w)
                 /\ StageOf(K, w) = StageOf(journal[j], w)
       /\ Built(journal[j]) => Built(K)
       /\ q \in VerifiedIn(K, q.key)
  BY <1>2, <1>4, <1>6, <1>7, <1>8, <1>9, <1>10, ReceiptAdded
<1>12. PICK u : u = [o EXCEPT !.pc = "commit"]
  OBVIOUS
<1>13. PICK w : w = [u EXCEPT !.next = out]
  OBVIOUS
<1>14. /\ u \in Worker /\ u.pc = "commit" /\ u.idx = o.idx /\ u.manifest = o.manifest
       /\ u.initialPending = o.initialPending /\ u.reusedPending = o.reusedPending
  BY <1>2, <1>12 DEF Worker
<1>15. /\ w \in Worker /\ w.pc = "commit" /\ w.idx = o.idx /\ w.manifest = o.manifest
       /\ w.initialPending = o.initialPending /\ w.reusedPending = o.reusedPending
       /\ w.next = out
  BY <1>4, <1>13, <1>14 DEF Worker
<1>16. WorkerOK(j, K, w)
  <2>1. PositionOK(K, w)
    BY <1>1, <1>2, <1>11, <1>15 DEF WorkerOK, PositionOK, Forking, Executing
  <2>2. ManifestOK(j, K, w)
    BY <1>1, <1>2, <1>11, <1>15 DEF WorkerOK, ManifestOK, Forking
  <2>3. KeyOf(K, w) = q.key
    BY <1>6, <1>11, <1>15, SameKey
  <2>4. NextOK(j, K, w) /\ AttemptOK(K, w)
    BY <1>6, <1>11, <1>15, <2>3 DEF NextOK, AttemptOK, Forking, Executing
  <2> QED
    BY <1>2, <1>11, <2>1, <2>2, <2>4 DEF WorkerOK
<1>17. /\ journal' = [journal EXCEPT ![j] = K] /\ worker' = [worker EXCEPT ![j] = w]
  BY <1>5, <1>10, <1>12, <1>13 DEF RecordSuccess, Write, Goto
<1>18. K.parent # NoRef => journal[K.parent] # NoRef
  BY <1>2, <1>11, ParentExists
<1> QED
  BY <1>1, <1>11, <1>15, <1>16, <1>17, <1>18, LocalStep

\* A failed receipt, whatever failed.
LEMMA StageFailedStep ==
    ASSUME IInv, NEW j \in Jobs, worker[j] # NoRef,
           worker[j].pc \in {"engine", "running"}, task[j] = Engine!Idle,
           StageFailed(j)
    PROVE  IInv'
<1> DEFINE o == worker[j]
<1>1. UNCHANGED <<store, task, result>>
  BY DEF StageFailed
<1>2. /\ o \in Worker /\ journal[j] \in Journal /\ journal[j] # NoRef
      /\ WorkerOK(j, journal[j], o) /\ JobOK(j, journal[j]) /\ JobFresh(journal[j])
  BY Alive
<1>3. KeyOf(journal[j], o) \in Key
  BY AtStage DEF Executing
<1>4. PICK q : q = StageReceipt(j, FALSE, NoRef)
  OBVIOUS
<1>5. /\ q.key = KeyOf(journal[j], o) /\ q.attempt = o.attempt /\ ~q.ok /\ ~q.copied
  BY <1>4, StageKeyIs DEF StageReceipt
<1>6. q \in Receipt
  BY <1>2, <1>3, <1>4, StageKeyIs DEF StageReceipt, Receipt, Worker
<1>7. ReceiptTrue(q)
  BY <1>5 DEF ReceiptTrue
<1>8. \A r \in journal[j].receipts : r.key = q.key => r.attempt < q.attempt
  BY <1>2, <1>5 DEF WorkerOK, AttemptOK
<1>9. PICK K : K = [journal[j] EXCEPT !.receipts = @ \cup {q}]
  OBVIOUS
<1>10. /\ K \in Journal /\ JobOK(j, K) /\ JobFresh(K)
       /\ K.st = journal[j].st /\ K.plan = journal[j].plan
       /\ K.initial = journal[j].initial /\ K.parent = journal[j].parent
       /\ Built(journal[j]) => Built(K)
  BY <1>2, <1>5, <1>6, <1>7, <1>8, <1>9, ReceiptAdded
<1>11. PICK w : w = [o EXCEPT !.pc = "failed"]
  OBVIOUS
<1>12. /\ w \in Worker /\ w.pc = "failed" /\ w.idx = o.idx /\ w.manifest = o.manifest
       /\ w.initialPending = o.initialPending /\ w.reusedPending = o.reusedPending
  BY <1>2, <1>11 DEF Worker
<1>13. WorkerOK(j, K, w)
  <2>1. PositionOK(K, w)
    BY <1>2, <1>10, <1>12 DEF WorkerOK, PositionOK, Forking, Executing
  <2>2. ManifestOK(j, K, w)
    BY <1>2, <1>10, <1>12 DEF WorkerOK, ManifestOK, Forking
  <2>3. NextOK(j, K, w) /\ AttemptOK(K, w)
    BY <1>12 DEF NextOK, AttemptOK, Forking, Executing
  <2> QED
    BY <1>2, <1>10, <2>1, <2>2, <2>3 DEF WorkerOK
<1>14. /\ journal' = [journal EXCEPT ![j] = K] /\ worker' = [worker EXCEPT ![j] = w]
  BY <1>4, <1>9, <1>11 DEF StageFailed, Write, Goto
<1>15. K.parent # NoRef => journal[K.parent] # NoRef
  BY <1>2, <1>10, ParentExists
<1> QED
  BY <1>1, <1>10, <1>12, <1>13, <1>14, <1>15, LocalStep

LEMMA RecordFailureStep ==
    ASSUME IInv, NEW j \in Jobs, RecordFailure(j)
    PROVE  IInv'
  BY StageFailedStep DEF RecordFailure, At

LEMMA CallWithoutManifestStep ==
    ASSUME IInv, NEW j \in Jobs, CallWithoutManifest(j)
    PROVE  IInv'
  BY StageFailedStep, IdleUnlessRunning DEF CallWithoutManifest, At

-----------------------------------------------------------------------------
(* The worker's commits.                                                   *)

\* Naming a manifest in the journal.
LEMMA ManifestNamed ==
    ASSUME NEW j, NEW J \in Journal, NEW m \in Published, m \in Ref,
           JobOK(j, J), JobFresh(J),
           IF J.initial = NoRef THEN Built(J) ELSE m.by = j
    PROVE  LET K == [J EXCEPT !.manifest = m]
           IN  /\ K \in Journal /\ JobOK(j, K) /\ JobFresh(K) /\ K.st = J.st
               /\ K.plan = J.plan /\ K.initial = J.initial /\ K.parent = J.parent
               /\ \A w : KeyOf(K, w) = KeyOf(J, w) /\ StageOf(K, w) = StageOf(J, w)
               /\ \A key : VerifiedIn(K, key) = VerifiedIn(J, key)
               /\ K.receipts = J.receipts
               /\ Built(K) <=> Built(J)
<1> DEFINE K == [J EXCEPT !.manifest = m]
<1>1. K \in Journal /\ Alike(J, K) /\ K.manifest = m /\ K.st = J.st
  BY DEF Journal, Alike
<1> HIDE DEF K
<1>2. /\ JobOK(j, K) /\ JobFresh(K)
      /\ \A w : KeyOf(K, w) = KeyOf(J, w) /\ StageOf(K, w) = StageOf(J, w)
      /\ \A key : VerifiedIn(K, key) = VerifiedIn(J, key)
      /\ Built(K) <=> Built(J)
  BY <1>1, AlikeOK
<1> QED
  BY <1>1, <1>2 DEF K, Alike

\* What is committed: its own or, in a job that builds, a parent's.
LEMMA NextTrue ==
    ASSUME IInv, NEW j \in Jobs, worker[j] # NoRef,
           worker[j].pc \in {"reuse", "commit"}
    PROVE  /\ worker[j].next \in Published /\ worker[j].next \in Ref
           /\ worker[j].next # NoRef /\ worker[j].next.rev # 0
           /\ journal[j].initial = NoRef => Built(journal[j])
           /\ worker[j].next.by # j =>
                 /\ worker[j].pc = "reuse" /\ worker[j].copied
                 /\ journal[j].initial = NoRef
<1> DEFINE J == journal[j]
           o == worker[j]
<1>1. /\ o \in Worker /\ J \in Journal /\ WorkerOK(j, J, o) /\ JobOK(j, J)
  BY Alive
<1>2. PICK q \in VerifiedIn(J, KeyOf(J, o)) :
         /\ q.out = o.next
         /\ o.pc = "reuse" => q.copied = o.copied
         /\ o.pc = "commit" => ~q.copied
  BY <1>1 DEF WorkerOK, NextOK
<1>3. /\ q \in J.receipts /\ q.ok /\ q.key = KeyOf(J, o) /\ ReceiptTrue(q)
      /\ ~q.copied => q.out.by = j
      /\ q.copied => J.initial = NoRef
  BY <1>1, <1>2 DEF VerifiedIn, JobOK
<1>4. /\ q.out \in Published /\ q.out.rev # 0 /\ q.out \in Ref /\ q.out # NoRef
  BY <1>3, RefTyped DEF ReceiptTrue, IInv
<1>5. ASSUME J.initial = NoRef
      PROVE  Built(J)
  <2>1. CASE o.manifest # NoRef
    BY <1>1, <1>5, <2>1 DEF WorkerOK, ManifestOK
  <2>2. CASE o.manifest = NoRef
    <3>1. o.idx = 1
      BY <1>1, <2>2, PlanTyped DEF WorkerOK, PositionOK
    <3>2. q.key.input = NoRef
      BY <1>3, <2>2, ManifestNull DEF KeyOf
    <3>3. q.key.name = Build
      <4>1. NoRef \notin Published
        BY RefTyped DEF IInv
      <4> QED
        BY <1>3, <3>2, <4>1 DEF ReceiptTrue
    <3>4. J.plan[1] = Build /\ q.key.cfg = J.spec[Build]
      BY <1>3, <3>1, <3>3 DEF KeyOf, StageOf, ConfigOf
    <3>5. q.key = [name |-> Build, cfg |-> J.spec[Build], input |-> NoRef]
      BY <1>3, <3>2, <3>3, <3>4 DEF KeyOf
    <3> QED
      BY <1>2, <1>3, <3>4, <3>5 DEF Built
  <2> QED
    BY <2>1, <2>2
<1> QED
  BY <1>2, <1>3, <1>4, <1>5

\* The stage is done, and its manifest is the worker's and the journal's.
LEMMA CommitKeeps ==
    ASSUME IInv, NEW j \in Jobs, worker[j] # NoRef,
           worker[j].pc \in {"reuse", "commit"},
           NEW w \in Worker, w.pc = "stage", w.idx = worker[j].idx + 1,
           w.manifest = worker[j].next,
           w.initialPending = worker[j].initialPending,
           worker[j].pc = "reuse" => w.reusedPending = worker[j].copied,
           Write(j, [journal[j] EXCEPT !.manifest = worker[j].next]),
           Goto(j, w), UNCHANGED <<store, task, result>>
    PROVE  IInv'
<1> DEFINE o == worker[j]
<1>1. /\ o \in Worker /\ journal[j] \in Journal /\ journal[j] # NoRef
      /\ WorkerOK(j, journal[j], o) /\ JobOK(j, journal[j]) /\ JobFresh(journal[j])
  BY Alive
<1>2. /\ o.next \in Published /\ o.next \in Ref
      /\ o.next # NoRef /\ o.next.rev # 0
      /\ journal[j].initial = NoRef => Built(journal[j])
      /\ o.next.by # j =>
            o.pc = "reuse" /\ o.copied /\ journal[j].initial = NoRef
  BY NextTrue
<1>3. PICK K : K = [journal[j] EXCEPT !.manifest = o.next]
  OBVIOUS
<1>4. IF journal[j].initial = NoRef THEN Built(journal[j]) ELSE o.next.by = j
  BY <1>2
<1>5. /\ K \in Journal /\ JobOK(j, K) /\ JobFresh(K) /\ K.st = journal[j].st
      /\ K.plan = journal[j].plan /\ K.initial = journal[j].initial
      /\ K.parent = journal[j].parent
      /\ Built(K) <=> Built(journal[j])
  BY <1>1, <1>2, <1>3, <1>4, ManifestNamed
<1>6. o.idx \in 1..Len(K.plan) /\ Len(K.plan) \in Nat
  BY <1>1, <1>5, AtStage, PlanTyped
<1>7. ~o.initialPending
  BY <1>1 DEF WorkerOK, PositionOK, Forking
<1>8. WorkerOK(j, K, w)
  <2>1. PositionOK(K, w)
    BY <1>2, <1>6, <1>7 DEF PositionOK, Forking, Executing
  <2>2. ManifestOK(j, K, w)
    BY <1>2, <1>5 DEF ManifestOK, Forking
  <2>3. NextOK(j, K, w) /\ AttemptOK(K, w)
    BY DEF NextOK, AttemptOK, Forking, Executing
  <2> QED
    BY <1>1, <1>5, <2>1, <2>2, <2>3 DEF WorkerOK
<1>9. /\ journal' = [journal EXCEPT ![j] = K] /\ worker' = [worker EXCEPT ![j] = w]
  BY <1>3 DEF Write, Goto
<1>10. K.parent # NoRef => journal[K.parent] # NoRef
  BY <1>1, <1>5, ParentExists
<1>11. task[j] = Engine!Idle
  BY IdleUnlessRunning DEF At
<1> QED
  BY <1>5, <1>8, <1>9, <1>10, <1>11, LocalStep

LEMMA CommitReusedStep ==
    ASSUME IInv, NEW j \in Jobs, CommitReused(j)
    PROVE  IInv'
<1> DEFINE o == worker[j]
<1>1. /\ o # NoRef /\ o.pc = "reuse" /\ o \in Worker
      /\ Write(j, [journal[j] EXCEPT !.manifest = o.next])
      /\ UNCHANGED <<store, task, result>>
  BY Alive DEF CommitReused, At
<1>2. o.idx \in Nat
  BY <1>1 DEF Worker
<1>3. PICK t : t = [o EXCEPT !.pc = "stage"]
  OBVIOUS
<1>4. PICK u : u = [t EXCEPT !.idx = @ + 1]
  OBVIOUS
<1>5. PICK v : v = [u EXCEPT !.manifest = o.next]
  OBVIOUS
<1>6. PICK w : w = [v EXCEPT !.reusedPending = o.copied]
  OBVIOUS
<1>7. t \in Worker /\ t.pc = "stage" /\ t.idx = o.idx
      /\ t.initialPending = o.initialPending
  BY <1>1, <1>3 DEF Worker
<1>8. u \in Worker /\ u.pc = "stage" /\ u.idx = o.idx + 1
      /\ u.initialPending = o.initialPending
  BY <1>2, <1>4, <1>7 DEF Worker
<1>9. v \in Worker /\ v.pc = "stage" /\ v.idx = o.idx + 1 /\ v.manifest = o.next
      /\ v.initialPending = o.initialPending
  BY <1>1, <1>5, <1>8 DEF Worker
<1>10. w \in Worker /\ w.pc = "stage" /\ w.idx = o.idx + 1 /\ w.manifest = o.next
      /\ w.initialPending = o.initialPending /\ w.reusedPending = o.copied
  BY <1>1, <1>6, <1>9 DEF Worker
<1>11. Goto(j, w)
  BY <1>3, <1>4, <1>5, <1>6 DEF CommitReused
<1> QED
  BY <1>1, <1>10, <1>11, CommitKeeps

LEMMA CommitStageStep ==
    ASSUME IInv, NEW j \in Jobs, CommitStage(j)
    PROVE  IInv'
<1> DEFINE o == worker[j]
<1>1. /\ o # NoRef /\ o.pc = "commit" /\ o \in Worker
      /\ Write(j, [journal[j] EXCEPT !.manifest = o.next])
      /\ UNCHANGED <<store, task, result>>
  BY Alive DEF CommitStage, At
<1>2. o.idx \in Nat
  BY <1>1 DEF Worker
<1>3. PICK t : t = [o EXCEPT !.pc = "stage"]
  OBVIOUS
<1>4. PICK u : u = [t EXCEPT !.idx = @ + 1]
  OBVIOUS
<1>5. PICK w : w = [u EXCEPT !.manifest = o.next]
  OBVIOUS
<1>6. t \in Worker /\ t.pc = "stage" /\ t.idx = o.idx
      /\ t.initialPending = o.initialPending
  BY <1>1, <1>3 DEF Worker
<1>7. u \in Worker /\ u.pc = "stage" /\ u.idx = o.idx + 1
      /\ u.initialPending = o.initialPending
  BY <1>2, <1>4, <1>6 DEF Worker
<1>8. w \in Worker /\ w.pc = "stage" /\ w.idx = o.idx + 1 /\ w.manifest = o.next
      /\ w.initialPending = o.initialPending
  BY <1>1, <1>5, <1>7 DEF Worker
<1>9. Goto(j, w)
  BY <1>3, <1>4, <1>5 DEF CommitStage
<1> QED
  BY <1>1, <1>8, <1>9, CommitKeeps

LEMMA RecordForkStep ==
    ASSUME IInv, NEW j \in Jobs, RecordFork(j)
    PROVE  IInv'
<1> DEFINE o == worker[j]
           J == journal[j]
<1>1. /\ o # NoRef /\ o.pc = "forked" /\ UNCHANGED <<store, task, result>>
  BY DEF RecordFork, At
<1>2. /\ o \in Worker /\ J \in Journal /\ J # NoRef
      /\ WorkerOK(j, J, o) /\ JobOK(j, J) /\ JobFresh(J)
  BY <1>1, Alive
<1>3. PICK f : f = [source |-> o.manifest, reason |-> o.reason, fork |-> o.next]
  OBVIOUS
<1>4. PICK K : K = [J EXCEPT !.forks = @ \cup {f}]
  OBVIOUS
<1>5. PICK w : w = [o EXCEPT !.pc = "adopt"]
  OBVIOUS
<1>6. /\ o.manifest \in Published /\ o.manifest \in Ref
      /\ o.next \in Published /\ o.next \in Ref /\ o.next.by = j /\ o.next.rev = 0
      /\ Load(o.next).source = o.manifest
  <2>1. o.manifest \in Published /\ o.next \in Published
        /\ o.next.by = j /\ o.next.rev = 0 /\ Load(o.next).source = o.manifest
    BY <1>1, <1>2 DEF WorkerOK, PositionOK, ManifestOK, NextOK, Forking
  <2> QED
    BY <2>1, RefTyped DEF IInv
<1>7. ForkTrue(j, f)
  BY <1>3, <1>6 DEF ForkTrue
<1>8. f \in [source : Ref, reason : Reason, fork : Ref]
  BY <1>2, <1>3, <1>6 DEF Worker
<1>9. K \in Journal
  <2>1. J.forks \cup {f} \subseteq [source : Ref, reason : Reason, fork : Ref]
    BY <1>2, <1>8 DEF Journal
  <2> QED
    BY <1>2, <1>4, <2>1 DEF Journal
<1>10. /\ K.forks = J.forks \cup {f}
       /\ K.st = J.st /\ K.manifest = J.manifest /\ K.receipts = J.receipts
       /\ K.started = J.started /\ K.plan = J.plan /\ K.spec = J.spec
       /\ K.initial = J.initial /\ K.parent = J.parent
  BY <1>2, <1>4 DEF Journal
<1>11. /\ \A v : KeyOf(K, v) = KeyOf(J, v) /\ StageOf(K, v) = StageOf(J, v)
       /\ \A key : VerifiedIn(K, key) = VerifiedIn(J, key)
       /\ Built(K) <=> Built(J)
  BY <1>10 DEF KeyOf, StageOf, ConfigOf, VerifiedIn, Built
<1>12. JobFresh(K)
  BY <1>2, <1>10 DEF JobFresh
<1>13. JobOK(j, K)
  BY <1>2, <1>7, <1>10, <1>11 DEF JobOK
<1>14. /\ w \in Worker /\ w.pc = "adopt" /\ w.idx = o.idx /\ w.manifest = o.manifest
       /\ w.initialPending = o.initialPending /\ w.reusedPending = o.reusedPending
       /\ w.reason = o.reason /\ w.next = o.next
  BY <1>2, <1>5 DEF Worker
<1>15. WorkerOK(j, K, w)
  <2>1. PositionOK(K, w)
    BY <1>1, <1>2, <1>10, <1>14 DEF WorkerOK, PositionOK, Forking, Executing
  <2>2. ManifestOK(j, K, w)
    BY <1>1, <1>2, <1>10, <1>11, <1>14 DEF WorkerOK, ManifestOK, Forking
  <2>3. NextOK(j, K, w)
    BY <1>6, <1>14 DEF NextOK
  <2>4. KeyOf(K, w) = KeyOf(J, o)
    BY <1>11, <1>14, SameKey
  <2>5. AttemptOK(K, w)
    BY <1>1, <1>2, <1>10, <1>11, <1>14, <2>4 DEF WorkerOK, AttemptOK, Forking, Executing
  <2> QED
    BY <1>2, <1>10, <2>1, <2>2, <2>3, <2>5 DEF WorkerOK
<1>16. /\ journal' = [journal EXCEPT ![j] = K] /\ worker' = [worker EXCEPT ![j] = w]
  BY <1>3, <1>4, <1>5 DEF RecordFork, Write, Goto
<1>17. K.parent # NoRef => journal[K.parent] # NoRef
  BY <1>2, <1>10, ParentExists
<1>18. task[j] = Engine!Idle
  BY <1>1, IdleUnlessRunning DEF At
<1> QED
  BY <1>1, <1>9, <1>12, <1>13, <1>14, <1>15, <1>16, <1>17, <1>18, LocalStep

\* The fork's key is its source's, and its source is a stage's output.
LEMMA ForkKeepsKey ==
    ASSUME StoreInv, NEW J, NEW w, NEW v, v.idx = w.idx,
           w.manifest \in Published, w.manifest.rev # 0,
           v.manifest \in Published, v.manifest.rev = 0,
           Load(v.manifest).source = w.manifest
    PROVE  KeyOf(J, v) = KeyOf(J, w)
<1>1. ManifestIdentity(w.manifest) = w.manifest
  BY IdentityTyped
<1>2. ManifestIdentity(v.manifest) = w.manifest
  BY RefTyped DEF ManifestIdentity
<1>3. StageOf(J, v) = StageOf(J, w) /\ ConfigOf(J, v) = ConfigOf(J, w)
  BY DEF StageOf, ConfigOf
<1> QED
  BY <1>1, <1>2, <1>3 DEF KeyOf

LEMMA AdoptForkStep ==
    ASSUME IInv, NEW j \in Jobs, AdoptFork(j)
    PROVE  IInv'
<1> DEFINE o == worker[j]
           J == journal[j]
<1>1. /\ o # NoRef /\ o.pc = "adopt" /\ UNCHANGED <<store, task, result>>
  BY DEF AdoptFork, At
<1>2. /\ o \in Worker /\ J \in Journal /\ J # NoRef
      /\ WorkerOK(j, J, o) /\ JobOK(j, J) /\ JobFresh(J)
  BY <1>1, Alive
<1>3. PICK K : K = [J EXCEPT !.manifest = o.next]
  OBVIOUS
<1>4. /\ o.manifest \in Published /\ o.manifest # NoRef
      /\ o.next \in Published /\ o.next \in Ref /\ o.next # NoRef
      /\ o.next.by = j /\ o.next.rev = 0
      /\ Load(o.next).source = o.manifest
      /\ J.initial = NoRef => Built(J)
  <2>1. o.manifest \in Published /\ o.manifest # NoRef /\ o.next \in Published
        /\ o.next.by = j /\ o.next.rev = 0 /\ Load(o.next).source = o.manifest
        /\ (J.initial = NoRef => Built(J))
    BY <1>1, <1>2 DEF WorkerOK, PositionOK, ManifestOK, NextOK, Forking
  <2> QED
    BY <2>1, RefTyped DEF IInv
<1>5. IF J.initial = NoRef THEN Built(J) ELSE o.next.by = j
  BY <1>4
<1>6. /\ K \in Journal /\ JobOK(j, K) /\ JobFresh(K) /\ K.st = J.st
      /\ K.plan = J.plan /\ K.initial = J.initial /\ K.parent = J.parent
      /\ \A w : KeyOf(K, w) = KeyOf(J, w)
      /\ \A key : VerifiedIn(K, key) = VerifiedIn(J, key)
      /\ Built(K) <=> Built(J)
  BY <1>2, <1>3, <1>4, <1>5, ManifestNamed
<1>7. o.idx \in Nat /\ Len(K.plan) \in Nat /\ Len(K.plan) >= 1
      /\ o.idx \in 1..Len(K.plan) + 1
  BY <1>2, <1>6, PlanTyped DEF Worker, WorkerOK, PositionOK
<1>8. PICK m : m = [o EXCEPT !.manifest = o.next]
  OBVIOUS
<1>9. /\ m \in Worker /\ m.pc = o.pc /\ m.idx = o.idx /\ m.manifest = o.next
      /\ m.initialPending = o.initialPending /\ m.reusedPending = o.reusedPending
      /\ m.reason = o.reason
  BY <1>2, <1>4, <1>8 DEF Worker
<1>10. /\ journal' = [journal EXCEPT ![j] = K]
       /\ K.parent # NoRef => journal[K.parent] # NoRef
       /\ task[j] = Engine!Idle
  <2>1. K.parent # NoRef => journal[K.parent] # NoRef
    BY <1>2, <1>6, ParentExists
  <2>2. task[j] = Engine!Idle
    BY <1>1, IdleUnlessRunning DEF At
  <2>3. journal' = [journal EXCEPT ![j] = K]
    BY <1>3 DEF AdoptFork, Write
  <2> QED
    BY <2>1, <2>2, <2>3
<1>11. CASE o.initialPending
  <2>1. PICK u : u = [m EXCEPT !.pc = "key"]
    OBVIOUS
  <2>2. PICK w : w = [u EXCEPT !.initialPending = FALSE]
    OBVIOUS
  <2>3. u \in Worker /\ u.pc = "key" /\ u.idx = o.idx /\ u.manifest = o.next
        /\ u.reusedPending = o.reusedPending
    BY <1>9, <2>1 DEF Worker
  <2>4. w \in Worker /\ w.pc = "key" /\ w.idx = o.idx /\ w.manifest = o.next
        /\ w.reusedPending = o.reusedPending /\ ~w.initialPending
    BY <2>2, <2>3 DEF Worker
  <2>5. o.reason.why = "initial" /\ o.idx = 1 /\ ~o.reusedPending
    BY <1>1, <1>2, <1>11 DEF WorkerOK, PositionOK, Forking
  <2>6. worker' = [worker EXCEPT ![j] = w]
    BY <1>8, <1>9, <2>1, <2>2, <2>5 DEF AdoptFork, Goto
  <2>7. WorkerOK(j, K, w)
    <3>1. PositionOK(K, w)
      BY <1>7, <2>4, <2>5 DEF PositionOK, Forking, Executing
    <3>2. ManifestOK(j, K, w)
      BY <1>4, <1>6, <2>4, <2>5 DEF ManifestOK, Forking
    <3>3. NextOK(j, K, w) /\ AttemptOK(K, w)
      BY <2>4 DEF NextOK, AttemptOK, Forking, Executing
    <3> QED
      BY <1>2, <1>6, <3>1, <3>2, <3>3 DEF WorkerOK
  <2> QED
    BY <1>1, <1>6, <1>10, <2>4, <2>6, <2>7, LocalStep
<1>12. CASE ~o.initialPending
  <2>1. PICK p : p = IF AtEnd(j) THEN "collect" ELSE "start"
    OBVIOUS
  <2>2. PICK u : u = [m EXCEPT !.pc = p]
    OBVIOUS
  <2>3. PICK w : w = [u EXCEPT !.reusedPending = FALSE]
    OBVIOUS
  <2>4. u \in Worker /\ u.pc = p /\ u.idx = o.idx /\ u.manifest = o.next
        /\ u.initialPending = o.initialPending
    BY <1>9, <2>1, <2>2 DEF Worker
  <2>5. w \in Worker /\ w.pc = p /\ w.idx = o.idx /\ w.manifest = o.next
        /\ ~w.reusedPending /\ ~w.initialPending
    BY <1>12, <2>3, <2>4 DEF Worker
  <2>6. o.reason.why = "reused" /\ o.reusedPending /\ o.manifest.rev # 0
    BY <1>1, <1>2, <1>12 DEF WorkerOK, PositionOK, ManifestOK, Forking
  <2>7. worker' = [worker EXCEPT ![j] = w]
    BY <1>8, <1>9, <2>1, <2>2, <2>3, <2>6 DEF AdoptFork, Goto
  <2>8. /\ p = "start" => o.idx <= Len(K.plan)
        /\ p = "collect" => o.idx = Len(K.plan) + 1
        /\ p \in {"start", "collect"}
    BY <1>6, <1>7, <2>1 DEF AtEnd
  <2>9. WorkerOK(j, K, w)
    <3>1. PositionOK(K, w)
      BY <1>4, <1>7, <2>5, <2>8 DEF PositionOK, Forking, Executing
    <3>2. ManifestOK(j, K, w)
      BY <1>4, <1>6, <2>5, <2>8 DEF ManifestOK, Forking
    <3>3. NextOK(j, K, w)
      BY <2>5, <2>8 DEF NextOK
    <3>4. KeyOf(K, w) = KeyOf(J, o)
      BY <1>4, <1>6, <2>5, <2>6, ForkKeepsKey DEF IInv
    <3>5. p = "start" => VerifiedIn(J, KeyOf(J, o)) = {}
      BY <1>1, <1>2, <1>6, <1>12, <2>8 DEF WorkerOK, AttemptOK, Forking
    <3>6. AttemptOK(K, w)
      BY <1>6, <2>5, <2>8, <3>4, <3>5 DEF AttemptOK, Forking, Executing
    <3> QED
      BY <1>2, <1>6, <3>1, <3>2, <3>3, <3>6 DEF WorkerOK
  <2> QED
    BY <1>1, <1>6, <1>10, <2>5, <2>7, <2>8, <2>9, LocalStep
<1> QED
  BY <1>11, <1>12

LEMMA ReuseAfterForkStep ==
    ASSUME IInv, NEW j \in Jobs, ReuseAfterFork(j)
    PROVE  IInv'
  BY NothingAfterFork DEF ReuseAfterFork

-----------------------------------------------------------------------------
(* A new attempt.                                                          *)

\* It is newer than what the journal and the manifest know.
LEMMA AttemptNew ==
    ASSUME IInv, NEW j \in Jobs, worker[j] # NoRef
    PROVE  /\ Attempt(j) \in Nat /\ Attempt(j) >= JournalAttempt(j, StageKey(j))
           /\ worker[j].manifest # NoRef =>
                 /\ NextAttempt(worker[j].manifest, Stage(j)) \in Nat
                 /\ Attempt(j) >= NextAttempt(worker[j].manifest, Stage(j))
<1>1. /\ journal[j] \in Journal /\ WorkerOK(j, journal[j], worker[j])
      /\ JobOK(j, journal[j])
  BY Alive
<1> DEFINE a == JournalAttempt(j, StageKey(j))
           floor == NextAttempt(worker[j].manifest, Stage(j))
           F == IF worker[j].manifest = NoRef THEN {1} ELSE {floor}
           S == {a} \cup F
<1>2. a \in Nat
  BY <1>1, NewAttempt DEF JobOK
<1>3. worker[j].manifest # NoRef => floor \in Nat
  BY <1>1, NextAttemptFresh DEF WorkerOK, ManifestOK, IInv
<1>4. F \subseteq Nat /\ IsFiniteSet(F)
  <2> HIDE DEF floor
  <2>1. CASE worker[j].manifest = NoRef
    <3>1. F = {1} /\ IsFiniteSet({1})
      BY <2>1, FS_Singleton
    <3> HIDE DEF F
    <3> QED
      BY <3>1
  <2>2. CASE worker[j].manifest # NoRef
    <3>1. F = {floor}
      BY <2>2
    <3> HIDE DEF F
    <3> QED
      BY <1>3, <2>2, <3>1, FS_Singleton
  <2> QED
    BY <2>1, <2>2
<1>5. Attempt(j) = Max(S)
  BY DEF Attempt
<1> HIDE DEF a, F
<1>6. S \subseteq Nat /\ IsFiniteSet(S) /\ S # {}
  BY <1>2, <1>4, FS_Singleton, FS_Union
<1>7. Max(S) \in S /\ \A y \in S : y <= Max(S)
  <2> HIDE DEF S
  <2> QED
    BY <1>6, MaxProperties
<1>8. Attempt(j) \in Nat /\ a <= Attempt(j)
  BY <1>5, <1>6, <1>7
<1>9. worker[j].manifest # NoRef => floor <= Attempt(j)
  <2> HIDE DEF floor
  <2>1. worker[j].manifest # NoRef => floor \in S
    BY DEF F
  <2> QED
    BY <1>5, <1>7, <2>1
<1> QED
  BY <1>2, <1>3, <1>8, <1>9 DEF a

\* An event of a new attempt.
LEMMA StartedAppended ==
    ASSUME NEW E, NEW s \in Seq(E), NEW e \in E, IsInjective(s),
           \A i \in DOMAIN s : s[i] # e
    PROVE  Append(s, e) \in Seq(E) /\ IsInjective(Append(s, e))
<1> DEFINE t == Append(s, e)
<1>1. /\ t \in Seq(E) /\ DOMAIN s = 1..Len(s) /\ Len(s) \in Nat
      /\ DOMAIN t = 1..Len(s) + 1
      /\ t[Len(s) + 1] = e
      /\ \A i \in 1..Len(s) : t[i] = s[i]
  OBVIOUS
<1> HIDE DEF t
<1>2. \A a, b \in DOMAIN t : t[a] = t[b] => a = b
  <2> SUFFICES ASSUME NEW a \in DOMAIN t, NEW b \in DOMAIN t, t[a] = t[b]
               PROVE  a = b
    OBVIOUS
  <2>1. /\ a \in 1..Len(s) \/ a = Len(s) + 1
        /\ b \in 1..Len(s) \/ b = Len(s) + 1
    BY <1>1
  <2> QED
    BY <1>1, <2>1 DEF IsInjective
<1> QED
  BY <1>1, <1>2 DEF IsInjective, t

LEMMA StartStageStep ==
    ASSUME IInv, NEW j \in Jobs, StartStage(j)
    PROVE  IInv'
<1> DEFINE o == worker[j]
           J == journal[j]
           key == KeyOf(J, o)
<1>1. /\ o # NoRef /\ o.pc = "start" /\ UNCHANGED <<store, task, result>>
      /\ Verified(j, StageKey(j)) = {}
  BY DEF StartStage, At
<1>2. /\ o \in Worker /\ J \in Journal /\ J # NoRef
      /\ WorkerOK(j, J, o) /\ JobOK(j, J) /\ JobFresh(J)
  BY <1>1, Alive
<1>3. PICK n : n = Attempt(j)
  OBVIOUS
<1>4. n \in Nat /\ n >= JournalAttempt(j, key)
  BY <1>1, <1>3, AttemptNew, StageKeyIs
<1>5. /\ JournalAttempt(j, key) \in Nat
      /\ \A q \in J.receipts : q.key = key => q.attempt < JournalAttempt(j, key)
      /\ \A i \in DOMAIN J.started :
            J.started[i].key = key => J.started[i].attempt < JournalAttempt(j, key)
  BY <1>2, NewAttempt DEF JobOK
<1>6. key \in Key
  BY <1>1, AtStage DEF Executing
<1>7. PICK e : e = [key |-> key, attempt |-> n]
  OBVIOUS
<1>8. PICK K : K = [J EXCEPT !.started = Append(@, e)]
  OBVIOUS
<1>9. PICK u : u = [o EXCEPT !.pc = "engine"]
  OBVIOUS
<1>10. PICK w : w = [u EXCEPT !.attempt = n]
  OBVIOUS
<1> DEFINE E == [key : Key, attempt : Nat]
<1>11. /\ J.started \in Seq(E) /\ e \in E /\ IsInjective(J.started)
       /\ e.key = key /\ e.attempt = n
  BY <1>2, <1>4, <1>6, <1>7 DEF Journal, JobFresh
<1>12. \A i \in DOMAIN J.started : J.started[i] # e
  <2> SUFFICES ASSUME NEW i \in DOMAIN J.started, J.started[i] = e
               PROVE  FALSE
    OBVIOUS
  <2>1. n < JournalAttempt(j, key)
    BY <1>5, <1>11
  <2> QED
    BY <1>4, <1>5, <2>1
<1>13. Append(J.started, e) \in Seq(E) /\ IsInjective(Append(J.started, e))
  <2> HIDE DEF E
  <2> QED
    BY <1>11, <1>12, StartedAppended
<1>14. K \in Journal
  BY <1>2, <1>8, <1>13 DEF Journal
<1>15. /\ K.started = Append(J.started, e)
       /\ K.st = J.st /\ K.manifest = J.manifest /\ K.receipts = J.receipts
       /\ K.forks = J.forks /\ K.plan = J.plan /\ K.spec = J.spec
       /\ K.initial = J.initial /\ K.parent = J.parent
  BY <1>2, <1>8 DEF Journal
<1>16. /\ \A v : KeyOf(K, v) = KeyOf(J, v) /\ StageOf(K, v) = StageOf(J, v)
       /\ \A k : VerifiedIn(K, k) = VerifiedIn(J, k)
       /\ Built(K) <=> Built(J)
  BY <1>15 DEF KeyOf, StageOf, ConfigOf, VerifiedIn, Built
<1>17. JobFresh(K)
  BY <1>2, <1>13, <1>15 DEF JobFresh
<1>18. JobOK(j, K)
  BY <1>2, <1>15, <1>16 DEF JobOK
<1>19. u \in Worker /\ u.pc = "engine" /\ u.idx = o.idx /\ u.manifest = o.manifest
       /\ u.initialPending = o.initialPending /\ u.reusedPending = o.reusedPending
  BY <1>2, <1>9 DEF Worker
<1>20. w \in Worker /\ w.pc = "engine" /\ w.idx = o.idx /\ w.manifest = o.manifest
       /\ w.initialPending = o.initialPending /\ w.reusedPending = o.reusedPending
       /\ w.attempt = n
  BY <1>4, <1>10, <1>19 DEF Worker
<1>21. WorkerOK(j, K, w)
  <2>1. PositionOK(K, w)
    BY <1>1, <1>2, <1>15, <1>20 DEF WorkerOK, PositionOK, Forking, Executing
  <2>2. ManifestOK(j, K, w)
    BY <1>1, <1>2, <1>15, <1>16, <1>20 DEF WorkerOK, ManifestOK, Forking
  <2>3. NextOK(j, K, w)
    BY <1>20 DEF NextOK
  <2>4. KeyOf(K, w) = key
    BY <1>16, <1>20, SameKey
  <2>5. \A q \in K.receipts : q.key = key => q.attempt < w.attempt
    <3> SUFFICES ASSUME NEW q \in J.receipts, q.key = key
                 PROVE  q.attempt < n
      BY <1>15, <1>20
    <3>1. q.attempt \in Nat
      BY <1>2 DEF Journal, Receipt
    <3> QED
      BY <1>4, <1>5, <3>1
  <2>6. AttemptOK(K, w)
    <3>1. VerifiedIn(K, key) = {}
      BY <1>1, <1>16, StageKeyIs, VerifiedIs
    <3> HIDE DEF key
    <3> QED
      BY <2>4, <2>5, <3>1 DEF AttemptOK
  <2> QED
    BY <1>2, <1>15, <2>1, <2>2, <2>3, <2>6 DEF WorkerOK
<1>22. /\ journal' = [journal EXCEPT ![j] = K] /\ worker' = [worker EXCEPT ![j] = w]
  BY <1>3, <1>7, <1>8, <1>9, <1>10, StageKeyIs DEF StartStage, Write, Goto
<1>23. K.parent # NoRef => journal[K.parent] # NoRef
  BY <1>2, <1>15, ParentExists
<1>24. task[j] = Engine!Idle
  BY <1>1, IdleUnlessRunning DEF At
<1> QED
  BY <1>1, <1>14, <1>17, <1>18, <1>20, <1>21, <1>22, <1>23, <1>24, LocalStep

-----------------------------------------------------------------------------
(* The engine.                                                             *)

\* The engine's store is the worker's.
LEMMA SameStore ==
    /\ Engine!Ref = Ref /\ Engine!Entry = Entry
    /\ Engine!Published = Published /\ Engine!NewRuns = NewRuns
    /\ \A m : /\ Engine!RefOf(m) = RefOf(m)
              /\ Engine!Publish(m) <=> Publish(m)
              /\ Engine!Conflicts(m) <=> Conflicts(m)
              /\ Engine!LastEntry(m) = LastEntry(m)
    /\ \A ref : Engine!Children(ref) = Children(ref)
    /\ \A ref, e, by : Engine!Revised(ref, e, by) = Revised(ref, e, by)
    /\ \A ref, run, by : /\ Engine!Snapshot(ref, run, by) = Snapshot(ref, run, by)
                         /\ Engine!Created(run, by) = Created(run, by)
<1>1. Engine!Ref = Ref /\ Engine!Entry = Entry
  BY DEF Engine!Ref, Ref, Engine!Entry, Entry
<1>2. \A m : Engine!RefOf(m) = RefOf(m)
  BY DEF Engine!RefOf, RefOf
<1>3. Engine!Published = Published /\ Engine!NewRuns = NewRuns
  BY <1>2 DEF Engine!Published, Published, Engine!NewRuns, NewRuns
<1>4. \A ref : Engine!Load(ref) = Load(ref)
  BY <1>2 DEF Engine!Load, Load
<1>5. \A m : /\ Engine!Conflicts(m) <=> Conflicts(m)
             /\ Engine!LastEntry(m) = LastEntry(m)
  BY DEF Engine!Conflicts, Conflicts, Engine!LastEntry, LastEntry
<1>6. \A m : Engine!Publish(m) <=> Publish(m)
  <2>1. \A m : /\ Engine!Valid(m) <=> Valid(m)
               /\ Engine!FollowsParent(m) <=> FollowsParent(m)
    BY <1>3 DEF Engine!Valid, Valid, Engine!FollowsParent, FollowsParent
  <2> QED
    BY <1>5, <2>1 DEF Engine!Publish, Publish
<1>7. \A ref : Engine!Children(ref) = Children(ref)
  BY DEF Engine!Children, Children
<1>8. \A ref, e, by : Engine!Revised(ref, e, by) = Revised(ref, e, by)
  BY <1>4 DEF Engine!Revised, Revised
<1>9. \A ref, run, by : /\ Engine!Snapshot(ref, run, by) = Snapshot(ref, run, by)
                        /\ Engine!Created(run, by) = Created(run, by)
  BY <1>4 DEF Engine!Snapshot, Snapshot, Engine!Created, Created
<1> QED
  BY <1>1, <1>2, <1>3, <1>5, <1>6, <1>7, <1>8, <1>9

\* A step of the engine, or of a worker with it, that leaves the journals alone.
LEMMA EngineKeeps ==
    ASSUME IInv, NEW j \in Jobs, NEW J, J = journal[j], J # NoRef,
           NEW w \in Worker, NEW t \in Task, NEW a \in Engine!Result \cup {NoRef},
           UNCHANGED journal,
           worker' = [worker EXCEPT ![j] = w],
           task' = [task EXCEPT ![j] = t],
           result' = [result EXCEPT ![j] = a],
           StoreInv', RunsHaveOneWriter', store \subseteq store',
           WorkerOK(j, J, w)',
           t # Engine!Idle => CallOK(j, J, w, t)',
           t = Engine!Idle /\ w.pc = "running" => AnswerOK(j, J, w, a)'
    PROVE  IInv'
<1>1. StoreInv /\ TypeOK
  BY DEF IInv
<1>2. /\ worker'[j] = w /\ task'[j] = t /\ result'[j] = a /\ journal'[j] = J
      /\ \A k \in Jobs \ {j} :
            /\ journal'[k] = journal[k] /\ worker'[k] = worker[k]
            /\ task'[k] = task[k] /\ result'[k] = result[k]
  BY <1>1 DEF TypeOK
<1>3. TypeOK'
  <2>1. /\ journal' \in [Jobs -> Journal \cup {NoRef}]
        /\ worker' \in [Jobs -> Worker \cup {NoRef}]
        /\ task' \in [Jobs -> Task]
        /\ result' \in [Jobs -> Engine!Result \cup {NoRef}]
    BY <1>1 DEF TypeOK
  <2>2. \A k \in Jobs :
          /\ worker'[k] # NoRef => journal'[k] # NoRef
          /\ journal'[k] # NoRef /\ journal'[k].parent # NoRef =>
                journal'[journal'[k].parent] # NoRef
    BY <1>1, <1>2 DEF TypeOK
  <2>3. Engine!Result' = Engine!Result
    BY DEF Engine!Result, Engine!Ref
  <2>4. Task' = Task
    BY DEF Task, Engine!Idle, Ref, Entry
  <2> QED
    BY <2>1, <2>2, <2>3, <2>4 DEF TypeOK
<1>4. JobInv(j)'
  <2>1. JobOK(j, J) /\ JobFresh(J)
    BY DEF IInv, JobInv
  <2>2. JobOK(j, J)'
    BY <1>1, <2>1, JobKept
  <2> QED
    BY <1>2, <2>1, <2>2 DEF JobInv, JobFresh
<1>5. WorkerInv(j)'
  BY <1>2 DEF WorkerInv
<1>6. EngineInv(j)'
  <2>1. Engine!Idle' = Engine!Idle
    BY DEF Engine!Idle
  <2> QED
    BY <1>2, <2>1 DEF EngineInv, At
<1> QED
  BY <1>2, <1>3, <1>4, <1>5, <1>6, StepKeeps

\* A run is started, or forked, by one job ...
LEMMA NewRunHasOneWriter ==
    ASSUME StoreInv, RunsHaveOneWriter, NEW m, m.run \in NewRuns,
           store' = store \cup {m}
    PROVE  RunsHaveOneWriter'
  BY DEF RunsHaveOneWriter, NewRuns

\* ... and continued by it.
LEMMA RevisionHasOneWriter ==
    ASSUME StoreInv, RunsHaveOneWriter, NEW ref \in Published, NEW m,
           m.run = ref.run, m.by = ref.by, store' = store \cup {m}
    PROVE  RunsHaveOneWriter'
<1>1. PICK p \in store : p.run = ref.run /\ p.by = ref.by
  BY DEF Published, RefOf
<1> QED
  BY <1>1 DEF RunsHaveOneWriter

\* The child of a manifest is of its writer and records all that it does.
LEMMA ChildTrue ==
    ASSUME StoreInv, RunsHaveOneWriter, NEW ref \in Published,
           NEW child \in Children(ref)
    PROVE  /\ RefOf(child) \in Published /\ RefOf(child).by = ref.by
           /\ RefOf(child).rev # 0 /\ RefOf(child) # NoRef
           /\ Entries(ref) \subseteq Entries(RefOf(child))
           /\ child.log # <<>> => LastEntry(child) \in Entries(RefOf(child))
<1>1. /\ child \in store /\ child \in Manifest /\ child.parent = ref /\ ref # NoRef
  BY RefTyped DEF Children, StoreInv
<1>2. /\ RefOf(child) \in Published /\ Load(RefOf(child)) = child
      /\ RefOf(child) # NoRef
  BY <1>1, LoadedIs, RefTyped
<1>3. /\ Load(ref) \in store /\ RefOf(Load(ref)) = ref
      /\ Load(ref) \in Manifest
  BY LoadOne, RefTyped
<1>4. child.run = ref.run /\ child.rev = ref.rev + 1
  BY <1>1 DEF StoreInv, ParentsStored
<1>5. child.by = ref.by
  BY <1>1, <1>3, <1>4 DEF RunsHaveOneWriter, RefOf
<1>6. child.rev # 0 /\ ref.rev \in Nat
  BY <1>1, <1>3, <1>4 DEF Manifest, RefOf
<1>7. Entries(ref) \subseteq Entries(RefOf(child))
  <2> DEFINE p == Load(ref)
  <2>1. /\ Len(p.log) <= Len(child.log)
        /\ \A i \in 1..Len(p.log) : child.log[i] = p.log[i]
    BY <1>1, <1>3, <1>4, <1>6 DEF StoreInv, Grows, RefOf
  <2>2. /\ DOMAIN p.log = 1..Len(p.log) /\ Len(p.log) \in Nat
        /\ DOMAIN child.log = 1..Len(child.log) /\ Len(child.log) \in Nat
    BY <1>1, <1>3 DEF Manifest
  <2> HIDE DEF p
  <2>3. \A i \in DOMAIN p.log : i \in DOMAIN child.log /\ child.log[i] = p.log[i]
    BY <2>1, <2>2
  <2> QED
    BY <1>2, <2>3 DEF Entries, p
<1>8. child.log # <<>> => LastEntry(child) \in Entries(RefOf(child))
  <2>1. child.log \in Seq(Entry)
    BY <1>1 DEF Manifest
  <2>2. child.log # <<>> => Len(child.log) \in DOMAIN child.log
    BY <2>1
  <2> QED
    BY <1>2, <2>2 DEF Entries, LastEntry
<1> QED
  BY <1>2, <1>5, <1>6, <1>7, <1>8 DEF RefOf

LEMMA ForkStep ==
    ASSUME IInv, NEW j \in Jobs, NEW run \in Runs, Fork(j, run)
    PROVE  IInv'
<1>1. PICK J : J = journal[j]
  OBVIOUS
<1>2. PICK o : o = worker[j]
  OBVIOUS
<1>3. /\ o # NoRef /\ o.pc = "fork" /\ UNCHANGED <<journal, task, result>>
  BY <1>2 DEF Fork, At, Engine!Fork
<1>4. /\ o \in Worker /\ J \in Journal /\ J # NoRef /\ WorkerOK(j, J, o)
  BY <1>1, <1>2, <1>3, Alive
<1>5. o.manifest \in Published /\ o.manifest \in Ref
  <2>1. o.manifest \in Published
    BY <1>3, <1>4 DEF WorkerOK, PositionOK, ManifestOK, Forking
  <2> QED
    BY <2>1, RefTyped DEF IInv
<1>6. PICK m : m = Snapshot(o.manifest, run, j)
  OBVIOUS
<1>7. /\ Publish(m) /\ run \in NewRuns /\ task[j] = Engine!Idle
  BY <1>2, <1>6, SameStore DEF Fork, Engine!Fork
<1>8. StoreInv' /\ store' = store \cup {m} /\ m \in Manifest
  <2>1. StoreInv /\ Publish(Snapshot(o.manifest, run, j))
    BY <1>6, <1>7 DEF IInv
  <2>2. StoreInv' /\ store' = store \cup {Snapshot(o.manifest, run, j)}
        /\ Snapshot(o.manifest, run, j) \in Manifest
    BY <1>5, <2>1, SnapshotKeeps, SnapshotTyped DEF Jobs
  <2> QED
    BY <1>6, <2>2
<1>9. m.run = run /\ m.rev = 0 /\ m.by = j /\ m.source = o.manifest
  BY <1>6 DEF Snapshot
<1>10. RunsHaveOneWriter'
  BY <1>7, <1>8, <1>9, NewRunHasOneWriter DEF IInv
<1>11. PICK ref : ref = RefOf(m)
  OBVIOUS
<1>12. ref \in Ref /\ ref.by = j /\ ref.rev = 0
  BY <1>8, <1>9, <1>11 DEF RefOf, Ref, Manifest
<1>13. ref \in Published' /\ Load(ref)' = m
  BY <1>8, <1>11, LoadedNext
<1>14. PICK u : u = [o EXCEPT !.pc = "forked"]
  OBVIOUS
<1>15. PICK w : w = [u EXCEPT !.next = ref]
  OBVIOUS
<1>16. /\ u \in Worker /\ u.pc = "forked" /\ u.idx = o.idx /\ u.manifest = o.manifest
       /\ u.initialPending = o.initialPending /\ u.reusedPending = o.reusedPending
       /\ u.reason = o.reason
  BY <1>4, <1>14 DEF Worker
<1>17. /\ w \in Worker /\ w.pc = "forked" /\ w.idx = o.idx /\ w.manifest = o.manifest
       /\ w.initialPending = o.initialPending /\ w.reusedPending = o.reusedPending
       /\ w.reason = o.reason /\ w.next = ref
  BY <1>12, <1>15, <1>16 DEF Worker
<1>18. worker' = [worker EXCEPT ![j] = w]
  BY <1>2, <1>6, <1>11, <1>14, <1>15 DEF Fork, Goto
<1>19. WorkerOK(j, J, o)'
  BY <1>4, <1>8, WorkerKept DEF IInv
<1>20. WorkerOK(j, J, w)'
  <2>1. PositionOK(J, w)'
    BY <1>3, <1>17, <1>19 DEF WorkerOK, PositionOK, Forking, Executing
  <2>2. ManifestOK(j, J, w)'
    BY <1>3, <1>17, <1>19 DEF WorkerOK, ManifestOK, Forking
  <2>3. NextOK(j, J, w)'
    BY <1>9, <1>12, <1>13, <1>17 DEF NextOK
  <2>4. KeyOf(J, w)' = KeyOf(J, o)'
    BY <1>17 DEF KeyOf, StageOf, ConfigOf
  <2>5. AttemptOK(J, w)'
    BY <1>3, <1>17, <1>19, <2>4 DEF WorkerOK, AttemptOK, Forking, Executing
  <2> QED
    BY <1>19, <2>1, <2>2, <2>3, <2>5 DEF WorkerOK
<1>21. PICK t : t = task[j]
  OBVIOUS
<1>22. PICK a : a = result[j]
  OBVIOUS
<1>23. /\ t \in Task /\ a \in Engine!Result \cup {NoRef} /\ t = Engine!Idle
       /\ task' = [task EXCEPT ![j] = t] /\ result' = [result EXCEPT ![j] = a]
  BY <1>3, <1>7, <1>21, <1>22 DEF IInv, TypeOK
<1> QED
  BY <1>1, <1>3, <1>4, <1>8, <1>10, <1>17, <1>18, <1>20, <1>23, EngineKeeps

\* The worker waits for the operation it called.
LEMMA CallStep ==
    ASSUME IInv, NEW j \in Jobs, worker[j] # NoRef, worker[j].pc = "engine",
           NEW t \in Task, NEW a \in Engine!Result \cup {NoRef},
           Goto(j, [worker[j] EXCEPT !.pc = "running"]),
           UNCHANGED journal,
           task' = [task EXCEPT ![j] = t],
           result' = [result EXCEPT ![j] = a],
           StoreInv', RunsHaveOneWriter', store \subseteq store',
           StageOf(journal[j], worker[j]) # Build => worker[j].manifest # NoRef,
           \A J, w : /\ w \in Worker /\ w.pc = "running" /\ J = journal[j]
                     /\ w.idx = worker[j].idx /\ w.manifest = worker[j].manifest
                     => /\ t # Engine!Idle => CallOK(j, J, w, t)'
                        /\ t = Engine!Idle => AnswerOK(j, J, w, a)'
    PROVE  IInv'
<1>1. PICK J : J = journal[j]
  OBVIOUS
<1>2. PICK o : o = worker[j]
  OBVIOUS
<1>3. PICK w : w = [o EXCEPT !.pc = "running"]
  OBVIOUS
<1>4. /\ o \in Worker /\ J \in Journal /\ J # NoRef /\ WorkerOK(j, J, o)
  BY <1>1, <1>2, Alive
<1>5. /\ w \in Worker /\ w.pc = "running" /\ w.idx = o.idx /\ w.manifest = o.manifest
      /\ w.initialPending = o.initialPending /\ w.reusedPending = o.reusedPending
      /\ w.attempt = o.attempt
  BY <1>3, <1>4 DEF Worker
<1>6. WorkerOK(j, J, w)
  <2>1. PositionOK(J, w)
    BY <1>2, <1>4, <1>5 DEF WorkerOK, PositionOK, Forking, Executing
  <2>2. ManifestOK(j, J, w)
    BY <1>1, <1>2, <1>4, <1>5, SameKey DEF WorkerOK, ManifestOK, Forking
  <2>3. NextOK(j, J, w) /\ AttemptOK(J, w)
    BY <1>2, <1>4, <1>5, SameKey DEF WorkerOK, NextOK, AttemptOK, Executing
  <2> QED
    BY <1>4, <2>1, <2>2, <2>3 DEF WorkerOK
<1>7. WorkerOK(j, J, w)'
  BY <1>6, WorkerKept DEF IInv
<1>8. worker' = [worker EXCEPT ![j] = w]
  BY <1>2, <1>3 DEF Goto
<1>9. /\ t # Engine!Idle => CallOK(j, J, w, t)'
      /\ t = Engine!Idle => AnswerOK(j, J, w, a)'
  BY <1>1, <1>2, <1>5
<1> QED
  BY <1>1, <1>4, <1>5, <1>7, <1>8, <1>9, EngineKeeps

LEMMA CallBuildStep ==
    ASSUME IInv, NEW j \in Jobs, NEW run \in Runs, CallBuild(j, run)
    PROVE  IInv'
<1>1. PICK J : J = journal[j]
  OBVIOUS
<1>2. PICK o : o = worker[j]
  OBVIOUS
<1>3. /\ o # NoRef /\ o.pc = "engine" /\ StageOf(J, o) = Build
      /\ UNCHANGED journal
      /\ Engine!StartRun(j, run, Build, ConfigOf(J, o), o.attempt)
      /\ Goto(j, [worker[j] EXCEPT !.pc = "running"])
  BY <1>1, <1>2, StageKeyIs DEF CallBuild, At
<1>4. /\ o \in Worker /\ J \in Journal /\ WorkerOK(j, J, o)
      /\ o.idx \in 1..Len(J.plan)
  BY <1>1, <1>2, <1>3, Alive, AtStage DEF Executing
<1>5. ConfigOf(J, o) \in Configs
  BY <1>4, StageTyped DEF WorkerOK, ManifestOK, IInv
<1>6. PICK m : m = Created(run, j)
  OBVIOUS
<1>7. PICK ref : ref = RefOf(m)
  OBVIOUS
<1>8. PICK e : e = [name |-> Build, cfg |-> ConfigOf(J, o), attempt |-> o.attempt,
                    ok |-> TRUE]
  OBVIOUS
<1>9. PICK t : t = [pc |-> "running", base |-> ref, entry |-> e, initial |-> TRUE]
  OBVIOUS
<1>10. /\ Publish(Created(run, j)) /\ run \in NewRuns
       /\ task' = [task EXCEPT ![j] = t]
       /\ result' = [result EXCEPT ![j] = NoRef]
  BY <1>3, <1>6, <1>7, <1>8, <1>9, SameStore DEF Engine!StartRun, Engine!Begin
<1>11. StoreInv' /\ store' = store \cup {m} /\ m \in Manifest
  <2>1. StoreInv' /\ store' = store \cup {Created(run, j)}
        /\ Created(run, j) \in Manifest
    BY <1>10, CreatedKeeps, CreatedTyped DEF IInv, Jobs
  <2> QED
    BY <1>6, <2>1
<1>12. m.run = run /\ m.rev = 0 /\ m.by = j
  BY <1>6 DEF Created
<1>13. RunsHaveOneWriter'
  BY <1>10, <1>11, <1>12, NewRunHasOneWriter DEF IInv
<1>14. ref \in Ref /\ ref.by = j /\ ref \in Published'
  BY <1>7, <1>11, <1>12, LoadedNext DEF RefOf, Ref, Manifest
<1>15. e \in Entry /\ e.name = Build /\ e.cfg = ConfigOf(J, o)
  BY <1>4, <1>5, <1>8, PlanAssumption DEF Entry, Worker
<1>16. /\ t \in Task /\ t.base = ref /\ t.entry = e /\ t.initial
  BY <1>9, <1>14, <1>15 DEF Task
<1>17. ASSUME NEW w \in Worker, w.pc = "running", w.idx = o.idx,
              w.manifest = o.manifest
       PROVE  CallOK(j, J, w, t)'
  <2>1. StageOf(J, w) = Build /\ ConfigOf(J, w) = ConfigOf(J, o)
    BY <1>3, <1>17 DEF StageOf, ConfigOf
  <2> QED
    BY <1>14, <1>15, <1>16, <1>17, <2>1, NoneAssumption DEF CallOK
<1>18. t # Engine!Idle
  BY <1>9 DEF Engine!Idle
<1>19. /\ NoRef \in Engine!Result \cup {NoRef}
       /\ store \subseteq store'
       /\ StageOf(journal[j], worker[j]) = Build
  BY <1>1, <1>2, <1>3, <1>11
<1>20. PICK a : a = NoRef
  OBVIOUS
<1> QED
  BY <1>1, <1>2, <1>3, <1>10, <1>11, <1>13, <1>16, <1>17, <1>18, <1>19, <1>20, CallStep

\* An answer that is read from a child.
LEMMA ChildAnswer ==
    ASSUME StoreInv, RunsHaveOneWriter, NEW j, NEW J, NEW w, w.manifest \in Published,
           w.manifest.by = j, NEW child \in Children(w.manifest),
           NEW a, a = Engine!ChildResult(w.manifest, child, StageOf(J, w), ConfigOf(J, w)),
           StageOf(J, w) \in StageNames, ConfigOf(J, w) \in Configs
    PROVE  a \in Engine!Result /\ AnswerOK(j, J, w, a)
<1> DEFINE name == StageOf(J, w)
           cfg == ConfigOf(J, w)
           ref == w.manifest
<1>1. /\ RefOf(child) \in Published /\ RefOf(child).by = j
      /\ RefOf(child).rev # 0 /\ RefOf(child) # NoRef
      /\ Entries(ref) \subseteq Entries(RefOf(child))
      /\ child.log # <<>> => LastEntry(child) \in Entries(RefOf(child))
  BY ChildTrue
<1>2. RefOf(child) \in Ref /\ ref \in Ref
  BY <1>1, RefTyped
<1>3. PICK ok : ok = (Engine!Reusable(child, name, cfg) /\ LastEntry(child).ok)
  OBVIOUS
<1>4. ok \in BOOLEAN
  BY <1>3
<1>5. a = [base |-> ref, name |-> name, cfg |-> cfg, ok |-> ok,
           manifest |-> RefOf(child)]
  BY <1>3, SameStore DEF Engine!ChildResult
<1>6. ok => /\ child.log # <<>> /\ LastEntry(child).name = name
            /\ LastEntry(child).cfg = cfg /\ LastEntry(child).ok
  BY <1>3, SameStore DEF Engine!Reusable
<1> HIDE DEF name, cfg, ref
<1>7. a.ok = ok /\ a.manifest = RefOf(child)
  BY <1>5
<1>8. a \in Engine!Result
  BY <1>2, <1>4, <1>5, SameStore DEF Engine!Result, name, cfg
<1>9. ok => Records(RefOf(child), name, cfg)
  BY <1>1, <1>6 DEF Records
<1>10. AnswerOK(j, J, w, a)
  BY <1>1, <1>7, <1>9 DEF AnswerOK, name, cfg, ref
<1> QED
  BY <1>8, <1>10

LEMMA CallContinueStep ==
    ASSUME IInv, NEW j \in Jobs, CallContinue(j)
    PROVE  IInv'
<1>1. PICK J : J = journal[j]
  OBVIOUS
<1>2. PICK o : o = worker[j]
  OBVIOUS
<1>3. /\ o # NoRef /\ o.pc = "engine" /\ StageOf(J, o) # Build
      /\ o.manifest # NoRef /\ UNCHANGED journal
      /\ Engine!Continue(j, o.manifest, StageOf(J, o), ConfigOf(J, o), o.attempt)
      /\ Goto(j, [worker[j] EXCEPT !.pc = "running"])
  BY <1>1, <1>2, StageKeyIs DEF CallContinue, At
<1>4. /\ o \in Worker /\ J \in Journal /\ WorkerOK(j, J, o)
      /\ o.idx \in 1..Len(J.plan)
  BY <1>1, <1>2, <1>3, Alive, AtStage DEF Executing
<1>5. StageOf(J, o) \in StageNames /\ ConfigOf(J, o) \in Configs
  BY <1>4, StageTyped DEF WorkerOK, ManifestOK, IInv
<1>6. o.manifest \in Published /\ o.manifest \in Ref /\ o.manifest.by = j
  <2>1. o.manifest \in Published /\ o.manifest.by = j
    BY <1>3, <1>4 DEF WorkerOK, ManifestOK, Forking
  <2> QED
    BY <2>1, RefTyped DEF IInv
<1>7. /\ UNCHANGED store /\ StoreInv /\ RunsHaveOneWriter
      /\ task[j] = Engine!Idle
  BY <1>3 DEF Engine!Continue, IInv
<1>8. StoreInv' /\ RunsHaveOneWriter' /\ store \subseteq store'
      /\ Published' = Published
  BY <1>7, StoreStays DEF RunsHaveOneWriter
<1>9. StageOf(journal[j], worker[j]) # Build => worker[j].manifest # NoRef
  BY <1>2, <1>3
<1>10. CASE Children(o.manifest) = {}
  <2>1. PICK e : e = [name |-> StageOf(J, o), cfg |-> ConfigOf(J, o),
                      attempt |-> o.attempt, ok |-> TRUE]
    OBVIOUS
  <2>2. PICK t : t = [pc |-> "running", base |-> o.manifest, entry |-> e,
                      initial |-> FALSE]
    OBVIOUS
  <2>3. /\ task' = [task EXCEPT ![j] = t] /\ result' = [result EXCEPT ![j] = NoRef]
    BY <1>3, <1>10, <2>1, <2>2, SameStore DEF Engine!Continue, Engine!Begin
  <2>4. e \in Entry /\ e.name = StageOf(J, o) /\ e.cfg = ConfigOf(J, o)
    BY <1>4, <1>5, <2>1 DEF Entry, Worker
  <2>5. t \in Task /\ t.base = o.manifest /\ t.entry = e /\ ~t.initial
    BY <1>6, <2>2, <2>4 DEF Task
  <2>6. t # Engine!Idle
    BY <2>2 DEF Engine!Idle
  <2>7. ASSUME NEW w \in Worker, w.pc = "running", w.idx = o.idx,
               w.manifest = o.manifest
        PROVE  CallOK(j, J, w, t)'
    <3>1. StageOf(J, w) = StageOf(J, o) /\ ConfigOf(J, w) = ConfigOf(J, o)
      BY <2>7 DEF StageOf, ConfigOf
    <3>2. CallOK(j, J, w, t)
      BY <1>3, <1>6, <2>4, <2>5, <2>7, <3>1, NoneAssumption DEF CallOK
    <3> QED
      BY <1>7, <1>8, <3>2, CallKept
  <2>8. PICK a : a = NoRef
    OBVIOUS
  <2> QED
    BY <1>1, <1>2, <1>3, <1>8, <1>9, <2>3, <2>5, <2>6, <2>7, <2>8, CallStep
<1>11. CASE Children(o.manifest) # {}
  <2>1. PICK child \in Children(o.manifest) :
           /\ result' = [result EXCEPT ![j] =
                Engine!ChildResult(o.manifest, child, StageOf(J, o), ConfigOf(J, o))]
           /\ UNCHANGED task
    BY <1>3, <1>11, SameStore DEF Engine!Continue
  <2>2. PICK a : a = Engine!ChildResult(o.manifest, child, StageOf(J, o), ConfigOf(J, o))
    OBVIOUS
  <2>3. a \in Engine!Result
    BY <1>5, <1>6, <1>7, <2>2, ChildAnswer
  <2>4. PICK t : t = Engine!Idle
    OBVIOUS
  <2>5. t \in Task /\ task' = [task EXCEPT ![j] = t]
    BY <1>7, <2>1, <2>4 DEF Task, IInv, TypeOK
  <2>6. result' = [result EXCEPT ![j] = a]
    BY <2>1, <2>2
  <2>7. ASSUME NEW w \in Worker, w.idx = o.idx, w.manifest = o.manifest
        PROVE  AnswerOK(j, J, w, a)'
    <3>1. StageOf(J, w) = StageOf(J, o) /\ ConfigOf(J, w) = ConfigOf(J, o)
      BY <2>7 DEF StageOf, ConfigOf
    <3>2. AnswerOK(j, J, w, a)
      BY <1>5, <1>6, <1>7, <2>2, <2>7, <3>1, ChildAnswer
    <3> QED
      BY <1>6, <1>7, <1>8, <2>7, <3>2, AnswerKept
  <2> QED
    BY <1>1, <1>2, <1>3, <1>8, <1>9, <2>3, <2>4, <2>5, <2>6, <2>7, CallStep
<1> QED
  BY <1>10, <1>11

\* A worker that waits for its operation.
LEMMA Busy ==
    ASSUME IInv, NEW j \in Jobs, At(j, "running"),
           task[j].pc \in {"running", "publish", "conflict"},
           NEW J, J = journal[j], NEW w, w = worker[j], NEW t, t = task[j]
    PROVE  /\ J # NoRef /\ w # NoRef /\ w \in Worker /\ w.pc = "running"
           /\ WorkerOK(j, J, w)
           /\ t \in Task /\ t # Engine!Idle /\ t.entry \in Entry
           /\ t.base \in Published /\ t.base \in Ref /\ t.base.by = j
           /\ CallOK(j, J, w, t)
           /\ StageOf(J, w) \in StageNames /\ ConfigOf(J, w) \in Configs
<1>1. w # NoRef /\ w.pc = "running"
  BY DEF At
<1>2. /\ w \in Worker /\ J \in Journal /\ J # NoRef /\ WorkerOK(j, J, w)
      /\ w.idx \in 1..Len(J.plan)
  BY <1>1, Alive, AtStage DEF Executing
<1>3. t # Engine!Idle
  BY DEF Engine!Idle
<1>4. t \in Task
  BY DEF IInv, TypeOK
<1>5. CallOK(j, J, w, t)
  BY <1>3 DEF IInv, EngineInv
<1>6. t.entry \in Entry /\ t.base \in Ref /\ t.base \in Published /\ t.base.by = j
  BY <1>3, <1>4, <1>5 DEF Task, CallOK
<1>7. StageOf(J, w) \in StageNames /\ ConfigOf(J, w) \in Configs
  BY <1>2, StageTyped DEF WorkerOK, ManifestOK, IInv
<1> QED
  BY <1>1, <1>2, <1>3, <1>4, <1>5, <1>6, <1>7

\* An operation of the engine: the worker waits on.
LEMMA OperationKeeps ==
    ASSUME IInv, NEW j \in Jobs, At(j, "running"),
           NEW J, J = journal[j], NEW w, w = worker[j],
           NEW t \in Task, NEW a \in Engine!Result \cup {NoRef},
           UNCHANGED <<journal, worker>>,
           task' = [task EXCEPT ![j] = t],
           result' = [result EXCEPT ![j] = a],
           StoreInv', RunsHaveOneWriter', store \subseteq store',
           t # Engine!Idle => CallOK(j, J, w, t)',
           t = Engine!Idle => AnswerOK(j, J, w, a)'
    PROVE  IInv'
<1>1. w # NoRef /\ w.pc = "running"
  BY DEF At
<1>2. w \in Worker /\ J # NoRef /\ WorkerOK(j, J, w)
  BY <1>1, Alive
<1>3. WorkerOK(j, J, w)'
  BY <1>2, WorkerKept DEF IInv
<1>4. worker' = [worker EXCEPT ![j] = w] /\ UNCHANGED journal
  BY DEF IInv, TypeOK
<1> QED
  BY <1>2, <1>3, <1>4, EngineKeeps

LEMMA OperateStep ==
    ASSUME IInv, NEW j \in Jobs, At(j, "running"), NEW ok \in BOOLEAN,
           Engine!Operate(j, ok), UNCHANGED <<journal, worker>>
    PROVE  IInv'
<1>1. PICK J : J = journal[j]
  OBVIOUS
<1>2. PICK w : w = worker[j]
  OBVIOUS
<1>3. PICK o : o = task[j]
  OBVIOUS
<1>4. PICK a : a = result[j]
  OBVIOUS
<1>5. /\ o.pc = "running" /\ UNCHANGED <<store, result>>
  BY <1>3 DEF Engine!Operate
<1>6. /\ o \in Task /\ o # Engine!Idle /\ o.entry \in Entry
      /\ CallOK(j, J, w, o)
  BY <1>1, <1>2, <1>3, <1>5, Busy
<1>7. PICK e : e = [o.entry EXCEPT !.ok = ok]
  OBVIOUS
<1>8. PICK u : u = [o EXCEPT !.pc = "publish"]
  OBVIOUS
<1>9. PICK t : t = [u EXCEPT !.entry = e]
  OBVIOUS
<1>10. e \in Entry /\ e.name = o.entry.name /\ e.cfg = o.entry.cfg
  BY <1>6, <1>7 DEF Entry
<1>11. /\ u \in [pc : {"running", "publish", "conflict"}, base : Ref, entry : Entry,
                 initial : BOOLEAN]
       /\ u.pc = "publish" /\ u.base = o.base /\ u.initial = o.initial
       /\ u.entry = o.entry
  BY <1>6, <1>8 DEF Task
<1>12. /\ t \in Task /\ t.pc = "publish" /\ t.base = o.base /\ t.initial = o.initial
       /\ t.entry = e
  BY <1>9, <1>10, <1>11 DEF Task
<1>13. t # Engine!Idle
  BY <1>12 DEF Engine!Idle
<1>14. task' = [task EXCEPT ![j] = t]
  <2>1. [o EXCEPT !.pc = "publish", !.entry.ok = ok] = t
    BY <1>6, <1>7, <1>8, <1>9 DEF Task
  <2> QED
    BY <1>3, <2>1 DEF Engine!Operate
<1>15. result' = [result EXCEPT ![j] = a] /\ a \in Engine!Result \cup {NoRef}
  BY <1>4, <1>5 DEF IInv, TypeOK
<1>16. CallOK(j, J, w, t)
  BY <1>6, <1>10, <1>12 DEF CallOK
<1>17. StoreInv' /\ RunsHaveOneWriter' /\ store \subseteq store'
  BY <1>5, StoreStays DEF RunsHaveOneWriter, IInv
<1>18. CallOK(j, J, w, t)'
  BY <1>16, <1>17, CallKept DEF IInv
<1> QED
  BY <1>1, <1>2, <1>12, <1>13, <1>14, <1>15, <1>17, <1>18, OperationKeeps

\* What the publisher of a stage is told.
LEMMA PublishedAnswer ==
    ASSUME StoreInv, StoreInv', NEW j \in Jobs, NEW J, NEW w, NEW t, CallOK(j, J, w, t),
           t.entry \in Entry, t.base \in Ref,
           NEW m, m = Revised(t.base, t.entry, j), m \in store', store \subseteq store',
           NEW a, a.manifest = RefOf(m), a.ok = t.entry.ok
    PROVE  AnswerOK(j, J, w, a)'
<1> DEFINE base == t.base
           e == t.entry
<1>1. /\ base \in Published /\ base.by = j
      /\ e.name = StageOf(J, w) /\ e.cfg = ConfigOf(J, w)
      /\ StageOf(J, w) # Build => base = w.manifest
  BY DEF CallOK
<1>2. m.log = Append(Load(base).log, e) /\ m \in Manifest
  BY <1>1, RevisedTyped DEF Jobs
<1>3. m.rev = base.rev + 1 /\ m.by = j /\ base.rev \in Nat
  BY DEF Revised, Ref
<1>4. PICK ref : ref = RefOf(m)
  OBVIOUS
<1>5. ref \in Published' /\ Load(ref)' = m
  BY <1>4, LoadedNext
<1>6. ref.by = j /\ ref.rev # 0
  BY <1>3, <1>4 DEF RefOf
<1>7. Load(base).log \in Seq(Entry)
  BY <1>1, RefTyped DEF Manifest
<1>8. Entries(base) \subseteq Entries(ref)' /\ e \in Entries(ref)'
  <2> DEFINE l == Load(base).log
  <2>1. l \in Seq(Entry) /\ m.log = Append(l, e)
    BY <1>2, <1>7
  <2>2. Entries(base) = {l[i] : i \in DOMAIN l}
    BY DEF Entries
  <2>3. Entries(ref)' = {m.log[i] : i \in DOMAIN m.log}
    BY <1>5 DEF Entries
  <2> HIDE DEF l
  <2>4. /\ DOMAIN l = 1..Len(l) /\ Len(l) \in Nat
        /\ DOMAIN m.log = 1..Len(l) + 1
        /\ m.log[Len(l) + 1] = e
        /\ \A i \in DOMAIN l : m.log[i] = l[i]
    BY <2>1
  <2>5. DOMAIN l \subseteq DOMAIN m.log /\ Len(l) + 1 \in DOMAIN m.log
    BY <2>4
  <2> QED
    BY <2>2, <2>3, <2>4, <2>5
<1>9. Entries(base)' = Entries(base)
  BY <1>1, EntriesKept
<1>10. e.ok => Records(ref, StageOf(J, w), ConfigOf(J, w))'
  BY <1>1, <1>8 DEF Records, StageOf, ConfigOf
<1>11. StageOf(J, w) # Build => Entries(w.manifest)' \subseteq Entries(ref)'
  BY <1>1, <1>8, <1>9
<1>12. a.manifest = ref /\ a.ok = e.ok
  BY <1>4
<1> QED
  BY <1>5, <1>6, <1>10, <1>11, <1>12 DEF AnswerOK, StageOf, ConfigOf

LEMMA PublishStageStep ==
    ASSUME IInv, NEW j \in Jobs, At(j, "running"), Engine!PublishStage(j),
           UNCHANGED <<journal, worker>>
    PROVE  IInv'
<1>1. PICK J : J = journal[j]
  OBVIOUS
<1>2. PICK w : w = worker[j]
  OBVIOUS
<1>3. PICK o : o = task[j]
  OBVIOUS
<1>4. PICK m : m = Revised(o.base, o.entry, j)
  OBVIOUS
<1>5. /\ o.pc = "publish"
      /\ IF Conflicts(m)
         THEN /\ task' = [task EXCEPT ![j].pc = "conflict"]
              /\ UNCHANGED <<store, result>>
         ELSE /\ Publish(m)
              /\ Engine!Return(j, Engine!Answer(j, o.entry.ok, RefOf(m)))
  BY <1>3, <1>4, SameStore DEF Engine!PublishStage
<1>6. /\ o \in Task /\ o # Engine!Idle /\ o.entry \in Entry /\ CallOK(j, J, w, o)
      /\ o.base \in Published /\ o.base \in Ref /\ o.base.by = j
  BY <1>1, <1>2, <1>3, <1>5, Busy
<1>7. CASE Conflicts(m)
  <2>1. PICK t : t = [o EXCEPT !.pc = "conflict"]
    OBVIOUS
  <2>2. PICK a : a = result[j]
    OBVIOUS
  <2>3. /\ t \in Task /\ t.pc = "conflict" /\ t.base = o.base
        /\ t.initial = o.initial /\ t.entry = o.entry
    BY <1>6, <2>1 DEF Task
  <2>4. t # Engine!Idle
    BY <2>3 DEF Engine!Idle
  <2>5. task' = [task EXCEPT ![j] = t]
    BY <1>3, <1>5, <1>7, <2>1
  <2>6. result' = [result EXCEPT ![j] = a] /\ a \in Engine!Result \cup {NoRef}
    BY <1>5, <1>7, <2>2 DEF IInv, TypeOK
  <2>7. StoreInv' /\ RunsHaveOneWriter' /\ store \subseteq store'
    BY <1>5, <1>7, StoreStays DEF RunsHaveOneWriter, IInv
  <2>8. CallOK(j, J, w, t)
    BY <1>6, <2>3 DEF CallOK
  <2>9. CallOK(j, J, w, t)'
    BY <2>7, <2>8, CallKept DEF IInv
  <2> QED
    BY <1>1, <1>2, <2>3, <2>4, <2>5, <2>6, <2>7, <2>9, OperationKeeps
<1>8. CASE ~Conflicts(m)
  <2>1. PICK t : t = Engine!Idle
    OBVIOUS
  <2>2. PICK a : a = Engine!Answer(j, o.entry.ok, RefOf(m))
    OBVIOUS
  <2>3. t \in Task /\ task' = [task EXCEPT ![j] = t] /\ result' = [result EXCEPT ![j] = a]
    BY <1>5, <1>8, <2>1, <2>2 DEF Engine!Return, Task
  <2>4. StoreInv' /\ store' = store \cup {m} /\ m \in Manifest
    <3>1. StoreInv /\ Publish(Revised(o.base, o.entry, j))
      BY <1>4, <1>5, <1>8 DEF IInv
    <3>2. /\ StoreInv' /\ store' = store \cup {Revised(o.base, o.entry, j)}
          /\ Revised(o.base, o.entry, j) \in Manifest
      BY <1>6, <3>1, RevisedKeeps, RevisedTyped DEF Jobs
    <3> QED
      BY <1>4, <3>2
  <2>5. m.run = o.base.run /\ m.by = o.base.by
    BY <1>4, <1>6 DEF Revised
  <2>6. RunsHaveOneWriter'
    BY <1>6, <2>4, <2>5, RevisionHasOneWriter DEF IInv
  <2>7. a = [base |-> o.base, name |-> o.entry.name, cfg |-> o.entry.cfg,
             ok |-> o.entry.ok, manifest |-> RefOf(m)]
    BY <1>3, <2>2 DEF Engine!Answer
  <2>8. RefOf(m) \in Ref
    BY <2>4 DEF RefOf, Ref, Manifest
  <2>9. a \in Engine!Result
    BY <1>6, <2>7, <2>8, SameStore DEF Engine!Result, Entry
  <2>10. a.manifest = RefOf(m) /\ a.ok = o.entry.ok
    BY <2>7
  <2>11. AnswerOK(j, J, w, a)'
    BY <1>4, <1>6, <2>4, <2>10, PublishedAnswer DEF IInv
  <2> QED
    BY <1>1, <1>2, <2>1, <2>3, <2>4, <2>6, <2>9, <2>11, OperationKeeps
<1> QED
  BY <1>7, <1>8

LEMMA LostRaceStep ==
    ASSUME IInv, NEW j \in Jobs, At(j, "running"), Engine!LostRace(j),
           UNCHANGED <<journal, worker>>
    PROVE  IInv'
<1>1. PICK J : J = journal[j]
  OBVIOUS
<1>2. PICK w : w = worker[j]
  OBVIOUS
<1>3. PICK o : o = task[j]
  OBVIOUS
<1>4. o.pc = "conflict" /\ UNCHANGED store
  BY <1>3 DEF Engine!LostRace
<1>5. /\ o \in Task /\ o # Engine!Idle /\ o.entry \in Entry /\ CallOK(j, J, w, o)
      /\ o.base \in Published /\ o.base \in Ref /\ o.base.by = j
      /\ WorkerOK(j, J, w)
      /\ StageOf(J, w) \in StageNames /\ ConfigOf(J, w) \in Configs
  BY <1>1, <1>2, <1>3, <1>4, Busy
<1>6. PICK t : t = Engine!Idle
  OBVIOUS
<1>7. t \in Task
  BY <1>6 DEF Task
<1>8. StoreInv' /\ RunsHaveOneWriter' /\ store \subseteq store'
  BY <1>4, StoreStays DEF RunsHaveOneWriter, IInv
<1>9. StageOf(J, w) # Build => w.manifest \in Published
  BY <1>5 DEF CallOK
<1>10. CASE o.initial
  <2>1. PICK a : a = Engine!Answer(j, FALSE, o.base)
    OBVIOUS
  <2>2. task' = [task EXCEPT ![j] = t] /\ result' = [result EXCEPT ![j] = a]
    BY <1>3, <1>6, <1>10, <2>1 DEF Engine!LostRace, Engine!Return
  <2>3. a = [base |-> o.base, name |-> o.entry.name, cfg |-> o.entry.cfg,
             ok |-> FALSE, manifest |-> o.base]
    BY <1>3, <2>1 DEF Engine!Answer
  <2>4. a \in Engine!Result
    BY <1>5, <2>3, SameStore DEF Engine!Result, Entry
  <2>5. AnswerOK(j, J, w, a)'
    BY <2>3 DEF AnswerOK
  <2> QED
    BY <1>1, <1>2, <1>6, <1>7, <1>8, <2>2, <2>4, <2>5, OperationKeeps
<1>11. CASE ~o.initial
  <2>1. w.manifest = o.base /\ w.manifest.by = j /\ w.manifest \in Published
        /\ o.entry.name = StageOf(J, w) /\ o.entry.cfg = ConfigOf(J, w)
    BY <1>5, <1>11 DEF CallOK
  <2>2. PICK child \in Children(w.manifest) :
           Engine!Return(j, Engine!ChildResult(w.manifest, child, StageOf(J, w),
                                               ConfigOf(J, w)))
    BY <1>3, <1>11, <2>1, SameStore DEF Engine!LostRace
  <2>3. PICK a : a = Engine!ChildResult(w.manifest, child, StageOf(J, w), ConfigOf(J, w))
    OBVIOUS
  <2>4. a \in Engine!Result /\ AnswerOK(j, J, w, a)
    BY <1>5, <2>1, <2>3, ChildAnswer DEF IInv
  <2>5. AnswerOK(j, J, w, a)'
    BY <1>8, <1>9, <2>4, AnswerKept DEF IInv
  <2>6. task' = [task EXCEPT ![j] = t] /\ result' = [result EXCEPT ![j] = a]
    BY <1>6, <2>2, <2>3 DEF Engine!Return
  <2> QED
    BY <1>1, <1>2, <1>6, <1>7, <1>8, <2>4, <2>5, <2>6, OperationKeeps
<1> QED
  BY <1>10, <1>11

LEMMA EngineStepStep ==
    ASSUME IInv, NEW j \in Jobs, EngineStep(j)
    PROVE  IInv'
  BY OperateStep, PublishStageStep, LostRaceStep DEF EngineStep

-----------------------------------------------------------------------------
(* The invariant is inductive.                                             *)

LEMMA CrashStep ==
    ASSUME IInv, NEW j \in Jobs, Crash(j)
    PROVE  IInv'
<1>1. /\ worker' = [worker EXCEPT ![j] = NoRef]
      /\ task' = [task EXCEPT ![j] = Engine!Idle]
      /\ UNCHANGED <<store, result, journal>>
  BY DEF Crash, Goto
<1>2. StoreInv' /\ RunsHaveOneWriter' /\ store \subseteq store'
  BY <1>1, StoreStays DEF RunsHaveOneWriter, IInv
<1>3. /\ worker'[j] = NoRef /\ task'[j] = Engine!Idle /\ journal'[j] = journal[j]
      /\ \A k \in Jobs \ {j} :
            /\ journal'[k] = journal[k] /\ worker'[k] = worker[k]
            /\ task'[k] = task[k] /\ result'[k] = result[k]
  BY <1>1 DEF IInv, TypeOK
<1>4. TypeOK'
  <2>1. task' \in [Jobs -> Task] /\ worker' \in [Jobs -> Worker \cup {NoRef}]
    BY <1>1 DEF IInv, TypeOK, Task
  <2>2. \A k \in Jobs : worker'[k] # NoRef => journal'[k] # NoRef
    BY <1>3 DEF IInv, TypeOK
  <2>3. /\ journal' = journal /\ result' = result
        /\ journal' \in [Jobs -> Journal \cup {NoRef}]
        /\ result' \in [Jobs -> Engine!Result \cup {NoRef}]
    BY <1>1 DEF IInv, TypeOK
  <2>4. Task' = Task /\ Engine!Result' = Engine!Result
    BY DEF Task, Engine!Idle, Ref, Entry, Engine!Result, Engine!Ref
  <2>5. \A k \in Jobs : journal'[k] # NoRef /\ journal'[k].parent # NoRef =>
                            journal'[journal'[k].parent] # NoRef
    BY <2>3 DEF IInv, TypeOK
  <2> QED
    BY <2>1, <2>2, <2>3, <2>4, <2>5 DEF TypeOK
<1>5. JobInv(j)'
  <2>1. PICK J : J = journal[j]
    OBVIOUS
  <2>2. J # NoRef => JobOK(j, J) /\ JobFresh(J)
    BY <2>1 DEF IInv, JobInv
  <2>3. J # NoRef => JobOK(j, J)'
    BY <1>2, <2>2, JobKept DEF IInv
  <2> QED
    BY <1>3, <2>1, <2>2, <2>3 DEF JobInv, JobFresh
<1>6. WorkerInv(j)'
  BY <1>3 DEF WorkerInv
<1>7. EngineInv(j)'
  <2>1. Engine!Idle' = Engine!Idle
    BY DEF Engine!Idle
  <2> QED
    BY <1>3, <2>1 DEF EngineInv, At
<1> QED
  BY <1>2, <1>3, <1>4, <1>5, <1>6, <1>7, StepKeeps

LEMMA InitIInv == Init => IInv
<1> SUFFICES ASSUME Init
             PROVE  IInv
  OBVIOUS
<1>1. /\ store = {} /\ task = [r \in Jobs |-> Engine!Idle]
      /\ result = [r \in Jobs |-> NoRef]
      /\ journal = [j \in Jobs |-> NoRef] /\ worker = [j \in Jobs |-> NoRef]
  BY DEF Init, Engine!Init, Jobs
<1>2. StoreInv
  BY <1>1, FS_EmptySet
     DEF StoreInv, OneFile, NoGaps, Grows, ParentsStored, CopiesStored
<1>3. TypeOK
  BY <1>1 DEF TypeOK, Task
<1>4. RunsHaveOneWriter
  BY <1>1 DEF RunsHaveOneWriter
<1>5. \A j \in Jobs : JobInv(j) /\ WorkerInv(j) /\ EngineInv(j)
  BY <1>1 DEF JobInv, WorkerInv, EngineInv, At
<1> QED
  BY <1>2, <1>3, <1>4, <1>5 DEF IInv

LEMMA StutterKeeps ==
    ASSUME IInv, UNCHANGED vars
    PROVE  IInv'
<1>1. UNCHANGED <<store, task, result, journal, worker>>
  BY DEF vars
<1>2. StoreInv' /\ RunsHaveOneWriter' /\ store \subseteq store'
  BY <1>1, StoreStays DEF RunsHaveOneWriter, IInv
<1>3. TypeOK'
  <2>1. Task' = Task /\ Engine!Result' = Engine!Result
    BY DEF Task, Engine!Idle, Ref, Entry, Engine!Result, Engine!Ref
  <2> QED
    BY <1>1, <2>1 DEF IInv, TypeOK
<1>4. ASSUME NEW j \in Jobs
      PROVE  JobInv(j)' /\ WorkerInv(j)' /\ EngineInv(j)'
  <2>1. /\ \A J : JobOK(j, J) => JobOK(j, J)'
        /\ \A J, w : WorkerOK(j, J, w) => WorkerOK(j, J, w)'
        /\ \A J, w, t : CallOK(j, J, w, t) => CallOK(j, J, w, t)'
        /\ \A J, w, a : /\ StageOf(J, w) # Build => w.manifest \in Published
                        /\ AnswerOK(j, J, w, a)
                        => AnswerOK(j, J, w, a)'
    BY <1>2, JobKept, WorkerKept, CallKept, AnswerKept DEF IInv
  <2>2. JobInv(j) /\ WorkerInv(j) /\ EngineInv(j)
    BY DEF IInv
  <2>3. At(j, "running") /\ StageOf(journal[j], worker[j]) # Build
        => worker[j].manifest \in Published
    BY <2>2 DEF At, WorkerInv, WorkerOK, ManifestOK
  <2>4. Engine!Idle' = Engine!Idle
    BY DEF Engine!Idle
  <2>5. JobInv(j)' /\ WorkerInv(j)'
    BY <1>1, <2>1, <2>2 DEF JobInv, JobFresh, WorkerInv
  <2>6. EngineInv(j)'
    BY <1>1, <2>1, <2>2, <2>3, <2>4 DEF EngineInv, At
  <2> QED
    BY <2>5, <2>6
<1> QED
  BY <1>2, <1>3, <1>4 DEF IInv

LEMMA WorkerStepKeeps ==
    ASSUME IInv, NEW j \in Jobs, WorkerStep(j)
    PROVE  IInv'
<1>1. ASSUME NEW run \in Runs, Fork(j, run) \/ CallBuild(j, run)
      PROVE  IInv'
  BY <1>1, ForkStep, CallBuildStep
<1>2. CASE Cancel(j) \/ BeginStage(j) \/ Fail(j) \/ Succeed(j) \/ EndOfStages(j)
  BY <1>2, CancelStep, BeginStageStep, FailStep, SucceedStep, EndOfStagesStep
<1>3. CASE ReuseOwn(j) \/ ReuseParent(j) \/ ReuseNothing(j) \/ CommitReused(j)
  BY <1>3, ReuseOwnStep, ReuseParentStep, ReuseNothingStep, CommitReusedStep
<1>4. CASE ForkAgain(j) \/ RecordFork(j) \/ AdoptFork(j) \/ ReuseAfterFork(j)
  BY <1>4, ForkAgainStep, RecordForkStep, AdoptForkStep, ReuseAfterForkStep
<1>5. CASE StartStage(j) \/ CallContinue(j) \/ CallWithoutManifest(j) \/ EngineStep(j)
  BY <1>5, StartStageStep, CallContinueStep, CallWithoutManifestStep, EngineStepStep
<1>6. CASE RecordSuccess(j) \/ CommitStage(j) \/ RecordFailure(j)
  BY <1>6, RecordSuccessStep, CommitStageStep, RecordFailureStep
<1> QED
  BY <1>1, <1>2, <1>3, <1>4, <1>5, <1>6 DEF WorkerStep

LEMMA NextIInv == IInv /\ [Next]_vars => IInv'
<1> SUFFICES ASSUME IInv, [Next]_vars
             PROVE  IInv'
  OBVIOUS
<1>1. CASE UNCHANGED vars
  BY <1>1, StutterKeeps
<1>2. ASSUME NEW j \in Jobs, ClientStep(j)
      PROVE  IInv'
  <2>1. ASSUME NEW spec \in Specs, NEW plan \in Plans,
               \/ Submit(j, plan, spec)
               \/ \E other \in Jobs : SubmitFrom(j, plan, spec, other)
        PROVE  IInv'
    BY <2>1, SubmitStep, SubmitFromStep
  <2>2. ASSUME NEW spec \in Specs, NEW parent \in Jobs, Rerun(j, spec, parent)
        PROVE  IInv'
    BY <2>2, RerunStep
  <2>3. CASE RequestCancel(j)
    BY <2>3, RequestCancelStep
  <2>4. ASSUME NEW clear \in BOOLEAN, Claim(j, clear)
        PROVE  IInv'
    BY <2>4, ClaimStep
  <2> QED
    BY <1>2, <2>1, <2>2, <2>3, <2>4 DEF ClientStep
<1>3. ASSUME NEW j \in Jobs, WorkerStep(j)
      PROVE  IInv'
  BY <1>3, WorkerStepKeeps
<1>4. ASSUME NEW j \in Jobs, Crash(j)
      PROVE  IInv'
  BY <1>4, CrashStep
<1> QED
  BY <1>1, <1>2, <1>3, <1>4 DEF Next

-----------------------------------------------------------------------------
(* The theorems.                                                           *)

\* Journals, the locals of the workers and the engine's calls and answers keep
\* their types, and a worker or a child job never outlives a journal.
THEOREM TypesHold == Spec => []TypeOK
<1>1. IInv => TypeOK
  BY DEF IInv
<1> QED
  BY <1>1, InitIInv, NextIInv, PTL DEF Spec

\* Fork isolation, of every number of jobs, plans and kills: a run is written by
\* one job only, so neither a rerun nor a job submitted from another one ever
\* extends the other's chain, whatever is reused.
THEOREM ForksAreIsolated == Spec => []RunsHaveOneWriter
<1>1. IInv => RunsHaveOneWriter
  BY DEF IInv
<1> QED
  BY <1>1, InitIInv, NextIInv, PTL DEF Spec

\* Incomplete attempts are never reused, of every number of jobs, plans and
\* kills: no two executions of a stage share an attempt directory, and no two
\* receipts claim one file.
THEOREM AttemptsAreFresh == Spec => []AttemptsFresh
<1>1. IInv => AttemptsFresh
  BY DEF IInv, JobInv, JobFresh, AttemptsFresh, Exists
<1> QED
  BY <1>1, InitIInv, NextIInv, PTL DEF Spec

\* A receipt of a success that a job has, or took over from its parent, names a
\* published manifest that records the stage's success with that configuration,
\* and all that the stage's input records.
ReceiptsTrue ==
    \A j \in Jobs : Exists(j) => \A q \in journal[j].receipts : ReceiptTrue(q)

THEOREM ReceiptsAreTrue == Spec => []ReceiptsTrue
<1>1. IInv => ReceiptsTrue
  BY DEF IInv, JobInv, JobOK, ReceiptsTrue, Exists
<1> QED
  BY <1>1, InitIInv, NextIInv, PTL DEF Spec

\* worker.py:634 -- the receipts are looked at again after a fork: there is never
\* one to use, because the key of a fork is that of its source.
NothingToReuse ==
    \A j \in Jobs : At(j, "start") => Verified(j, StageKey(j)) = {}

THEOREM ForksReuseNothing == Spec => []NothingToReuse
<1>1. IInv => NothingToReuse
  BY NothingAfterFork DEF NothingToReuse
<1> QED
  BY <1>1, InitIInv, NextIInv, PTL DEF Spec

----------------------------------------------------------------------------
(* What a job's worker has done.                                           *)

\* The stages before the idx-th have succeeded, and the manifest records it.
Done(J, idx, ref) ==
    \A i \in DOMAIN J.plan :
        i < idx =>
           /\ \E q \in J.receipts :
                 q.ok /\ q.key.name = J.plan[i] /\ q.key.cfg = J.spec[J.plan[i]]
           /\ Records(ref, J.plan[i], J.spec[J.plan[i]])

\* The build comes first, if at all: it would start another run.
BuildFirst == \A plan \in Plans : \A i \in DOMAIN plan : plan[i] = Build => i = 1

\* A worker has done what comes before its position, a job that succeeded all.
DoneOf(j) ==
    /\ worker[j] # NoRef => Done(journal[j], worker[j].idx, worker[j].manifest)
    /\ Exists(j) /\ journal[j].st = "SUCCEEDED" =>
          /\ journal[j].manifest \in Published /\ journal[j].manifest.by = j
          /\ Done(journal[j], Len(journal[j].plan) + 1, journal[j].manifest)

DoneInv == \A j \in Jobs : DoneOf(j)

\* How a step changes a journal J and its worker o, to K and w.
JobMoves(J, o, K, w) ==
    /\ K.plan = J.plan /\ K.spec = J.spec /\ K.initial = J.initial
    /\ \/ K.receipts = J.receipts
       \/ \E q : /\ K.receipts = J.receipts \cup {q}
                 /\ q.ok => /\ o # NoRef /\ o.idx \in 1..Len(J.plan)
                            /\ q.key = KeyOf(J, o) /\ VerifiedIn(J, q.key) = {}
    /\ K.st = "SUCCEEDED" =>
          \/ K = J
          \/ o # NoRef /\ o.pc = "collect" /\ w = NoRef /\ K.manifest = o.manifest
    /\ w # NoRef =>
          \/ o = NoRef /\ w.idx = 1
          \/ o # NoRef /\ w.idx = o.idx /\ w.manifest = o.manifest
          \/ o # NoRef /\ o.pc = "adopt" /\ w.idx = o.idx /\ w.manifest = o.next
          \/ /\ o # NoRef /\ o.pc \in {"reuse", "commit"}
             /\ w.idx = o.idx + 1 /\ w.manifest = o.next

LEMMA OthersStay ==
    ASSUME IInv, NEW j \in Jobs, ClientStep(j) \/ WorkerStep(j) \/ Crash(j),
           NEW k \in Jobs, k # j
    PROVE  journal'[k] = journal[k] /\ worker'[k] = worker[k]
<1>1. journal \in [Jobs -> Journal \cup {NoRef}] /\ worker \in [Jobs -> Worker \cup {NoRef}]
  BY DEF IInv, TypeOK
<1>2. /\ \A w : Goto(j, w) => worker'[k] = worker[k]
      /\ \A J : Write(j, J) => journal'[k] = journal[k]
  BY <1>1 DEF Goto, Write
<1>3. CASE ClientStep(j)
  BY <1>1, <1>2, <1>3 DEF ClientStep, Submit, SubmitFrom, Rerun, RequestCancel, Claim
<1>4. CASE Crash(j)
  BY <1>1, <1>2, <1>4 DEF Crash
<1>5. CASE WorkerStep(j)
  <2>1. CASE Cancel(j) \/ BeginStage(j) \/ Fail(j) \/ Succeed(j) \/ EndOfStages(j)
    BY <1>2, <2>1 DEF Cancel, BeginStage, Fail, Succeed, EndOfStages, Finish
  <2>2. CASE ReuseOwn(j) \/ ReuseParent(j) \/ ReuseNothing(j) \/ CommitReused(j)
    BY <1>2, <2>2 DEF ReuseOwn, ReuseParent, ReuseNothing, CommitReused
  <2>3. CASE ForkAgain(j) \/ RecordFork(j) \/ AdoptFork(j) \/ ReuseAfterFork(j)
    BY <1>2, <2>3 DEF ForkAgain, RecordFork, AdoptFork, ReuseAfterFork
  <2>4. CASE StartStage(j) \/ CallContinue(j) \/ CallWithoutManifest(j) \/ EngineStep(j)
    BY <1>2, <2>4 DEF StartStage, CallContinue, CallWithoutManifest, EngineStep,
                      StageFailed
  <2>5. CASE RecordSuccess(j) \/ CommitStage(j) \/ RecordFailure(j)
    BY <1>2, <2>5 DEF RecordSuccess, CommitStage, RecordFailure, StageFailed
  <2>6. CASE \E run \in Runs : Fork(j, run) \/ CallBuild(j, run)
    BY <1>2, <2>6 DEF Fork, CallBuild
  <2> QED
    BY <1>5, <2>1, <2>2, <2>3, <2>4, <2>5, <2>6 DEF WorkerStep
<1> QED
  BY <1>3, <1>4, <1>5

\* The fields of a journal that a write leaves alone.
LEMMA JournalFields ==
    ASSUME NEW J \in Journal
    PROVE  /\ \A s : LET K == [J EXCEPT !.st = s]
                     IN  K.plan = J.plan /\ K.spec = J.spec /\ K.initial = J.initial
                         /\ K.receipts = J.receipts /\ K.st = s
           /\ \A s, b : LET K == [J EXCEPT !.st = s, !.cancel = b]
                     IN  K.plan = J.plan /\ K.spec = J.spec /\ K.initial = J.initial
                         /\ K.receipts = J.receipts /\ K.st = s
           /\ \A s, m : LET K == [J EXCEPT !.st = s, !.manifest = m]
                     IN  K.plan = J.plan /\ K.spec = J.spec /\ K.initial = J.initial
                         /\ K.receipts = J.receipts /\ K.st = s /\ K.manifest = m
           /\ \A m : LET K == [J EXCEPT !.manifest = m]
                     IN  K.plan = J.plan /\ K.spec = J.spec /\ K.initial = J.initial
                         /\ K.receipts = J.receipts /\ K.st = J.st
           /\ \A f : LET K == [J EXCEPT !.forks = f]
                     IN  K.plan = J.plan /\ K.spec = J.spec /\ K.initial = J.initial
                         /\ K.receipts = J.receipts /\ K.st = J.st
           /\ \A s : LET K == [J EXCEPT !.started = s]
                     IN  K.plan = J.plan /\ K.spec = J.spec /\ K.initial = J.initial
                         /\ K.receipts = J.receipts /\ K.st = J.st
           /\ \A b : LET K == [J EXCEPT !.cancel = b]
                     IN  K.plan = J.plan /\ K.spec = J.spec /\ K.initial = J.initial
                         /\ K.receipts = J.receipts /\ K.st = J.st
           /\ \A r : LET K == [J EXCEPT !.receipts = r]
                     IN  K.plan = J.plan /\ K.spec = J.spec /\ K.initial = J.initial
                         /\ K.receipts = r /\ K.st = J.st
  BY DEF Journal

LEMMA ClientMoves ==
    ASSUME IInv, NEW j \in Jobs, ClientStep(j), journal[j] # NoRef
    PROVE  JobMoves(journal[j], worker[j], journal'[j], worker'[j])
<1>1. /\ journal[j] \in Journal /\ journal \in [Jobs -> Journal \cup {NoRef}]
      /\ worker \in [Jobs -> Worker \cup {NoRef}]
  BY DEF IInv, TypeOK
<1>2. CASE RequestCancel(j)
  <2>1. /\ journal'[j] = [journal[j] EXCEPT !.cancel = TRUE]
        /\ worker'[j] = worker[j] /\ journal[j].st # "SUCCEEDED"
    BY <1>1, <1>2 DEF RequestCancel, Write, Terminal
  <2> QED
    BY <1>1, <2>1, JournalFields DEF JobMoves
<1>3. ASSUME NEW clear \in BOOLEAN, Claim(j, clear)
      PROVE  JobMoves(journal[j], worker[j], journal'[j], worker'[j])
  <2>1. PICK b : b = (journal[j].cancel /\ ~clear)
    OBVIOUS
  <2>2. /\ journal'[j] = [journal[j] EXCEPT !.st = "RUNNING", !.cancel = b]
        /\ worker[j] = NoRef /\ worker'[j].idx = 1
    BY <1>1, <1>3, <2>1 DEF Claim, Write, Goto
  <2> QED
    BY <1>1, <2>2, JournalFields DEF JobMoves
<1> QED
  BY <1>2, <1>3 DEF ClientStep, Submit, SubmitFrom, Rerun

\* The worker's writes and moves, of a live one.
LEMMA Steps ==
    ASSUME IInv, NEW j \in Jobs, worker[j] # NoRef
    PROVE  /\ \A J : Write(j, J) => journal'[j] = J
           /\ \A w : Goto(j, w) => worker'[j] = w
           /\ journal[j] \in Journal /\ worker[j] \in Worker
           /\ journal[j].st = "RUNNING"
<1>1. /\ journal \in [Jobs -> Journal \cup {NoRef}]
      /\ worker \in [Jobs -> Worker \cup {NoRef}]
  BY DEF IInv, TypeOK
<1> QED
  BY <1>1, Alive DEF Write, Goto, WorkerOK

\* A receipt is added by a stage that had none to reuse.
LEMMA ReceiptMoves ==
    ASSUME IInv, NEW j \in Jobs,
           ReuseParent(j) \/ RecordSuccess(j) \/ CallWithoutManifest(j) \/ RecordFailure(j)
    PROVE  JobMoves(journal[j], worker[j], journal'[j], worker'[j])
<1>1. worker[j] # NoRef /\ worker[j].pc \in {"key", "engine", "running"}
  BY DEF ReuseParent, RecordSuccess, CallWithoutManifest, RecordFailure, At
<1>2. /\ worker[j].idx \in 1..Len(journal[j].plan)
      /\ WorkerOK(j, journal[j], worker[j])
  BY <1>1, Alive, AtStage DEF Executing
<1>3. CASE ReuseParent(j)
  <2>1. PICK p \in Verified(journal[j].parent, StageKey(j)) :
           /\ Write(j, [journal[j] EXCEPT !.receipts = @ \cup {Copied(j, p)}])
           /\ Goto(j, Reuse(j, worker[j], Copied(j, p)))
    BY <1>3 DEF ReuseParent
  <2>2. PICK q : q = Copied(j, p)
    OBVIOUS
  <2>3. p.key = KeyOf(journal[j], worker[j])
    BY <2>1, StageKeyIs DEF Verified
  <2>4. q.key = p.key
    <3>1. p \in Receipt
      <4>1. journal[j].parent \in Jobs /\ journal[journal[j].parent] # NoRef
        BY <1>1, <1>3, Alive, ParentExists DEF ReuseParent, Journal
      <4> QED
        BY <2>1, <4>1 DEF Verified, IInv, TypeOK, Journal
    <3> QED
      BY <2>2, <3>1 DEF Copied, Receipt
  <2>5. VerifiedIn(journal[j], KeyOf(journal[j], worker[j])) = {}
    BY <1>3, StageKeyIs, VerifiedIs DEF ReuseParent
  <2>6. /\ journal'[j] = [journal[j] EXCEPT !.receipts = journal[j].receipts \cup {q}]
        /\ worker'[j].idx = worker[j].idx /\ worker'[j].manifest = worker[j].manifest
        /\ journal[j].st = "RUNNING"
    <3>1. /\ Write(j, [journal[j] EXCEPT !.receipts = journal[j].receipts \cup {q}])
          /\ Goto(j, [worker[j] EXCEPT !.pc = "reuse", !.next = q.out,
                                       !.copied = q.copied])
      BY <2>1, <2>2 DEF Reuse
    <3>2. /\ journal'[j] = [journal[j] EXCEPT !.receipts = journal[j].receipts \cup {q}]
          /\ worker'[j] = [worker[j] EXCEPT !.pc = "reuse", !.next = q.out,
                                            !.copied = q.copied]
          /\ worker[j] \in Worker /\ journal[j].st = "RUNNING"
      BY <1>1, <3>1, Steps
    <3> QED
      BY <3>2 DEF Worker
  <2>7. journal[j] \in Journal
    BY <1>1, Steps
  <2> QED
    BY <1>1, <1>2, <2>3, <2>4, <2>5, <2>6, <2>7, JournalFields DEF JobMoves
<1>4. CASE RecordSuccess(j)
  <2>1. PICK q : q = StageReceipt(j, TRUE, result[j].manifest)
    OBVIOUS
  <2>2. q.key = KeyOf(journal[j], worker[j])
    BY <2>1, StageKeyIs DEF StageReceipt
  <2>3. VerifiedIn(journal[j], KeyOf(journal[j], worker[j])) = {}
    BY <1>2, <1>4 DEF RecordSuccess, At, WorkerOK, AttemptOK, Executing
  <2>4. /\ journal'[j] = [journal[j] EXCEPT !.receipts = journal[j].receipts \cup {q}]
        /\ worker'[j].idx = worker[j].idx /\ worker'[j].manifest = worker[j].manifest
        /\ journal[j].st = "RUNNING"
    <3>1. /\ Write(j, [journal[j] EXCEPT !.receipts = journal[j].receipts \cup {q}])
          /\ Goto(j, [worker[j] EXCEPT !.pc = "commit", !.next = result[j].manifest])
      BY <1>4, <2>1 DEF RecordSuccess
    <3>2. /\ journal'[j] = [journal[j] EXCEPT !.receipts = journal[j].receipts \cup {q}]
          /\ worker'[j] = [worker[j] EXCEPT !.pc = "commit", !.next = result[j].manifest]
          /\ worker[j] \in Worker /\ journal[j].st = "RUNNING"
      BY <1>1, <3>1, Steps
    <3> QED
      BY <3>2 DEF Worker
  <2>5. journal[j] \in Journal
    BY <1>1, Steps
  <2> QED
    BY <1>1, <1>2, <2>2, <2>3, <2>4, <2>5, JournalFields DEF JobMoves
<1>5. CASE CallWithoutManifest(j) \/ RecordFailure(j)
  <2>1. PICK q : q = StageReceipt(j, FALSE, NoRef)
    OBVIOUS
  <2>2. ~q.ok
    BY <2>1 DEF StageReceipt
  <2>3. /\ journal'[j] = [journal[j] EXCEPT !.receipts = journal[j].receipts \cup {q}]
        /\ worker'[j].idx = worker[j].idx /\ worker'[j].manifest = worker[j].manifest
        /\ journal[j].st = "RUNNING"
    <3>1. /\ Write(j, [journal[j] EXCEPT !.receipts = journal[j].receipts \cup {q}])
          /\ Goto(j, [worker[j] EXCEPT !.pc = "failed"])
      BY <1>5, <2>1 DEF CallWithoutManifest, RecordFailure, StageFailed
    <3>2. /\ journal'[j] = [journal[j] EXCEPT !.receipts = journal[j].receipts \cup {q}]
          /\ worker'[j] = [worker[j] EXCEPT !.pc = "failed"]
          /\ worker[j] \in Worker /\ journal[j].st = "RUNNING"
      BY <1>1, <3>1, Steps
    <3> QED
      BY <3>2 DEF Worker
  <2>4. journal[j] \in Journal
    BY <1>1, Steps
  <2> QED
    BY <1>1, <2>2, <2>3, <2>4, JournalFields DEF JobMoves
<1> QED
  BY <1>3, <1>4, <1>5

\* The store only grows.
LEMMA StoreGrows ==
    ASSUME NEW j \in Jobs, ClientStep(j) \/ WorkerStep(j) \/ Crash(j)
    PROVE  store \subseteq store'
<1>1. \A m : Engine!Publish(m) => store \subseteq store'
  BY SameStore DEF Publish
<1>2. CASE ClientStep(j)
  BY <1>2 DEF ClientStep, Submit, SubmitFrom, Rerun, RequestCancel, Claim
<1>3. CASE Crash(j)
  BY <1>3 DEF Crash
<1>4. CASE WorkerStep(j)
  <2>1. CASE Cancel(j) \/ BeginStage(j) \/ Fail(j) \/ Succeed(j) \/ EndOfStages(j)
    BY <2>1 DEF Cancel, BeginStage, Fail, Succeed, EndOfStages, Finish
  <2>2. CASE ReuseOwn(j) \/ ReuseParent(j) \/ ReuseNothing(j) \/ CommitReused(j)
    BY <2>2 DEF ReuseOwn, ReuseParent, ReuseNothing, CommitReused
  <2>3. CASE ForkAgain(j) \/ RecordFork(j) \/ AdoptFork(j) \/ ReuseAfterFork(j)
    BY <2>3 DEF ForkAgain, RecordFork, AdoptFork, ReuseAfterFork
  <2>4. CASE StartStage(j) \/ CallContinue(j) \/ CallWithoutManifest(j)
    BY <2>4 DEF StartStage, CallContinue, CallWithoutManifest, StageFailed,
                Engine!Continue
  <2>5. CASE EngineStep(j)
    BY <1>1, <2>5 DEF EngineStep, Engine!Operate, Engine!PublishStage, Engine!LostRace
  <2>6. CASE RecordSuccess(j) \/ CommitStage(j) \/ RecordFailure(j)
    BY <2>6 DEF RecordSuccess, CommitStage, RecordFailure, StageFailed
  <2>7. CASE \E run \in Runs : Fork(j, run) \/ CallBuild(j, run)
    BY <1>1, <2>7 DEF Fork, CallBuild, Engine!Fork, Engine!StartRun
  <2> QED
    BY <1>4, <2>1, <2>2, <2>3, <2>4, <2>5, <2>6, <2>7 DEF WorkerStep
<1> QED
  BY <1>2, <1>3, <1>4

\* The worker ends: Cancel, Fail and Succeed, or a kill.
LEMMA EndMoves ==
    ASSUME IInv, NEW j \in Jobs, Cancel(j) \/ Fail(j) \/ Succeed(j) \/ Crash(j)
    PROVE  JobMoves(journal[j], worker[j], journal'[j], worker'[j])
<1>1. worker[j] # NoRef /\ journal[j] \in Journal /\ journal[j].st = "RUNNING"
  <2>1. worker[j] # NoRef
    BY DEF Cancel, Fail, Succeed, Crash, At
  <2> QED
    BY <2>1, Steps
<1>2. worker'[j] = NoRef
  BY <1>1, Steps DEF Cancel, Fail, Succeed, Crash, Finish
<1>3. CASE Crash(j)
  BY <1>1, <1>2, <1>3 DEF JobMoves, Crash
<1>4. CASE Succeed(j)
  <2>1. journal'[j] = [journal[j] EXCEPT !.st = "SUCCEEDED", !.manifest = worker[j].manifest]
    BY <1>1, <1>4, Steps DEF Succeed, Finish
  <2> QED
    BY <1>1, <1>2, <1>4, <2>1, JournalFields DEF JobMoves, Succeed, At
<1>5. CASE Cancel(j) \/ Fail(j)
  <2>1. PICK s \in {"FAILED", "CANCELLED"} :
           journal'[j] = [journal[j] EXCEPT !.st = s, !.manifest = journal[j].manifest]
    BY <1>1, <1>5, Steps DEF Cancel, Fail, Finish
  <2> QED
    BY <1>1, <1>2, <2>1, JournalFields DEF JobMoves
<1> QED
  BY <1>3, <1>4, <1>5

\* The worker writes nothing, or only forks and starts.
LEMMA LocalMoves ==
    ASSUME IInv, NEW j \in Jobs, worker[j] # NoRef,
           \/ journal'[j] = journal[j]
           \/ \E f : journal'[j] = [journal[j] EXCEPT !.forks = f]
           \/ \E s : journal'[j] = [journal[j] EXCEPT !.started = s],
           worker'[j].idx = worker[j].idx, worker'[j].manifest = worker[j].manifest
    PROVE  JobMoves(journal[j], worker[j], journal'[j], worker'[j])
<1>1. journal[j] \in Journal /\ journal[j].st = "RUNNING"
  BY Steps
<1>2. CASE journal'[j] = journal[j]
  BY <1>1, <1>2 DEF JobMoves
<1>3. ASSUME NEW f, journal'[j] = [journal[j] EXCEPT !.forks = f]
      PROVE  JobMoves(journal[j], worker[j], journal'[j], worker'[j])
  BY <1>1, <1>3, JournalFields DEF JobMoves
<1>4. ASSUME NEW s, journal'[j] = [journal[j] EXCEPT !.started = s]
      PROVE  JobMoves(journal[j], worker[j], journal'[j], worker'[j])
  BY <1>1, <1>4, JournalFields DEF JobMoves
<1> QED
  BY <1>2, <1>3, <1>4

LEMMA StepMoves ==
    ASSUME IInv, NEW j \in Jobs,
           \/ BeginStage(j) \/ ReuseOwn(j) \/ ReuseNothing(j) \/ ForkAgain(j)
           \/ RecordFork(j) \/ StartStage(j) \/ CallContinue(j) \/ EngineStep(j)
           \/ EndOfStages(j) \/ ReuseAfterFork(j)
           \/ \E run \in Runs : Fork(j, run) \/ CallBuild(j, run)
    PROVE  JobMoves(journal[j], worker[j], journal'[j], worker'[j])
<1>1. worker[j] # NoRef
  BY DEF BeginStage, ReuseOwn, ReuseNothing, ForkAgain, RecordFork, StartStage,
         CallContinue, EngineStep, EndOfStages, ReuseAfterFork, Fork, CallBuild, At
<1>2. /\ worker[j] \in Worker
      /\ \A w : Goto(j, w) => worker'[j] = w
      /\ \A J : Write(j, J) => journal'[j] = J
  BY <1>1, Steps
<1>4. ~ReuseAfterFork(j)
  BY NothingAfterFork DEF ReuseAfterFork
<1>5. worker'[j].idx = worker[j].idx /\ worker'[j].manifest = worker[j].manifest
  <2>1. CASE BeginStage(j) \/ EndOfStages(j) \/ ReuseNothing(j)
    <3>1. PICK p, r : Goto(j, [worker[j] EXCEPT !.pc = p, !.reason = r])
                      \/ Goto(j, [worker[j] EXCEPT !.pc = p])
      BY <2>1 DEF BeginStage, EndOfStages, ReuseNothing
    <3>2. \/ worker'[j] = [worker[j] EXCEPT !.pc = p, !.reason = r]
          \/ worker'[j] = [worker[j] EXCEPT !.pc = p]
      BY <1>2, <3>1
    <3> QED
      BY <1>2, <3>2 DEF Worker
  <2>2. CASE ReuseOwn(j)
    <3>1. PICK q : Goto(j, [worker[j] EXCEPT !.pc = "reuse", !.next = q.out,
                                             !.copied = q.copied])
      BY <2>2 DEF ReuseOwn, Reuse
    <3>2. worker'[j] = [worker[j] EXCEPT !.pc = "reuse", !.next = q.out,
                                         !.copied = q.copied]
      BY <1>2, <3>1
    <3> QED
      BY <1>2, <3>2 DEF Worker
  <2>3. CASE ForkAgain(j) \/ \E run \in Runs : Fork(j, run)
    <3>1. PICK p, n : Goto(j, [worker[j] EXCEPT !.pc = p, !.next = n])
      BY <2>3 DEF ForkAgain, Fork
    <3>2. worker'[j] = [worker[j] EXCEPT !.pc = p, !.next = n]
      BY <1>2, <3>1
    <3> QED
      BY <1>2, <3>2 DEF Worker
  <2>4. CASE StartStage(j)
    <3>1. worker'[j] = [worker[j] EXCEPT !.pc = "engine", !.attempt = Attempt(j)]
      BY <1>2, <2>4 DEF StartStage
    <3> QED
      BY <1>2, <3>1 DEF Worker
  <2>5. CASE RecordFork(j) \/ CallContinue(j) \/ \E run \in Runs : CallBuild(j, run)
    <3>1. PICK p : Goto(j, [worker[j] EXCEPT !.pc = p])
      BY <2>5 DEF RecordFork, CallContinue, CallBuild
    <3>2. worker'[j] = [worker[j] EXCEPT !.pc = p]
      BY <1>2, <3>1
    <3> QED
      BY <1>2, <3>2 DEF Worker
  <2>6. CASE EngineStep(j)
    BY <2>6 DEF EngineStep
  <2> QED
    BY <1>4, <2>1, <2>2, <2>3, <2>4, <2>5, <2>6
<1>6. \/ journal'[j] = journal[j]
      \/ \E f : journal'[j] = [journal[j] EXCEPT !.forks = f]
      \/ \E s : journal'[j] = [journal[j] EXCEPT !.started = s]
  <2>1. CASE RecordFork(j)
    BY <1>2, <2>1 DEF RecordFork
  <2>2. CASE StartStage(j)
    BY <1>2, <2>2 DEF StartStage
  <2> QED
    BY <1>4, <2>1, <2>2 DEF BeginStage, ReuseOwn, ReuseNothing, ForkAgain, CallContinue,
       EngineStep, EndOfStages, Fork, CallBuild
<1> QED
  BY <1>1, <1>5, <1>6, LocalMoves

\* The worker names its manifest in the journal.
LEMMA CommitMoves ==
    ASSUME IInv, NEW j \in Jobs, CommitReused(j) \/ CommitStage(j) \/ AdoptFork(j)
    PROVE  JobMoves(journal[j], worker[j], journal'[j], worker'[j])
<1>1. worker[j] # NoRef /\ worker[j].pc \in {"reuse", "commit", "adopt"}
  BY DEF CommitReused, CommitStage, AdoptFork, At
<1>2. /\ worker[j] \in Worker /\ journal[j] \in Journal /\ journal[j].st = "RUNNING"
      /\ \A w : Goto(j, w) => worker'[j] = w
      /\ \A J : Write(j, J) => journal'[j] = J
  BY <1>1, Steps
<1>3. journal'[j] = [journal[j] EXCEPT !.manifest = worker[j].next]
  BY <1>2 DEF CommitReused, CommitStage, AdoptFork
<1>4. CASE CommitReused(j) \/ CommitStage(j)
  <2>1. \/ worker'[j] = [worker[j] EXCEPT !.pc = "stage", !.idx = worker[j].idx + 1,
                             !.manifest = worker[j].next,
                             !.reusedPending = worker[j].copied]
        \/ worker'[j] = [worker[j] EXCEPT !.pc = "stage", !.idx = worker[j].idx + 1,
                             !.manifest = worker[j].next]
    BY <1>2, <1>4 DEF CommitReused, CommitStage
  <2>2. worker'[j].idx = worker[j].idx + 1 /\ worker'[j].manifest = worker[j].next
    BY <1>2, <2>1 DEF Worker
  <2>3. worker[j].pc \in {"reuse", "commit"}
    BY <1>4 DEF CommitReused, CommitStage, At
  <2> QED
    BY <1>1, <1>2, <1>3, <2>2, <2>3, JournalFields DEF JobMoves
<1>5. CASE AdoptFork(j)
  <2>1. PICK w : w = [worker[j] EXCEPT !.manifest = worker[j].next]
    OBVIOUS
  <2>2. w \in [DOMAIN worker[j] -> {w[x] : x \in DOMAIN worker[j]}]
        /\ w.idx = worker[j].idx /\ w.manifest = worker[j].next
    BY <1>2, <2>1 DEF Worker
  <2>3. \/ worker'[j] = [w EXCEPT !.pc = "key", !.initialPending = FALSE]
        \/ \E p : worker'[j] = [w EXCEPT !.pc = p, !.reusedPending = FALSE]
    BY <1>2, <1>5, <2>1 DEF AdoptFork
  <2>4. worker'[j].idx = worker[j].idx /\ worker'[j].manifest = worker[j].next
    BY <1>2, <2>1, <2>2, <2>3 DEF Worker
  <2>5. worker[j].pc = "adopt"
    BY <1>5 DEF AdoptFork, At
  <2> QED
    BY <1>1, <1>2, <1>3, <2>4, <2>5, JournalFields DEF JobMoves
<1> QED
  BY <1>4, <1>5

LEMMA Moves ==
    ASSUME IInv, NEW j \in Jobs, ClientStep(j) \/ WorkerStep(j) \/ Crash(j),
           journal[j] # NoRef
    PROVE  JobMoves(journal[j], worker[j], journal'[j], worker'[j])
<1>1. CASE ClientStep(j)
  BY <1>1, ClientMoves
<1>2. CASE Crash(j)
  BY <1>2, EndMoves
<1>3. CASE WorkerStep(j)
  BY <1>3, EndMoves, StepMoves, CommitMoves, ReceiptMoves DEF WorkerStep
<1> QED
  BY <1>1, <1>2, <1>3

\* A new job has done nothing.
LEMMA FirstMoves ==
    ASSUME IInv, NEW j \in Jobs, ClientStep(j) \/ WorkerStep(j) \/ Crash(j),
           journal[j] = NoRef
    PROVE  /\ worker'[j] = NoRef
           /\ \/ journal'[j] = NoRef
              \/ journal'[j].receipts = {} /\ journal'[j].st = "QUEUED"
<1>1. worker[j] = NoRef /\ journal \in [Jobs -> Journal \cup {NoRef}]
  BY NoJournal DEF IInv, TypeOK
<1>2. ~WorkerStep(j) /\ ~Crash(j)
  BY <1>1 DEF Crash, WorkerStep, Cancel, BeginStage, ReuseOwn, ReuseParent, ReuseNothing,
     CommitReused, ForkAgain, Fork, CallBuild, RecordFork, AdoptFork, ReuseAfterFork,
     StartStage, CallContinue, CallWithoutManifest, EngineStep, RecordSuccess,
     CommitStage, RecordFailure, Fail, EndOfStages, Succeed, At
<1>3. PICK plan, spec, initial, parent :
         /\ Write(j, Prepared(plan, spec, initial, parent))
         /\ UNCHANGED worker
  BY <1>1, <1>2 DEF ClientStep, Submit, SubmitFrom, Rerun, RequestCancel, Claim
<1>4. journal'[j] = Prepared(plan, spec, initial, parent)
  BY <1>1, <1>3 DEF Write
<1> QED
  BY <1>1, <1>3, <1>4 DEF Prepared

\* What was done stays done.
LEMMA DoneKept ==
    ASSUME StoreInv, StoreInv', store \subseteq store', NEW J, NEW K,
           K.plan = J.plan, K.spec = J.spec, J.receipts \subseteq K.receipts,
           J \in Journal, NEW idx, NEW ref, ref \in Published \/ idx = 1,
           Done(J, idx, ref)
    PROVE  Done(K, idx, ref)'
<1> SUFFICES ASSUME NEW i \in DOMAIN K.plan, i < idx
             PROVE  /\ \E q \in K.receipts : /\ q.ok /\ q.key.name = K.plan[i]
                                             /\ q.key.cfg = K.spec[K.plan[i]]
                    /\ Records(ref, K.plan[i], K.spec[K.plan[i]])'
  BY DEF Done
<1>1. ref \in Published
  BY PlanTyped
<1>2. \A n, c : Records(ref, n, c) => Records(ref, n, c)'
  BY <1>1, EntriesKept
<1> QED
  BY <1>2 DEF Done

\* The next stage is done, too, once its manifest is committed.
LEMMA CommitDoes ==
    ASSUME IInv, BuildFirst, NEW j \in Jobs, worker[j] # NoRef,
           worker[j].pc \in {"reuse", "commit"},
           Done(journal[j], worker[j].idx, worker[j].manifest)
    PROVE  Done(journal[j], worker[j].idx + 1, worker[j].next)
<1>1. PICK J, o : J = journal[j] /\ o = worker[j]
  OBVIOUS
<1>2. /\ o \in Worker /\ J \in Journal /\ WorkerOK(j, J, o) /\ JobOK(j, J)
      /\ o.idx \in 1..Len(J.plan)
  BY <1>1, Alive, AtStage
<1>3. PICK q \in VerifiedIn(J, KeyOf(J, o)) : q.out = o.next
  BY <1>1, <1>2 DEF WorkerOK, NextOK
<1>4. q \in J.receipts /\ q.ok /\ q.key = KeyOf(J, o) /\ ReceiptTrue(q)
  BY <1>2, <1>3 DEF VerifiedIn, JobOK
<1>5. q.key.name = J.plan[o.idx] /\ q.key.cfg = J.spec[J.plan[o.idx]]
  BY <1>4 DEF KeyOf, StageOf, ConfigOf
<1>6. Records(o.next, J.plan[o.idx], J.spec[J.plan[o.idx]])
  BY <1>3, <1>4, <1>5 DEF ReceiptTrue
<1>7. ASSUME o.idx > 1
      PROVE  Entries(o.manifest) \subseteq Entries(o.next)
  <2>1. J.plan[o.idx] # Build
    BY <1>2, <1>7, PlanTyped DEF BuildFirst, Journal
  <2>2. o.manifest \in Published
    BY <1>2, <1>7 DEF WorkerOK, PositionOK, ManifestOK
  <2>3. q.key.input = ManifestIdentity(o.manifest)
    BY <1>4, <2>1 DEF KeyOf, StageOf
  <2>4. Entries(q.key.input) = Entries(o.manifest)
    BY <2>2, <2>3, IdentityTyped DEF IInv
  <2> QED
    BY <1>3, <1>4, <1>5, <2>1, <2>4 DEF ReceiptTrue
<1>8. ASSUME NEW i \in DOMAIN J.plan, i < o.idx + 1
      PROVE  /\ \E p \in J.receipts : /\ p.ok /\ p.key.name = J.plan[i]
                                      /\ p.key.cfg = J.spec[J.plan[i]]
             /\ Records(o.next, J.plan[i], J.spec[J.plan[i]])
  <2>1. CASE i = o.idx
    BY <1>4, <1>5, <1>6, <2>1
  <2>2. CASE i < o.idx
    <3>1. o.idx > 1
      BY <1>2, <2>2, PlanTyped
    <3>2. /\ \E p \in J.receipts : /\ p.ok /\ p.key.name = J.plan[i]
                                   /\ p.key.cfg = J.spec[J.plan[i]]
          /\ Records(o.manifest, J.plan[i], J.spec[J.plan[i]])
      BY <1>1, <2>2 DEF Done
    <3>3. Entries(o.manifest) \subseteq Entries(o.next)
      BY <3>1, <1>7
    <3> QED
      BY <3>2, <3>3 DEF Records
  <2>3. i \in Nat /\ o.idx \in Nat
    BY <1>2, PlanTyped
  <2> QED
    BY <1>8, <2>1, <2>2, <2>3
<1> QED
  BY <1>1, <1>8 DEF Done

\* A fork records what its source does.
LEMMA AdoptDoes ==
    ASSUME IInv, NEW j \in Jobs, worker[j] # NoRef, worker[j].pc = "adopt",
           Done(journal[j], worker[j].idx, worker[j].manifest)
    PROVE  Done(journal[j], worker[j].idx, worker[j].next)
<1>1. /\ worker[j].next \in Published /\ worker[j].next.rev = 0
      /\ Load(worker[j].next).source = worker[j].manifest
      /\ worker[j].manifest # NoRef
  BY Alive DEF WorkerOK, NextOK, PositionOK, Forking
<1>2. ManifestIdentity(worker[j].next) = worker[j].manifest
  <2>1. worker[j].next # NoRef
    BY <1>1, RefTyped DEF IInv
  <2> QED
    BY <1>1, <2>1 DEF ManifestIdentity
<1>3. Entries(worker[j].next) = Entries(worker[j].manifest)
  BY <1>1, <1>2, IdentityTyped DEF IInv
<1> QED
  BY <1>3 DEF Done, Records

\* Where a worker is, its manifest is published.
LEMMA WorkersManifest ==
    ASSUME IInv, NEW j \in Jobs, worker[j] # NoRef
    PROVE  worker[j].manifest \in Published \/ worker[j].idx = 1
<1>1. WorkerOK(j, journal[j], worker[j]) /\ worker[j] \in Worker /\ journal[j] \in Journal
  BY Alive
<1>2. worker[j].idx = 1 \/ worker[j].idx > 1
  BY <1>1, PlanTyped DEF WorkerOK, PositionOK
<1> QED
  BY <1>1, <1>2 DEF WorkerOK, PositionOK, ManifestOK

\* A job that does not move.
LEMMA DoneStays ==
    ASSUME IInv, StoreInv', store \subseteq store', NEW k \in Jobs, DoneOf(k),
           journal'[k] = journal[k], worker'[k] = worker[k]
    PROVE  DoneOf(k)'
<1>1. worker[k] # NoRef =>
         /\ Done(journal[k], worker[k].idx, worker[k].manifest)
         /\ journal[k] \in Journal
         /\ worker[k].manifest \in Published \/ worker[k].idx = 1
  BY WorkersManifest, Alive DEF DoneOf
<1>2. journal[k] # NoRef => journal[k] \in Journal
  BY DEF IInv, TypeOK
<1>3. ASSUME NEW J \in Journal, NEW idx, NEW ref, ref \in Published \/ idx = 1
      PROVE  Done(J, idx, ref) => Done(J, idx, ref)'
  BY <1>3, DoneKept DEF IInv
<1>4. PICK J, w : J = journal[k] /\ w = worker[k]
  OBVIOUS
<1>5. w # NoRef => Done(J, w.idx, w.manifest)'
  BY <1>1, <1>3, <1>4
<1>6. J # NoRef /\ J.st = "SUCCEEDED" =>
         /\ J.manifest \in Published /\ J.manifest \in Published' /\ J.manifest.by = k
         /\ Done(J, Len(J.plan) + 1, J.manifest)'
  <2>1. J # NoRef /\ J.st = "SUCCEEDED" =>
           /\ J.manifest \in Published /\ J.manifest.by = k
           /\ Done(J, Len(J.plan) + 1, J.manifest)
    BY <1>4 DEF DoneOf, Exists
  <2>2. Published \subseteq Published'
    BY DEF Published
  <2> QED
    BY <1>2, <1>3, <1>4, <2>1, <2>2
<1>7. J = journal'[k] /\ w = worker'[k]
  BY <1>4
<1> QED
  BY <1>5, <1>6, <1>7 DEF DoneOf, Done, Exists

\* A journal keeps its plan and its receipts.
LEMMA KeptByMoves ==
    ASSUME NEW J, NEW o, NEW K, NEW w, JobMoves(J, o, K, w)
    PROVE  K.plan = J.plan /\ K.spec = J.spec /\ J.receipts \subseteq K.receipts
  BY DEF JobMoves

\* The job that moves.
LEMMA DoneMoves ==
    ASSUME IInv, IInv', BuildFirst, store \subseteq store', NEW j \in Jobs, DoneOf(j),
           journal[j] # NoRef,
           JobMoves(journal[j], worker[j], journal'[j], worker'[j])
    PROVE  DoneOf(j)'
<1>1. PICK J, o, K, w : J = journal[j] /\ o = worker[j] /\ K = journal'[j] /\ w = worker'[j]
  OBVIOUS
<1>2. JobMoves(J, o, K, w) /\ J \in Journal /\ StoreInv /\ StoreInv'
  BY <1>1 DEF IInv, TypeOK
<1>3. ASSUME NEW idx, NEW ref, ref \in Published \/ idx = 1, Done(J, idx, ref)
      PROVE  Done(K, idx, ref)'
  BY <1>2, <1>3, KeptByMoves, DoneKept
<1>4. ASSUME w # NoRef
      PROVE  Done(K, w.idx, w.manifest)'
  <2>1. CASE o = NoRef /\ w.idx = 1
    <3>1. \A i \in DOMAIN K.plan : ~(i < 1)
      BY <1>2, PlanTyped, KeptByMoves
    <3> QED
      BY <2>1, <3>1 DEF Done
  <2>2. CASE o # NoRef /\ w.idx = o.idx /\ w.manifest = o.manifest
    <3>1. Done(J, o.idx, o.manifest) /\ (o.manifest \in Published \/ o.idx = 1)
      BY <1>1, <2>2, WorkersManifest DEF DoneOf
    <3> QED
      BY <1>3, <2>2, <3>1
  <2>3. CASE o # NoRef /\ o.pc = "adopt" /\ w.idx = o.idx /\ w.manifest = o.next
    <3>1. Done(J, o.idx, o.next)
      BY <1>1, <2>3, AdoptDoes DEF DoneOf
    <3>2. o.next \in Published
      BY <1>1, <2>3, Alive DEF WorkerOK, NextOK
    <3> QED
      BY <1>3, <2>3, <3>1, <3>2
  <2>4. CASE /\ o # NoRef /\ o.pc \in {"reuse", "commit"}
             /\ w.idx = o.idx + 1 /\ w.manifest = o.next
    <3>1. Done(J, o.idx + 1, o.next)
      BY <1>1, <2>4, CommitDoes DEF DoneOf
    <3>2. o.next \in Published
      BY <1>1, <2>4, NextTrue
    <3> QED
      BY <1>3, <2>4, <3>1, <3>2
  <2> QED
    BY <1>2, <1>4, <2>1, <2>2, <2>3, <2>4 DEF JobMoves
<1>5. ASSUME K.st = "SUCCEEDED"
      PROVE  /\ K.manifest \in Published' /\ K.manifest.by = j
             /\ Done(K, Len(K.plan) + 1, K.manifest)'
  <2>1. Published \subseteq Published'
    BY DEF Published
  <2>2. CASE K = J
    <3>1. /\ J.manifest \in Published /\ J.manifest.by = j
          /\ Done(J, Len(J.plan) + 1, J.manifest)
      BY <1>1, <1>5, <2>2 DEF DoneOf, Exists
    <3> QED
      BY <1>3, <2>1, <2>2, <3>1
  <2>3. CASE o # NoRef /\ o.pc = "collect" /\ w = NoRef /\ K.manifest = o.manifest
    <3>1. WorkerOK(j, J, o) /\ Done(J, o.idx, o.manifest)
      BY <1>1, <2>3, Alive DEF DoneOf
    <3>2. o.idx = Len(J.plan) + 1 /\ o.idx > 1
      BY <1>2, <2>3, <3>1, PlanTyped DEF WorkerOK, PositionOK
    <3>3. o.manifest \in Published /\ o.manifest.by = j
      BY <2>3, <3>1, <3>2 DEF WorkerOK, PositionOK, ManifestOK, Forking
    <3> QED
      BY <1>2, <1>3, <2>1, <2>3, <3>1, <3>2, <3>3, KeptByMoves
  <2> QED
    BY <1>2, <1>5, <2>2, <2>3 DEF JobMoves
<1>6. K = journal'[j] /\ w = worker'[j]
  BY <1>1
<1> QED
  BY <1>4, <1>5, <1>6 DEF DoneOf, Done, Exists

LEMMA NextDoneInv ==
    ASSUME BuildFirst, IInv, IInv', DoneInv, [Next]_vars
    PROVE  DoneInv'
<1> SUFFICES ASSUME NEW k \in Jobs
             PROVE  DoneOf(k)'
  BY DEF DoneInv
<1>1. DoneOf(k)
  BY DEF DoneInv
<1>2. CASE UNCHANGED vars
  BY <1>1, <1>2, DoneStays DEF vars, IInv
<1>3. ASSUME NEW j \in Jobs, ClientStep(j) \/ WorkerStep(j) \/ Crash(j)
      PROVE  DoneOf(k)'
  <2>1. store \subseteq store' /\ StoreInv'
    BY <1>3, StoreGrows DEF IInv
  <2>2. CASE k # j
    BY <1>1, <1>3, <2>1, <2>2, OthersStay, DoneStays
  <2>3. CASE k = j /\ journal[k] = NoRef
    BY <1>3, <2>3, FirstMoves DEF DoneOf, Exists
  <2>4. CASE k = j /\ journal[k] # NoRef
    BY <1>1, <1>3, <2>1, <2>4, Moves, DoneMoves
  <2> QED
    BY <2>2, <2>3, <2>4
<1> QED
  BY <1>2, <1>3 DEF Next

\* A job that succeeded has a receipt of every stage of its plan, and a manifest
\* in a run of its own records a success of each of them with its configuration:
\* of every plan that builds first, if it builds, whatever was reused from other
\* jobs, however often the workers were killed.
THEOREM SuccessIsComplete ==
    ASSUME BuildFirst
    PROVE  Spec => []SucceededComplete
<1>1. Init => DoneInv
  BY DEF Init, DoneInv, DoneOf, Exists
<1>2. IInv /\ DoneInv => SucceededComplete
  <2> SUFFICES ASSUME IInv, DoneInv, NEW j \in Jobs, Exists(j),
                      journal[j].st = "SUCCEEDED"
               PROVE  /\ journal[j].manifest \in Published
                      /\ journal[j].manifest.by = j
                      /\ \A i \in DOMAIN journal[j].plan :
                            LET name == journal[j].plan[i]
                                cfg  == journal[j].spec[name]
                            IN  /\ \E q \in journal[j].receipts :
                                      q.ok /\ q.key.name = name /\ q.key.cfg = cfg
                                /\ \E e \in ToSet(Load(journal[j].manifest).log) :
                                      e.ok /\ e.name = name /\ e.cfg = cfg
    BY DEF SucceededComplete
  <2>1. DoneOf(j) /\ journal[j] \in Journal
    BY DEF DoneInv, IInv, TypeOK, Exists
  <2>2. \A i \in DOMAIN journal[j].plan : i < Len(journal[j].plan) + 1
    BY <2>1, PlanTyped
  <2>3. ToSet(Load(journal[j].manifest).log) = Entries(journal[j].manifest)
    BY DEF ToSet, Entries
  <2> QED
    BY <2>1, <2>2, <2>3 DEF DoneOf, Done, Records
<1>3. IInv /\ DoneInv /\ IInv' /\ [Next]_vars => DoneInv'
  BY NextDoneInv
<1> QED
  BY <1>1, <1>2, <1>3, InitIInv, NextIInv, PTL DEF Spec

-----------------------------------------------------------------------------
(* How often it did it.                                                    *)

\* No stage occurs twice in a plan.
NoRepeats == \A plan \in Plans : IsInjective(plan)

\* The success of a stage of the plan.
SuccessOf(J, i, q) == q.ok /\ q.key.name = J.plan[i] /\ q.key.cfg = J.spec[J.plan[i]]

\* The successes of a job that builds form a chain: each one is the only one of
\* its stage, and read what the stage before it in the plan published.
Chained(J) ==
    /\ \A a, b \in J.receipts : a.ok /\ b.ok /\ a.key.name = b.key.name => a = b
    /\ \A q \in J.receipts : q.ok =>
          \E i \in DOMAIN J.plan :
             /\ SuccessOf(J, i, q)
             /\ i = 1 => q.key.name = Build
             /\ i > 1 => \E p \in J.receipts :
                            SuccessOf(J, i - 1, p) /\ q.key.input = p.out

\* A worker past the first stage continues the last success, or a fork of it.
Placed(J, w) ==
    w.idx > 1 => \E p \in J.receipts :
                    SuccessOf(J, w.idx - 1, p) /\ ManifestIdentity(w.manifest) = p.out

OnceOf(j) ==
    Exists(j) /\ journal[j].initial = NoRef =>
       /\ Chained(journal[j])
       /\ worker[j] # NoRef => Placed(journal[j], worker[j])

OnceInv == \A j \in Jobs : OnceOf(j)

\* In a job that builds, a success of the first stage is a build's, and one of a
\* later stage is not.
LEMMA BuildComesFirst ==
    ASSUME IInv, NoRepeats, NEW j \in Jobs, worker[j] # NoRef,
           journal[j].initial = NoRef, worker[j].idx \in 1..Len(journal[j].plan)
    PROVE  /\ worker[j].manifest # NoRef => journal[j].plan[1] = Build
           /\ worker[j].idx > 1 => StageOf(journal[j], worker[j]) # Build
<1>1. PICK J, o : J = journal[j] /\ o = worker[j]
  OBVIOUS
<1>2. J \in Journal /\ o \in Worker /\ WorkerOK(j, J, o) /\ J.initial = NoRef
      /\ o.idx \in 1..Len(J.plan)
  BY <1>1, Alive
<1>3. o.manifest # NoRef => J.plan[1] = Build
  BY <1>2 DEF WorkerOK, ManifestOK, Built
<1>4. ASSUME o.idx > 1
      PROVE  J.plan[o.idx] # Build
  <2>1. o.manifest # NoRef
    BY <1>2, <1>4 DEF WorkerOK, PositionOK
  <2>2. IsInjective(J.plan) /\ J.plan \in Seq(StageNames) /\ Len(J.plan) >= 1
    BY <1>2, PlanTyped DEF NoRepeats, Journal
  <2>3. 1 \in DOMAIN J.plan /\ o.idx \in DOMAIN J.plan
    BY <1>2, <2>2
  <2> QED
    BY <1>3, <1>4, <2>1, <2>2, <2>3 DEF IsInjective
<1> QED
  BY <1>1, <1>3, <1>4 DEF StageOf

\* A success that a stage adds continues the chain.
LEMMA ChainGrows ==
    ASSUME IInv, IInv', NoRepeats, store \subseteq store', NEW j \in Jobs,
           worker[j] # NoRef, worker[j].idx \in 1..Len(journal[j].plan),
           journal[j].initial = NoRef, Chained(journal[j]),
           Placed(journal[j], worker[j]),
           NEW q \in Receipt, q.ok, q.key = KeyOf(journal[j], worker[j]),
           VerifiedIn(journal[j], q.key) = {}, ReceiptTrue(q)',
           NEW K, K.plan = journal[j].plan, K.spec = journal[j].spec,
           K.receipts = journal[j].receipts \cup {q}
    PROVE  Chained(K)
<1>1. PICK J, o : J = journal[j] /\ o = worker[j]
  OBVIOUS
<1>2. /\ J \in Journal /\ o \in Worker /\ WorkerOK(j, J, o) /\ JobOK(j, J)
      /\ J.initial = NoRef /\ o.idx \in 1..Len(J.plan)
      /\ Chained(J) /\ Placed(J, o) /\ q.key = KeyOf(J, o) /\ VerifiedIn(J, q.key) = {}
      /\ K.plan = J.plan /\ K.spec = J.spec /\ K.receipts = J.receipts \cup {q}
  BY <1>1, Alive
<1>3. /\ IsInjective(J.plan) /\ J.plan \in Seq(StageNames)
      /\ o.idx \in DOMAIN J.plan /\ o.idx \in Nat
  <2>1. J.plan \in Seq(StageNames) /\ J.plan \in Plans
    BY <1>2, PlanTyped DEF Journal
  <2> QED
    BY <1>2, <2>1 DEF NoRepeats
<1>4. SuccessOf(J, o.idx, q)
  BY <1>2 DEF SuccessOf, KeyOf, StageOf, ConfigOf
<1>5. o.idx = 1 => q.key.name = Build
  <2>1. NoRef \notin Published'
    <3>1. store' \subseteq Manifest
      BY DEF IInv, StoreInv
    <3>2. \A m \in Manifest : RefOf(m) \in Ref
      BY DEF Manifest, RefOf, Ref
    <3> QED
      BY <3>1, <3>2, NoRefAssumption DEF Published, RefOf
  <2>2. q.key.name # Build => q.key.input # NoRef
    BY <2>1 DEF ReceiptTrue
  <2>3. q.key.name # Build => ManifestIdentity(o.manifest) # NoRef
    BY <1>2, <2>2 DEF KeyOf
  <2>4. q.key.name # Build => o.manifest # NoRef
    BY <2>3, ManifestNull
  <2> QED
    BY <1>1, <1>2, <1>4, <2>4, BuildComesFirst DEF SuccessOf
<1>6. ASSUME o.idx > 1
      PROVE  \E p \in J.receipts : SuccessOf(J, o.idx - 1, p) /\ q.key.input = p.out
  <2>1. q.key.input = ManifestIdentity(o.manifest)
    BY <1>1, <1>2, <1>6, BuildComesFirst DEF KeyOf
  <2> QED
    BY <1>2, <1>6, <2>1 DEF Placed
<1>7. ASSUME NEW p \in J.receipts, p.ok, p.key.name = q.key.name
      PROVE  FALSE
  <2>1. PICK i \in DOMAIN J.plan :
           /\ SuccessOf(J, i, p)
           /\ i = 1 => p.key.name = Build
           /\ i > 1 => \E r \in J.receipts : SuccessOf(J, i - 1, r) /\ p.key.input = r.out
    BY <1>2, <1>7 DEF Chained
  <2>2. i = o.idx
    BY <1>3, <1>4, <1>7, <2>1 DEF IsInjective, SuccessOf
  <2>3. p.key.cfg = q.key.cfg
    BY <1>4, <2>1, <2>2 DEF SuccessOf
  <2>4. p.key.input = q.key.input
    <3>1. CASE o.idx = 1
      <4>1. ReceiptTrue(p) /\ p.key.name = Build /\ q.key.name = Build
        BY <1>2, <1>5, <1>7, <3>1 DEF JobOK
      <4> QED
        BY <1>7, <4>1 DEF ReceiptTrue
    <3>2. CASE o.idx > 1
      <4>1. PICK r \in J.receipts : SuccessOf(J, o.idx - 1, r) /\ p.key.input = r.out
        BY <2>1, <2>2, <3>2
      <4>2. PICK s \in J.receipts : SuccessOf(J, o.idx - 1, s) /\ q.key.input = s.out
        BY <1>6, <3>2
      <4>3. r = s
        BY <1>2, <4>1, <4>2 DEF Chained, SuccessOf
      <4> QED
        BY <4>1, <4>2, <4>3
    <3> QED
      BY <1>2, <1>3, <3>1, <3>2
  <2>5. p.key = q.key
    <3>1. p.key \in Key /\ q.key \in Key
      BY <1>2 DEF Journal, Receipt
    <3> QED
      BY <1>7, <2>3, <2>4, <3>1 DEF Key
  <2> QED
    BY <1>2, <1>7, <2>5 DEF VerifiedIn
<1>8. ASSUME NEW a \in K.receipts, NEW b \in K.receipts, a.ok, b.ok,
             a.key.name = b.key.name
      PROVE  a = b
  <2>1. CASE a \in J.receipts /\ b \in J.receipts
    BY <1>2, <1>8, <2>1 DEF Chained
  <2> QED
    BY <1>2, <1>7, <1>8, <2>1
<1>9. ASSUME NEW p \in K.receipts, p.ok
      PROVE  \E i \in DOMAIN K.plan :
                /\ SuccessOf(K, i, p)
                /\ i = 1 => p.key.name = Build
                /\ i > 1 => \E r \in K.receipts :
                               SuccessOf(K, i - 1, r) /\ p.key.input = r.out
  <2>1. CASE p \in J.receipts
    <3>1. PICK i \in DOMAIN J.plan :
             /\ SuccessOf(J, i, p)
             /\ i = 1 => p.key.name = Build
             /\ i > 1 => \E r \in J.receipts :
                            SuccessOf(J, i - 1, r) /\ p.key.input = r.out
      BY <1>2, <1>9, <2>1 DEF Chained
    <3>2. \A k, r : SuccessOf(J, k, r) => SuccessOf(K, k, r)
      BY <1>2 DEF SuccessOf
    <3>3. i > 1 => \E r \in K.receipts :
                      SuccessOf(K, i - 1, r) /\ p.key.input = r.out
      BY <1>2, <3>1, <3>2
    <3> QED
      BY <1>2, <3>1, <3>2, <3>3
  <2>2. CASE p = q
    BY <1>2, <1>3, <1>4, <1>5, <1>6, <2>2 DEF SuccessOf
  <2> QED
    BY <1>2, <1>9, <2>1, <2>2
<1> QED
  BY <1>8, <1>9 DEF Chained

\* A worker that committed a stage continues its success, also after a fork.
LEMMA CommitPlaces ==
    ASSUME IInv, NEW j \in Jobs, worker[j] # NoRef,
           worker[j].pc \in {"reuse", "commit"}
    PROVE  \E p \in journal[j].receipts :
              /\ SuccessOf(journal[j], worker[j].idx, p)
              /\ ManifestIdentity(worker[j].next) = p.out
<1>1. PICK J, o : J = journal[j] /\ o = worker[j]
  OBVIOUS
<1>2. WorkerOK(j, J, o) /\ JobOK(j, J) /\ o.next \in Published /\ o.next.rev # 0
  BY <1>1, Alive, NextTrue
<1>3. PICK q \in VerifiedIn(J, KeyOf(J, o)) : q.out = o.next
  BY <1>1, <1>2 DEF WorkerOK, NextOK
<1>4. SuccessOf(J, o.idx, q) /\ q \in J.receipts
  BY <1>3 DEF VerifiedIn, SuccessOf, KeyOf, StageOf, ConfigOf
<1>5. ManifestIdentity(o.next) = o.next
  BY <1>2, IdentityTyped DEF IInv
<1> QED
  BY <1>1, <1>3, <1>4, <1>5

LEMMA AdoptPlaces ==
    ASSUME IInv, NEW j \in Jobs, worker[j] # NoRef, worker[j].pc = "adopt",
           journal[j].initial = NoRef
    PROVE  ManifestIdentity(worker[j].next) = ManifestIdentity(worker[j].manifest)
<1>1. PICK J, o : J = journal[j] /\ o = worker[j]
  OBVIOUS
<1>2. /\ WorkerOK(j, J, o) /\ o.pc = "adopt" /\ J.initial = NoRef
  BY <1>1, Alive
<1>3. /\ o.next \in Published /\ o.next.rev = 0 /\ Load(o.next).source = o.manifest
      /\ o.manifest # NoRef /\ o.manifest \in Published /\ o.manifest.rev # 0
  BY <1>2 DEF WorkerOK, NextOK, PositionOK, ManifestOK, Forking
<1>4. ManifestIdentity(o.manifest) = o.manifest
  BY <1>3, IdentityTyped DEF IInv
<1>5. ManifestIdentity(o.next) = o.manifest
  <2>1. o.next # NoRef
    BY <1>3, RefTyped DEF IInv
  <2> QED
    BY <1>3, <2>1 DEF ManifestIdentity
<1> QED
  BY <1>1, <1>4, <1>5

\* What is true of the journal's successes stays true of the longer journal.
LEMMA SuccessesKept ==
    ASSUME NEW J, NEW o, NEW K, NEW w, JobMoves(J, o, K, w)
    PROVE  /\ J.receipts \subseteq K.receipts
           /\ \A i, q : SuccessOf(J, i, q) => SuccessOf(K, i, q)
           /\ K.initial = J.initial
  BY DEF JobMoves, SuccessOf

LEMMA IdentityKept ==
    ASSUME IInv, IInv', store \subseteq store', NEW ref \in Published
    PROVE  ManifestIdentity(ref)' = ManifestIdentity(ref)
  BY EntriesKept DEF IInv

\* The job that moves.
LEMMA OnceMoves ==
    ASSUME IInv, IInv', NoRepeats, store \subseteq store', NEW j \in Jobs, OnceOf(j),
           journal[j] # NoRef,
           JobMoves(journal[j], worker[j], journal'[j], worker'[j])
    PROVE  OnceOf(j)'
<1>1. PICK J, o, K, w : J = journal[j] /\ o = worker[j] /\ K = journal'[j] /\ w = worker'[j]
  OBVIOUS
<1>2. /\ JobMoves(J, o, K, w) /\ J \in Journal /\ J # NoRef
      /\ J.receipts \subseteq K.receipts /\ K.initial = J.initial
      /\ \A i, q : SuccessOf(J, i, q) => SuccessOf(K, i, q)
  BY <1>1, SuccessesKept DEF IInv, TypeOK
<1> SUFFICES ASSUME K # NoRef, K.initial = NoRef
             PROVE  Chained(K) /\ (w # NoRef => Placed(K, w)')
  BY <1>1 DEF OnceOf, Exists, Placed
<1>3. Chained(J) /\ (o # NoRef => Placed(J, o))
  BY <1>1, <1>2 DEF OnceOf, Exists
<1>4. Chained(K)
  <2>1. CASE \A q \in K.receipts \ J.receipts : ~q.ok
    <3>1. \A a \in K.receipts : a.ok => a \in J.receipts
      BY <2>1
    <3>2. ASSUME NEW p \in K.receipts, p.ok
          PROVE  \E i \in DOMAIN K.plan :
                    /\ SuccessOf(K, i, p)
                    /\ i = 1 => p.key.name = Build
                    /\ i > 1 => \E r \in K.receipts :
                                   SuccessOf(K, i - 1, r) /\ p.key.input = r.out
      <4>1. PICK i \in DOMAIN J.plan :
               /\ SuccessOf(J, i, p)
               /\ i = 1 => p.key.name = Build
               /\ i > 1 => \E r \in J.receipts :
                              SuccessOf(J, i - 1, r) /\ p.key.input = r.out
        BY <1>3, <3>1, <3>2 DEF Chained
      <4>2. i > 1 => \E r \in K.receipts :
                        SuccessOf(K, i - 1, r) /\ p.key.input = r.out
        BY <1>2, <4>1
      <4>3. i \in DOMAIN K.plan
        BY <1>2 DEF JobMoves
      <4> QED
        BY <1>2, <4>1, <4>2, <4>3
    <3> QED
      BY <1>3, <3>1, <3>2 DEF Chained
  <2>2. CASE \E q \in K.receipts \ J.receipts : q.ok
    <3>1. PICK q \in K.receipts \ J.receipts : q.ok
      BY <2>2
    <3>2. /\ K.receipts = J.receipts \cup {q}
          /\ o # NoRef /\ o.idx \in 1..Len(J.plan)
          /\ q.key = KeyOf(J, o) /\ VerifiedIn(J, q.key) = {}
          /\ K.plan = J.plan /\ K.spec = J.spec
      BY <1>2, <3>1 DEF JobMoves
    <3>3. q \in Receipt /\ ReceiptTrue(q)'
      <4>1. K \in Journal /\ JobOK(j, journal[j])'
        BY <1>1 DEF IInv, TypeOK, JobInv
      <4> QED
        BY <1>1, <3>1, <4>1 DEF JobOK, Journal
    <3> QED
      BY <1>1, <1>2, <1>3, <3>1, <3>2, <3>3, ChainGrows
  <2> QED
    BY <2>1, <2>2
<1>5. ASSUME w # NoRef
      PROVE  Placed(K, w)'
  <2>1. CASE o = NoRef /\ w.idx = 1
    BY <2>1 DEF Placed
  <2>2. CASE o # NoRef /\ w.idx = o.idx /\ w.manifest = o.manifest
    <3>1. Placed(J, o) /\ (o.manifest \in Published \/ ~(o.idx > 1))
      BY <1>1, <1>3, <2>2, WorkersManifest
    <3>2. o.idx > 1 => ManifestIdentity(w.manifest)' = ManifestIdentity(o.manifest)
      BY <2>2, <3>1, IdentityKept
    <3> QED
      BY <1>2, <2>2, <3>1, <3>2 DEF Placed
  <2>3. CASE o # NoRef /\ o.pc = "adopt" /\ w.idx = o.idx /\ w.manifest = o.next
    <3>1. ManifestIdentity(o.next) = ManifestIdentity(o.manifest)
      BY <1>1, <1>2, <2>3, AdoptPlaces
    <3>2. o.next \in Published
      BY <1>1, <2>3, Alive DEF WorkerOK, NextOK
    <3>3. ManifestIdentity(w.manifest)' = ManifestIdentity(o.manifest)
      BY <2>3, <3>1, <3>2, IdentityKept
    <3> QED
      BY <1>2, <1>3, <2>3, <3>3 DEF Placed
  <2>4. CASE /\ o # NoRef /\ o.pc \in {"reuse", "commit"}
             /\ w.idx = o.idx + 1 /\ w.manifest = o.next
    <3>1. PICK p \in J.receipts :
             SuccessOf(J, o.idx, p) /\ ManifestIdentity(o.next) = p.out
      BY <1>1, <2>4, CommitPlaces
    <3>2. o.next \in Published /\ o.idx \in Nat
      <4>1. o \in Worker
        BY <1>1, <2>4, Alive
      <4> QED
        BY <1>1, <2>4, <4>1, NextTrue DEF Worker
    <3>3. ManifestIdentity(w.manifest)' = p.out
      BY <2>4, <3>1, <3>2, IdentityKept
    <3>4. w.idx - 1 = o.idx
      BY <2>4, <3>2
    <3> QED
      BY <1>2, <3>1, <3>3, <3>4 DEF Placed
  <2> QED
    BY <1>2, <1>5, <2>1, <2>2, <2>3, <2>4 DEF JobMoves
<1> QED
  BY <1>4, <1>5

\* A job that does not move.
LEMMA OnceStays ==
    ASSUME IInv, IInv', store \subseteq store', NEW k \in Jobs, OnceOf(k),
           journal'[k] = journal[k], worker'[k] = worker[k]
    PROVE  OnceOf(k)'
<1>1. PICK J, w : J = journal[k] /\ w = worker[k] /\ J = journal'[k] /\ w = worker'[k]
  OBVIOUS
<1> SUFFICES ASSUME J # NoRef, J.initial = NoRef
             PROVE  Chained(J) /\ (w # NoRef => Placed(J, w)')
  BY <1>1 DEF OnceOf, Exists, Placed
<1>2. Chained(J) /\ (w # NoRef => Placed(J, w))
  BY <1>1 DEF OnceOf, Exists
<1>3. ASSUME w # NoRef, w.idx > 1
      PROVE  ManifestIdentity(w.manifest)' = ManifestIdentity(w.manifest)
  <2>1. w.manifest \in Published
    BY <1>1, <1>3, WorkersManifest
  <2> QED
    BY <2>1, IdentityKept
<1> QED
  BY <1>2, <1>3 DEF Placed

LEMMA NextOnceInv ==
    ASSUME NoRepeats, IInv, IInv', OnceInv, [Next]_vars
    PROVE  OnceInv'
<1> SUFFICES ASSUME NEW k \in Jobs
             PROVE  OnceOf(k)'
  BY DEF OnceInv
<1>1. OnceOf(k)
  BY DEF OnceInv
<1>2. CASE UNCHANGED vars
  BY <1>1, <1>2, OnceStays DEF vars
<1>3. ASSUME NEW j \in Jobs, ClientStep(j) \/ WorkerStep(j) \/ Crash(j)
      PROVE  OnceOf(k)'
  <2>1. store \subseteq store'
    BY <1>3, StoreGrows
  <2>2. CASE k # j
    BY <1>1, <1>3, <2>1, <2>2, OthersStay, OnceStays
  <2>3. CASE k = j /\ journal[k] = NoRef
    BY <1>3, <2>3, FirstMoves DEF OnceOf, Exists, Chained
  <2>4. CASE k = j /\ journal[k] # NoRef
    BY <1>1, <1>3, <2>1, <2>4, Moves, OnceMoves
  <2> QED
    BY <2>2, <2>3, <2>4
<1> QED
  BY <1>2, <1>3 DEF Next

\* worker.py:10, of the jobs that build their own manifest by a plan that names
\* no stage twice: a stage succeeds at most once in a job, however often its
\* workers are killed and resumed and whatever is taken over from a parent.
THEOREM StagesSucceedOnce ==
    ASSUME NoRepeats
    PROVE  Spec => []BuiltStagesRunOnce
<1>1. Init => OnceInv
  BY DEF Init, OnceInv, OnceOf, Exists
<1>2. OnceInv => BuiltStagesRunOnce
  BY DEF OnceInv, OnceOf, BuiltStagesRunOnce, RunsStagesOnce, Chained, Exists
<1>3. IInv /\ OnceInv /\ IInv' /\ [Next]_vars => OnceInv'
  BY NextOnceInv
<1> QED
  BY <1>1, <1>2, <1>3, InitIInv, NextIInv, PTL DEF Spec

-----------------------------------------------------------------------------
(* What is executed can be published.                                      *)

\* The manifest that is continued records smaller attempts at the stage.
Acceptable(J, w) ==
    w # NoRef /\ w.pc \in {"engine", "running"} /\ w.manifest # NoRef =>
        LET log == Load(w.manifest).log
        IN  \A i \in DOMAIN log :
               log[i].name = StageOf(J, w) => log[i].attempt < w.attempt

\* What is on file has been validated.
Validated == \A m \in store : Valid(m)

AcceptableInv == Validated /\ \A j \in Jobs : Acceptable(journal[j], worker[j])

LEMMA StaysValidated ==
    ASSUME Validated, [Next]_vars
    PROVE  Validated'
<1> DEFINE Checked == store' = store \/ \E m : Valid(m) /\ store' = store \cup {m}
<1>1. ASSUME Checked
      PROVE  Validated'
  BY <1>1 DEF Validated, Valid
<1>2. \A m : Engine!Publish(m) => Checked
  BY SameStore DEF Publish
<1>3. ASSUME UNCHANGED vars
      PROVE  Checked
  BY <1>3 DEF vars
<1>4. ASSUME NEW j \in Jobs, ClientStep(j) \/ Crash(j)
      PROVE  Checked
  BY <1>4 DEF ClientStep, Submit, SubmitFrom, Rerun, RequestCancel, Claim, Crash
<1>5. ASSUME NEW j \in Jobs, WorkerStep(j)
      PROVE  Checked
  <2>1. CASE EngineStep(j)
    BY <1>2, <2>1 DEF EngineStep, Engine!Operate, Engine!PublishStage, Engine!LostRace
  <2>2. CASE \E run \in Runs : Fork(j, run) \/ CallBuild(j, run)
    BY <1>2, <2>2 DEF Fork, CallBuild, Engine!Fork, Engine!StartRun
  <2>3. CASE CallContinue(j)
    BY <2>3 DEF CallContinue, Engine!Continue
  <2> HIDE DEF Checked
  <2>4. CASE store' = store
    BY <2>4 DEF Checked
  <2>5. CASE /\ ~EngineStep(j) /\ ~CallContinue(j)
             /\ ~(\E run \in Runs : Fork(j, run) \/ CallBuild(j, run))
    BY <1>5, <2>4, <2>5 DEF WorkerStep, Cancel, BeginStage, ReuseOwn, ReuseParent,
       ReuseNothing, CommitReused, ForkAgain, RecordFork, AdoptFork, ReuseAfterFork,
       StartStage, CallWithoutManifest, RecordSuccess, CommitStage, RecordFailure,
       StageFailed, Fail, EndOfStages, Succeed, Finish
  <2> QED
    BY <2>1, <2>2, <2>3, <2>5
<1> HIDE DEF Checked
<1> QED
  BY <1>1, <1>3, <1>4, <1>5 DEF Next, Checked

\* A worker that executes a stage has just begun to, or goes on with it.
LEMMA ExecutionMoves ==
    ASSUME IInv, NEW j \in Jobs, ClientStep(j) \/ WorkerStep(j) \/ Crash(j),
           worker'[j] # NoRef, worker'[j].pc \in {"engine", "running"}
    PROVE  \/ /\ StartStage(j) /\ worker[j] # NoRef
              /\ worker'[j].idx = worker[j].idx /\ worker'[j].attempt = Attempt(j)
              /\ worker'[j].manifest = worker[j].manifest
           \/ /\ worker[j] # NoRef /\ worker[j].pc \in {"engine", "running"}
              /\ worker'[j].idx = worker[j].idx
              /\ worker'[j].manifest = worker[j].manifest
              /\ worker'[j].attempt = worker[j].attempt
<1>1. worker \in [Jobs -> Worker \cup {NoRef}]
  BY DEF IInv, TypeOK
<1>2. CASE ClientStep(j)
  <2>1. ASSUME NEW clear \in BOOLEAN, Claim(j, clear)
        PROVE  worker'[j].pc = "stage"
    BY <1>1, <2>1 DEF Claim, Goto
  <2>2. worker' = worker
    BY <1>2, <2>1 DEF ClientStep, Submit, SubmitFrom, Rerun, RequestCancel
  <2> QED
    BY <2>2
<1>3. CASE Crash(j)
  BY <1>1, <1>3 DEF Crash, Goto
<1>4. CASE WorkerStep(j)
  <2>0. worker[j] # NoRef
    BY <1>4 DEF WorkerStep, Cancel, BeginStage, ReuseOwn, ReuseParent, ReuseNothing,
       CommitReused, ForkAgain, Fork, CallBuild, RecordFork, AdoptFork, ReuseAfterFork,
       StartStage, CallContinue, CallWithoutManifest, EngineStep, RecordSuccess,
       CommitStage, RecordFailure, Fail, EndOfStages, Succeed, At
  <2>1. /\ worker[j] \in Worker
        /\ \A w : Goto(j, w) => worker'[j] = w
    BY <2>0, Steps
  <2>2. CASE Cancel(j) \/ Fail(j) \/ Succeed(j)
    BY <2>1, <2>2 DEF Cancel, Fail, Succeed, Finish
  <2>3. CASE BeginStage(j) \/ EndOfStages(j) \/ ReuseNothing(j) \/ RecordFork(j)
             \/ CallWithoutManifest(j) \/ RecordFailure(j)
    <3>1. PICK p, r : /\ p \notin {"engine", "running"}
                      /\ \/ Goto(j, [worker[j] EXCEPT !.pc = p, !.reason = r])
                         \/ Goto(j, [worker[j] EXCEPT !.pc = p])
      BY <2>3 DEF BeginStage, EndOfStages, ReuseNothing, RecordFork, CallWithoutManifest,
                  RecordFailure, StageFailed
    <3>2. \/ worker'[j] = [worker[j] EXCEPT !.pc = p, !.reason = r]
          \/ worker'[j] = [worker[j] EXCEPT !.pc = p]
      BY <2>1, <3>1
    <3> QED
      BY <2>1, <3>1, <3>2 DEF Worker
  <2>4. CASE ReuseOwn(j) \/ ReuseParent(j)
    <3>1. PICK q : Goto(j, Reuse(j, worker[j], q))
      BY <2>4 DEF ReuseOwn, ReuseParent
    <3>2. worker'[j] = [worker[j] EXCEPT !.pc = "reuse", !.next = q.out,
                                         !.copied = q.copied]
      BY <2>1, <3>1 DEF Reuse
    <3> QED
      BY <2>1, <3>2 DEF Worker
  <2>5. CASE ForkAgain(j) \/ RecordSuccess(j) \/ \E run \in Runs : Fork(j, run)
    <3>1. PICK p, n : /\ p \notin {"engine", "running"}
                      /\ Goto(j, [worker[j] EXCEPT !.pc = p, !.next = n])
      BY <2>5 DEF ForkAgain, RecordSuccess, Fork
    <3>2. worker'[j] = [worker[j] EXCEPT !.pc = p, !.next = n]
      BY <2>1, <3>1
    <3> QED
      BY <2>1, <3>1, <3>2 DEF Worker
  <2>6. CASE CommitReused(j) \/ CommitStage(j)
    <3>1. \/ worker'[j] = [worker[j] EXCEPT !.pc = "stage", !.idx = worker[j].idx + 1,
                               !.manifest = worker[j].next,
                               !.reusedPending = worker[j].copied]
          \/ worker'[j] = [worker[j] EXCEPT !.pc = "stage", !.idx = worker[j].idx + 1,
                               !.manifest = worker[j].next]
      BY <2>1, <2>6 DEF CommitReused, CommitStage
    <3> QED
      BY <2>1, <3>1 DEF Worker
  <2>7. CASE AdoptFork(j)
    <3>1. PICK w : w = [worker[j] EXCEPT !.manifest = worker[j].next]
      OBVIOUS
    <3>2. DOMAIN w = DOMAIN worker[j]
      BY <2>1, <3>1 DEF Worker
    <3>3. \E p \in {"key", "collect", "start"} :
             \/ worker'[j] = [w EXCEPT !.pc = p, !.initialPending = FALSE]
             \/ worker'[j] = [w EXCEPT !.pc = p, !.reusedPending = FALSE]
      BY <2>1, <2>7, <3>1 DEF AdoptFork
    <3> QED
      BY <2>1, <3>1, <3>2, <3>3 DEF Worker
  <2>8. CASE StartStage(j)
    <3>1. worker'[j] = [worker[j] EXCEPT !.pc = "engine", !.attempt = Attempt(j)]
      BY <2>1, <2>8 DEF StartStage
    <3> QED
      BY <2>0, <2>1, <2>8, <3>1 DEF Worker
  <2>9. CASE CallContinue(j) \/ \E run \in Runs : CallBuild(j, run)
    <3>1. worker'[j] = [worker[j] EXCEPT !.pc = "running"] /\ worker[j].pc = "engine"
      BY <2>1, <2>9 DEF CallContinue, CallBuild, At
    <3> QED
      BY <2>0, <2>1, <3>1 DEF Worker
  <2>10. CASE EngineStep(j)
    BY <2>0, <2>10 DEF EngineStep, At
  <2>11. ~ReuseAfterFork(j)
    BY NothingAfterFork DEF ReuseAfterFork
  <2> QED
    BY <1>4, <2>2, <2>3, <2>4, <2>5, <2>6, <2>7, <2>8, <2>9, <2>10, <2>11 DEF WorkerStep
<1> QED
  BY <1>2, <1>3, <1>4

\* A worker that goes on with a stage.
LEMMA AcceptableKept ==
    ASSUME IInv, StoreInv', store \subseteq store', NEW k \in Jobs,
           Acceptable(journal[k], worker[k]),
           worker[k] # NoRef, worker[k].pc \in {"engine", "running"}, NEW K, NEW w,
           K.plan = journal[k].plan, w.idx = worker[k].idx,
           w.manifest = worker[k].manifest, w.attempt = worker[k].attempt
    PROVE  Acceptable(K, w)'
<1>1. StageOf(K, w) = StageOf(journal[k], worker[k])
  BY DEF StageOf
<1>2. w.manifest # NoRef => w.manifest \in Published
  BY Alive DEF WorkerOK, ManifestOK
<1>3. w.manifest # NoRef => Load(w.manifest)' = Load(w.manifest)
  BY <1>2, EntriesKept DEF IInv
<1>4. StageOf(K, w)' = StageOf(K, w)
  BY DEF StageOf
<1> QED
  BY <1>1, <1>3, <1>4 DEF Acceptable

\* A worker that begins one has looked at the manifest.
LEMMA AcceptableBegun ==
    ASSUME IInv, StoreInv', store \subseteq store', NEW j \in Jobs, worker[j] # NoRef,
           NEW K, NEW w, K.plan = journal[j].plan, w.idx = worker[j].idx,
           w.manifest = worker[j].manifest, w.attempt = Attempt(j)
    PROVE  Acceptable(K, w)'
<1> SUFFICES ASSUME w.manifest # NoRef
             PROVE  Acceptable(K, w)'
  BY DEF Acceptable
<1>1. w.manifest \in Published
  BY Alive DEF WorkerOK, ManifestOK
<1>2. StoreInv /\ Load(w.manifest) \in Manifest
  BY <1>1, RefTyped DEF IInv
<1>3. PICK name : name = Stage(j)
  OBVIOUS
<1>4. PICK n : n = NextAttempt(w.manifest, name)
  OBVIOUS
<1>5. n \in Nat /\ w.attempt \in Nat /\ n <= w.attempt
  BY <1>3, <1>4, AttemptNew
<1>6. \A i \in DOMAIN Load(w.manifest).log :
         Load(w.manifest).log[i].name = name => Load(w.manifest).log[i].attempt < n
  BY <1>1, <1>2, <1>4, NextAttemptFresh
<1>7. Load(w.manifest)' = Load(w.manifest)
  BY <1>1, <1>2, EntriesKept
<1>8. StageOf(K, w)' = name
  BY <1>3 DEF Stage, StageOf
<1>9. ASSUME NEW i \in DOMAIN Load(w.manifest).log
      PROVE  Load(w.manifest).log[i].attempt \in Nat
  <2>1. Load(w.manifest).log \in Seq(Entry)
    BY <1>2 DEF Manifest
  <2>2. Load(w.manifest).log[i] \in Entry
    BY <2>1
  <2> QED
    BY <2>2 DEF Entry
<1> QED
  BY <1>5, <1>6, <1>7, <1>8, <1>9 DEF Acceptable

LEMMA NextAcceptableInv ==
    ASSUME IInv, IInv', AcceptableInv, [Next]_vars
    PROVE  AcceptableInv'
<1> SUFFICES ASSUME NEW k \in Jobs, worker'[k] # NoRef,
                    worker'[k].pc \in {"engine", "running"}
             PROVE  Acceptable(journal[k], worker[k])'
  <2>1. Validated'
    BY StaysValidated DEF AcceptableInv
  <2> QED
    BY <2>1 DEF AcceptableInv, Acceptable
<1>0. Acceptable(journal[k], worker[k]) /\ StoreInv'
  BY DEF AcceptableInv, IInv
<1>1. PICK K, w : K = journal'[k] /\ w = worker'[k]
  OBVIOUS
<1> SUFFICES Acceptable(K, w)'
  BY <1>1 DEF Acceptable, StageOf
<1>2. CASE UNCHANGED vars
  BY <1>0, <1>1, <1>2, AcceptableKept DEF vars
<1>3. ASSUME NEW j \in Jobs, ClientStep(j) \/ WorkerStep(j) \/ Crash(j)
      PROVE  Acceptable(K, w)'
  <2>1. store \subseteq store'
    BY <1>3, StoreGrows
  <2>2. CASE k # j
    BY <1>0, <1>1, <1>3, <2>1, <2>2, OthersStay, AcceptableKept
  <2>3. CASE k = j /\ journal[k] = NoRef
    BY <1>3, <2>3, FirstMoves
  <2>4. CASE k = j /\ journal[k] # NoRef
    <3>1. K.plan = journal[k].plan
      BY <1>1, <1>3, <2>4, Moves DEF JobMoves
    <3>2. \/ /\ worker[k] # NoRef /\ w.idx = worker[k].idx /\ w.attempt = Attempt(k)
             /\ w.manifest = worker[k].manifest
          \/ /\ worker[k] # NoRef /\ worker[k].pc \in {"engine", "running"}
             /\ w.idx = worker[k].idx /\ w.manifest = worker[k].manifest
             /\ w.attempt = worker[k].attempt
      BY <1>1, <1>3, <2>4, ExecutionMoves
    <3> QED
      BY <1>0, <2>1, <3>1, <3>2, AcceptableKept, AcceptableBegun
  <2> QED
    BY <2>2, <2>3, <2>4
<1> QED
  BY <1>2, <1>3 DEF Next

\* A revision with one more attempt, which is larger, is valid.
LEMMA LargerIsValid ==
    ASSUME StoreInv, Validated, NEW ref \in Published, NEW entry \in Entry,
           NEW by \in Publishers,
           \A i \in DOMAIN Load(ref).log :
              Load(ref).log[i].name = entry.name
              => Load(ref).log[i].attempt < entry.attempt
    PROVE  Valid(Revised(ref, entry, by))
<1>1. PICK m, r : m = Load(ref) /\ r = Revised(ref, entry, by)
  OBVIOUS
<1>2. /\ m \in store /\ m \in Manifest /\ Valid(m) /\ ref \in Ref /\ ref # NoRef
      /\ r.parent = ref /\ r.rev = ref.rev + 1 /\ r.log = Append(m.log, entry)
  <2>1. m \in store /\ m \in Manifest /\ ref \in Ref /\ ref # NoRef
    BY <1>1, LoadOne, RefTyped
  <2> QED
    BY <1>1, <2>1 DEF Validated, Revised
<1>3. PICK n : n = Len(m.log) + 1
  OBVIOUS
<1>4. /\ m.log \in Seq(Entry) /\ n \in Nat /\ DOMAIN r.log = 1..n /\ r.log[n] = entry
      /\ \A i \in 1..n : i # n => i \in DOMAIN m.log /\ r.log[i] = m.log[i]
  BY <1>2, <1>3, AppendProperties DEF Manifest
<1>5. ref.rev \in Nat /\ entry.attempt \in Nat
  BY <1>2 DEF Ref, Entry
<1>6. ASSUME NEW i \in DOMAIN r.log, NEW k \in DOMAIN r.log,
             r.log[i].name = r.log[k].name, r.log[i].attempt = r.log[k].attempt
      PROVE  i = k
  <2>1. \A h \in DOMAIN m.log : m.log[h].name = entry.name => m.log[h].attempt # entry.attempt
    <3>1. \A h \in DOMAIN m.log : m.log[h] \in Entry
      BY <1>4
    <3>2. \A h \in DOMAIN m.log : m.log[h].attempt \in Nat
      BY <3>1 DEF Entry
    <3> QED
      BY <1>1, <1>5, <3>2
  <2>2. CASE i = n \/ k = n
    BY <1>4, <1>6, <2>1, <2>2
  <2>3. CASE i # n /\ k # n
    BY <1>2, <1>4, <1>6, <2>3 DEF Valid
  <2> QED
    BY <2>2, <2>3
<1>7. r.rev # 0 /\ r.parent # NoRef
  BY <1>2, <1>5
<1> QED
  BY <1>1, <1>6, <1>7 DEF Valid

\* worker.py:653, of every number of jobs, plans and kills: the attempt of a stage
\* that is executed is larger than all that its manifest records of the stage, be
\* it a job's own, a parent's that was forked, or one that the job was given.  So
\* what is published of the stage is never refused for its number.
THEOREM AttemptsAreAccepted == Spec => []AttemptsAccepted
<1>1. Init => AcceptableInv
  BY DEF Init, Engine!Init, AcceptableInv, Validated, Acceptable
<1>2. IInv /\ AcceptableInv => AttemptsAccepted
  <2> SUFFICES ASSUME IInv, AcceptableInv, NEW j \in Jobs, worker[j] # NoRef,
                      worker[j].pc \in {"engine", "running"},
                      worker[j].manifest # NoRef, NEW ok \in BOOLEAN
               PROVE  Valid(Revised(worker[j].manifest,
                                    [name |-> Stage(j), cfg |-> Config(j),
                                     attempt |-> worker[j].attempt, ok |-> ok], j))
    BY DEF AttemptsAccepted
  <2>1. PICK e : e = [name |-> Stage(j), cfg |-> Config(j),
                      attempt |-> worker[j].attempt, ok |-> ok]
    OBVIOUS
  <2>2. e \in Entry /\ e.name = Stage(j) /\ e.attempt = worker[j].attempt
    <3>1. Stage(j) \in StageNames /\ Config(j) \in Configs
      <4>1. KeyOf(journal[j], worker[j]) \in Key
        BY AtStage DEF Executing
      <4> QED
        BY <4>1, StageKeyIs DEF KeyOf, Key
    <3>2. worker[j].attempt \in Nat
      BY Alive DEF Worker
    <3> QED
      BY <2>1, <3>1, <3>2 DEF Entry
  <2>3. worker[j].manifest \in Published
    BY Alive DEF WorkerOK, ManifestOK
  <2>4. \A i \in DOMAIN Load(worker[j].manifest).log :
           Load(worker[j].manifest).log[i].name = e.name
           => Load(worker[j].manifest).log[i].attempt < e.attempt
    BY <2>2, StageKeyIs DEF AcceptableInv, Acceptable
  <2>5. j \in Publishers
    BY DEF Jobs
  <2> QED
    BY <2>1, <2>2, <2>3, <2>4, <2>5, LargerIsValid DEF IInv, AcceptableInv
<1>3. IInv /\ AcceptableInv /\ IInv' /\ [Next]_vars => AcceptableInv'
  BY NextAcceptableInv
<1> QED
  BY <1>1, <1>2, <1>3, InitIInv, NextIInv, PTL DEF Spec

=============================================================================
