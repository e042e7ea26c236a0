------------------------- MODULE ContinuationProofs -------------------------
(***************************************************************************)
(* Proofs about the engine's operations over the store, for every set of   *)
(* processes, runs, stages and configurations, and that the store          *)
(* implements the chains of RunChains.                                     *)
(***************************************************************************)
EXTENDS Continuation, ManifestStoreProofs

-----------------------------------------------------------------------------
(* The inductive invariant.                                                *)

Running == {"running", "publish", "conflict"}

Task == {Idle} \cup [pc : Running, base : Ref, entry : Entry, initial : BOOLEAN]

TypeOK ==
    /\ task \in [Publishers -> Task]
    /\ result \in [Publishers -> Result \cup {NoRef}]

\* An operation continues a manifest that is on file.
BasesStored == \A r \in Publishers : task[r] # Idle => task[r].base \in Published

\* An answer is the failure of a lost fresh run, or it is what a child of the
\* manifest says.
ToldBy(files, a) ==
    \/ a.manifest = a.base /\ ~a.ok
    \/ \E child \in files :
          child.parent = a.base /\ a = ChildResult(a.base, child, a.name, a.cfg)

AnswersTrue ==
    \A r \in Publishers :
        result[r] # NoRef =>
            result[r].base \in Published /\ ToldBy(store, result[r])

IInv == StoreInv /\ TypeOK /\ BasesStored /\ AnswersTrue

-----------------------------------------------------------------------------
(* Tasks and answers.                                                      *)

LEMMA RefOfTyped ==
    ASSUME NEW m \in Manifest
    PROVE  RefOf(m) \in Ref
  BY DEF RefOf, Manifest, Ref

\* Operations that have begun have a base, an entry and a publisher.
LEMMA TaskTyped ==
    ASSUME TypeOK, BasesStored, NEW r \in Publishers,
           task[r].pc \in Running
    PROVE  /\ task[r] # Idle
           /\ task[r].base \in Published /\ task[r].base \in Ref
           /\ task[r].entry \in Entry
           /\ task[r].initial \in BOOLEAN
<1>1. Idle.pc \notin Running
  BY DEF Idle, Running
<1>2. task[r] \in Task /\ task[r] # Idle
  BY <1>1 DEF TypeOK
<1> QED
  BY <1>2 DEF Task, BasesStored

LEMMA ChildResultTyped ==
    ASSUME NEW base \in Ref, NEW child \in Manifest, NEW name \in StageNames,
           NEW cfg \in Configs
    PROVE  ChildResult(base, child, name, cfg) \in Result
<1> DEFINE ok == Reusable(child, name, cfg) /\ LastEntry(child).ok
<1>1. ok \in BOOLEAN
  OBVIOUS
<1>2. RefOf(child) \in Ref
  BY RefOfTyped
<1>3. ChildResult(base, child, name, cfg) =
         [base |-> base, name |-> name, cfg |-> cfg, ok |-> ok,
          manifest |-> RefOf(child)]
  BY DEF ChildResult
<1> HIDE DEF ok
<1> QED
  BY <1>1, <1>2, <1>3 DEF Result

LEMMA AnswerTyped ==
    ASSUME TypeOK, BasesStored, NEW r \in Publishers,
           task[r].pc \in Running, NEW ok \in BOOLEAN, NEW ref \in Ref
    PROVE  Answer(r, ok, ref) \in Result
  BY TaskTyped DEF Answer, Result, Entry

LEMMA ToldMonotone ==
    ASSUME NEW s, NEW t, s \subseteq t, NEW a, ToldBy(s, a)
    PROVE  ToldBy(t, a)
  BY DEF ToldBy

\* What one process does leaves the others' operations and answers in order.
LEMMA OthersKept ==
    ASSUME IInv, StoreInv', store \subseteq store', NEW r \in Publishers,
           TypeOK',
           \A q \in Publishers : q # r => task'[q] = task[q],
           \A q \in Publishers : q # r => result'[q] = result[q],
           task'[r] # Idle => task'[r].base \in Published',
           \/ result'[r] = result[r]
           \/ result'[r] = NoRef
           \/ result'[r].base \in Published' /\ ToldBy(store', result'[r])
    PROVE  IInv'
<1>1. Published \subseteq Published'
  BY DEF Published
<1>2. BasesStored'
  BY <1>1 DEF IInv, BasesStored
<1>3. ASSUME NEW q \in Publishers, result'[q] # NoRef
      PROVE  result'[q].base \in Published' /\ ToldBy(store', result'[q])
  <2>1. CASE result'[q] = result[q]
    <3>1. result[q].base \in Published /\ ToldBy(store, result[q])
      BY <1>3, <2>1 DEF IInv, AnswersTrue
    <3> QED
      BY <1>1, <2>1, <3>1, ToldMonotone
  <2>2. CASE result'[q] # result[q]
    BY <1>3, <2>2
  <2> QED
    BY <2>1, <2>2
<1>4. AnswersTrue'
  BY <1>3 DEF AnswersTrue
<1> QED
  BY <1>2, <1>4 DEF IInv

-----------------------------------------------------------------------------
(* Every step preserves it.                                                *)

LEMMA BeginTyped ==
    ASSUME TypeOK, NEW r \in Publishers, NEW base \in Ref, NEW entry \in Entry,
           NEW initial \in BOOLEAN, Begin(r, base, entry, initial)
    PROVE  /\ TypeOK'
           /\ task'[r].base = base /\ result'[r] = NoRef
           /\ \A q \in Publishers :
                 q # r => task'[q] = task[q] /\ result'[q] = result[q]
<1> DEFINE t == [pc |-> "running", base |-> base, entry |-> entry, initial |-> initial]
<1>1. t \in Task
  BY DEF Task, Running
<1>2. task' = [task EXCEPT ![r] = t] /\ result' = [result EXCEPT ![r] = NoRef]
  BY DEF Begin
<1>3. t.base = base
  OBVIOUS
<1> HIDE DEF t
<1> QED
  BY <1>1, <1>2, <1>3 DEF TypeOK

LEMMA ReturnTyped ==
    ASSUME TypeOK, NEW r \in Publishers, NEW a \in Result, Return(r, a)
    PROVE  /\ TypeOK'
           /\ task'[r] = Idle /\ result'[r] = a
           /\ \A q \in Publishers :
                 q # r => task'[q] = task[q] /\ result'[q] = result[q]
  BY DEF TypeOK, Return, Task

LEMMA StartRunStep ==
    ASSUME IInv, NEW r \in Publishers, NEW run \in Runs, NEW n \in StageNames,
           NEW c \in Configs, NEW k \in Nat, StartRun(r, run, n, c, k)
    PROVE  IInv'
<1> DEFINE m == Created(run, r)
           e == [name |-> n, cfg |-> c, attempt |-> k, ok |-> TRUE]
<1>1. m \in Manifest /\ m.parent = NoRef /\ e \in Entry
  BY CreatedTyped DEF Entry
<1>2. Publish(m) /\ Begin(r, RefOf(m), e, TRUE)
  BY DEF StartRun
<1>3. StoreInv' /\ store' = store \cup {m}
  BY <1>2, CreatedKeeps DEF IInv
<1> HIDE DEF m, e
<1>4. RefOf(m) \in Ref /\ RefOf(m) \in Published'
  BY <1>1, <1>3, RefOfTyped DEF Published
<1> QED
  BY <1>1, <1>2, <1>3, <1>4, BeginTyped, OthersKept DEF IInv

LEMMA ContinueStep ==
    ASSUME IInv, NEW r \in Publishers, NEW ref, NEW n \in StageNames,
           NEW c \in Configs, NEW k \in Nat, Continue(r, ref, n, c, k)
    PROVE  IInv'
<1>1. ref \in Published /\ ref \in Ref /\ store' = store /\ Published' = Published
  BY RefTyped DEF Continue, IInv, Published
<1>2. StoreInv'
  BY <1>1, StoreStays DEF IInv
<1>3. CASE Children(ref) = {}
  <2> DEFINE e == [name |-> n, cfg |-> c, attempt |-> k, ok |-> TRUE]
  <2>1. e \in Entry
    BY DEF Entry
  <2>2. Begin(r, ref, e, FALSE)
    BY <1>3 DEF Continue
  <2> HIDE DEF e
  <2> QED
    BY <1>1, <1>2, <2>1, <2>2, BeginTyped, OthersKept DEF IInv
<1>4. CASE Children(ref) # {}
  <2>1. PICK child \in Children(ref) :
           result' = [result EXCEPT ![r] = ChildResult(ref, child, n, c)]
    BY <1>4 DEF Continue
  <2> DEFINE a == ChildResult(ref, child, n, c)
  <2>2. task' = task
    BY <1>4 DEF Continue
  <2>3. child \in store /\ child.parent = ref /\ child \in Manifest
    BY DEF Children, IInv, StoreInv
  <2>4. a \in Result
    BY <1>1, <2>3, ChildResultTyped
  <2>5. a.base = ref /\ a.name = n /\ a.cfg = c
    BY DEF ChildResult
  <2>6. ToldBy(store, a)
    BY <2>3, <2>5 DEF ToldBy
  <2> HIDE DEF a
  <2>7. TypeOK' /\ result'[r] = a /\ \A q \in Publishers : q # r => result'[q] = result[q]
    BY <2>1, <2>2, <2>4 DEF IInv, TypeOK, a
  <2>8. task'[r] # Idle => task'[r].base \in Published'
    BY <1>1, <2>2 DEF IInv, BasesStored
  <2> QED
    BY <1>1, <1>2, <2>2, <2>5, <2>6, <2>7, <2>8, OthersKept
<1> QED
  BY <1>3, <1>4

LEMMA OperateStep ==
    ASSUME IInv, NEW r \in Publishers, NEW ok \in BOOLEAN, Operate(r, ok)
    PROVE  IInv'
<1>1. UNCHANGED <<store, result>> /\ task[r].pc = "running"
  BY DEF Operate
<1>2. StoreInv' /\ Published' = Published
  BY <1>1, StoreStays DEF IInv
<1>3. /\ task[r] \in Task /\ task[r] # Idle /\ task[r].entry \in Entry
      /\ task[r].base \in Published
  BY <1>1, TaskTyped DEF IInv, TypeOK, Running
<1> DEFINE e == [task[r].entry EXCEPT !.ok = ok]
           t == [task[r] EXCEPT !.pc = "publish"]
           u == [t EXCEPT !.entry = e]
<1>4. e \in Entry
  BY <1>3 DEF Entry
<1>5. t \in Task /\ t # Idle /\ t.base = task[r].base
  BY <1>3 DEF Task, Idle, Running
<1>6. task' = [task EXCEPT ![r] = u]
  BY Zenon DEF Operate
<1> HIDE DEF e, t
<1>7. u \in Task /\ u.base = t.base
  BY <1>4, <1>5 DEF Task
<1> HIDE DEF u
<1>8. TypeOK'
  BY <1>1, <1>6, <1>7 DEF IInv, TypeOK
<1>9. task'[r] = u /\ \A q \in Publishers : q # r => task'[q] = task[q]
  BY <1>6 DEF IInv, TypeOK
<1> QED
  BY <1>1, <1>2, <1>3, <1>5, <1>7, <1>8, <1>9, OthersKept

LEMMA PublishStageStep ==
    ASSUME IInv, NEW r \in Publishers, PublishStage(r)
    PROVE  IInv'
<1> DEFINE m == Revised(task[r].base, task[r].entry, r)
           a == Answer(r, task[r].entry.ok, RefOf(m))
<1>1. task[r].pc = "publish" /\ task[r].pc \in Running
  BY DEF PublishStage, Running
<1>2. /\ task[r] # Idle /\ task[r].base \in Published /\ task[r].base \in Ref
      /\ task[r].entry \in Entry
  BY <1>1, TaskTyped DEF IInv
<1>3. CASE Conflicts(m)
  <2>1. UNCHANGED <<store, result>> /\ task' = [task EXCEPT ![r].pc = "conflict"]
    BY <1>3 DEF PublishStage
  <2>2. StoreInv' /\ Published' = Published
    BY <2>1, StoreStays DEF IInv
  <2>3. [task[r] EXCEPT !.pc = "conflict"] \in Task
        /\ [task[r] EXCEPT !.pc = "conflict"].base = task[r].base
    BY <1>2 DEF IInv, TypeOK, Task, Idle, Running
  <2>4. TypeOK' /\ task'[r].base = task[r].base /\ \A q \in Publishers : q # r => task'[q] = task[q]
    BY <2>1, <2>3 DEF IInv, TypeOK
  <2> QED
    BY <1>2, <2>1, <2>2, <2>4, OthersKept
<1>4. CASE ~Conflicts(m)
  <2>1. Publish(m) /\ Return(r, a)
    BY <1>4 DEF PublishStage
  <2>2. /\ m \in Manifest /\ m.parent = task[r].base
        /\ m.log = Append(Load(m.parent).log, task[r].entry)
        /\ m.log # <<>> /\ LastEntry(m) = task[r].entry
    BY <1>2, RevisedTyped DEF IInv
  <2>3. RefOf(m) \in Ref
    BY <2>2, RefOfTyped
  <2>4. task[r].entry.ok \in BOOLEAN
    BY <1>2 DEF Entry
  <2>5. a \in Result
    BY <1>1, <2>3, <2>4, AnswerTyped DEF IInv
  <2>6. /\ a.base = task[r].base /\ a.name = task[r].entry.name
        /\ a.cfg = task[r].entry.cfg
    BY DEF Answer
  <2>7. Reusable(m, task[r].entry.name, task[r].entry.cfg)
    BY <2>2 DEF Reusable
  <2>8. (Reusable(m, task[r].entry.name, task[r].entry.cfg) /\ LastEntry(m).ok) = task[r].entry.ok
    BY <2>2, <2>4, <2>7
  <2>9. a = ChildResult(task[r].base, m, task[r].entry.name, task[r].entry.cfg)
    BY <2>8, Zenon DEF Answer, ChildResult
  <2>10. StoreInv' /\ store' = store \cup {m}
    BY <1>2, <2>1, RevisedKeeps DEF IInv
  <2> HIDE DEF m
  <2>11. ToldBy(store', a) /\ a.base \in Published'
    BY <1>2, <2>2, <2>6, <2>9, <2>10 DEF ToldBy, Published
  <2> HIDE DEF a
  <2>12. /\ TypeOK' /\ task'[r] = Idle /\ result'[r] = a
         /\ \A q \in Publishers : q # r => task'[q] = task[q] /\ result'[q] = result[q]
    BY <2>1, <2>5, ReturnTyped DEF IInv
  <2> QED
    BY <2>10, <2>11, <2>12, OthersKept
<1> QED
  BY <1>3, <1>4

LEMMA LostRaceStep ==
    ASSUME IInv, NEW r \in Publishers, LostRace(r)
    PROVE  IInv'
<1>1. task[r].pc \in Running /\ store' = store
  BY DEF LostRace, Running
<1>2. StoreInv' /\ Published' = Published
  BY <1>1, StoreStays DEF IInv
<1>3. /\ task[r] # Idle /\ task[r].base \in Published /\ task[r].base \in Ref
      /\ task[r].entry \in Entry
  BY <1>1, TaskTyped DEF IInv
<1>4. \E a \in Result : Return(r, a) /\ a.base = task[r].base /\ ToldBy(store, a)
  <2>1. CASE task[r].initial
    <3> DEFINE a == Answer(r, FALSE, task[r].base)
    <3>1. a \in Result
      BY <1>1, <1>3, AnswerTyped DEF IInv
    <3>2. Return(r, a)
      BY <2>1 DEF LostRace
    <3>3. a.base = task[r].base /\ a.manifest = task[r].base /\ a.ok = FALSE
      BY DEF Answer
    <3>4. ToldBy(store, a)
      BY <3>3 DEF ToldBy
    <3> QED
      BY <3>1, <3>2, <3>3, <3>4
  <2>2. CASE ~task[r].initial
    <3>1. PICK child \in Children(task[r].base) :
             Return(r, ChildResult(task[r].base, child, task[r].entry.name,
                                   task[r].entry.cfg))
      BY <2>2 DEF LostRace
    <3> DEFINE a == ChildResult(task[r].base, child, task[r].entry.name,
                                task[r].entry.cfg)
    <3>2. child \in store /\ child.parent = task[r].base /\ child \in Manifest
      BY DEF Children, IInv, StoreInv
    <3>3. a \in Result
      BY <1>3, <3>2, ChildResultTyped DEF Entry
    <3>4. a.base = task[r].base /\ a.name = task[r].entry.name /\ a.cfg = task[r].entry.cfg
      BY DEF ChildResult
    <3>5. ToldBy(store, a)
      BY <3>2, <3>4 DEF ToldBy
    <3> QED
      BY <3>1, <3>3, <3>4, <3>5
  <2> QED
    BY <2>1, <2>2
<1>5. PICK a \in Result : Return(r, a) /\ a.base = task[r].base /\ ToldBy(store, a)
  BY <1>4
<1>6. /\ TypeOK' /\ task'[r] = Idle /\ result'[r] = a
      /\ \A q \in Publishers : q # r => task'[q] = task[q] /\ result'[q] = result[q]
  BY <1>5, ReturnTyped DEF IInv
<1> QED
  BY <1>1, <1>2, <1>3, <1>5, <1>6, OthersKept

LEMMA ForkStep ==
    ASSUME IInv, NEW r \in Publishers, NEW ref, NEW run \in Runs,
           Fork(r, ref, run)
    PROVE  IInv'
<1> DEFINE m == Snapshot(ref, run, r)
<1>1. ref \in Published /\ Publish(m) /\ UNCHANGED <<task, result>>
  BY DEF Fork
<1>2. m \in Manifest /\ m.parent = NoRef
  BY <1>1, SnapshotTyped DEF IInv
<1>3. StoreInv' /\ store' = store \cup {m}
  BY <1>1, SnapshotKeeps DEF IInv
<1> HIDE DEF m
<1>4. TypeOK' /\ Published \subseteq Published'
  BY <1>1, <1>3 DEF IInv, TypeOK, Published
<1>5. task'[r] # Idle => task'[r].base \in Published'
  BY <1>1, <1>4 DEF IInv, BasesStored
<1> QED
  BY <1>1, <1>3, <1>4, <1>5, OthersKept

LEMMA CrashStep ==
    ASSUME IInv, NEW r \in Publishers, Crash(r)
    PROVE  IInv'
<1>1. UNCHANGED <<store, result>> /\ task' = [task EXCEPT ![r] = Idle]
  BY DEF Crash
<1>2. StoreInv'
  BY <1>1, StoreStays DEF IInv
<1>3. TypeOK' /\ task'[r] = Idle /\ \A q \in Publishers : q # r => task'[q] = task[q]
  BY <1>1 DEF IInv, TypeOK, Task
<1> QED
  BY <1>1, <1>2, <1>3, OthersKept

LEMMA InitIInv == Init => IInv
<1> SUFFICES ASSUME Init
             PROVE  IInv
  OBVIOUS
<1>1. StoreInv
  BY FS_EmptySet DEF Init, StoreInv, OneFile, NoGaps, Grows, ParentsStored, CopiesStored
<1>2. TypeOK /\ BasesStored /\ AnswersTrue
  BY DEF Init, TypeOK, Task, BasesStored, AnswersTrue
<1> QED
  BY <1>1, <1>2 DEF IInv

LEMMA StepIInv == IInv /\ [Next]_vars => IInv'
<1> SUFFICES ASSUME IInv, [Next]_vars
             PROVE  IInv'
  OBVIOUS
<1>1. CASE Next
  <2>1. PICK r \in Publishers : Step(r)
    BY <1>1 DEF Next
  <2>2. ASSUME NEW run \in Runs, NEW n \in StageNames, NEW c \in Configs,
               StartRun(r, run, n, c, 1)
        PROVE  IInv'
    BY <2>2, StartRunStep
  <2>3. ASSUME NEW ref \in Published, NEW n \in StageNames, NEW c \in Configs,
               Continue(r, ref, n, c, NextAttempt(ref, n))
        PROVE  IInv'
    <3>1. NextAttempt(ref, n) \in Nat
      BY NextAttemptFresh DEF IInv
    <3> QED
      BY <2>3, <3>1, ContinueStep
  <2> QED
    BY <2>1, <2>2, <2>3, OperateStep, PublishStageStep, LostRaceStep, ForkStep, CrashStep DEF Step
<1>2. CASE UNCHANGED vars
  BY <1>2, StoreStays DEF vars, IInv, TypeOK, BasesStored, AnswersTrue, Published
<1> QED
  BY <1>1, <1>2

LEMMA Inductive == Spec => []IInv
  BY InitIInv, StepIInv, PTL DEF Spec

-----------------------------------------------------------------------------
(* What the callers are told.                                              *)

\* The store always holds one file for each revision of a run, numbered without
\* gaps, each recording what the one before it records.
THEOREM StoreIsSound == Spec => []StoreInv
<1>1. IInv => StoreInv
  BY DEF IInv
<1> QED
  BY <1>1, Inductive, PTL

\* Two processes that asked for the same stage of the same manifest are given the
\* same outcome and the same manifest, whoever won the race between them and
\* whenever they asked.
THEOREM ResultsAlwaysAgree == Spec => []ResultsAgree
<1>1. ASSUME IInv, NEW a \in Answers, NEW b \in Answers,
             a.base = b.base, a.name = b.name, a.cfg = b.cfg,
             a.manifest # a.base, b.manifest # b.base
      PROVE  a.ok = b.ok /\ a.manifest = b.manifest
  <2>1. /\ a.base \in Published
        /\ ToldBy(store, a) /\ ToldBy(store, b)
    BY <1>1 DEF Answers, IInv, AnswersTrue
  <2>2. PICK x \in Children(a.base) : a = ChildResult(a.base, x, a.name, a.cfg)
    BY <1>1, <2>1 DEF ToldBy, Children
  <2>3. PICK y \in Children(a.base) : b = ChildResult(a.base, y, a.name, a.cfg)
    BY <1>1, <2>1 DEF ToldBy, Children
  <2>4. x = y
    BY <1>1, <2>1, <2>2, <2>3, OneChild DEF IInv
  <2> QED
    BY <2>2, <2>3, <2>4
<1>2. IInv => ResultsAgree
  BY <1>1 DEF ResultsAgree
<1> QED
  BY <1>2, Inductive, PTL

\* Whoever is told of a success is given a published manifest that records it.
THEOREM SuccessesArePublished == Spec => []SuccessIsPublished
<1>1. ASSUME IInv, NEW a \in Answers, a.ok
      PROVE  \E m \in Children(a.base) :
                /\ RefOf(m) = a.manifest
                /\ LastEntry(m).name = a.name /\ LastEntry(m).cfg = a.cfg
                /\ LastEntry(m).ok
  <2>1. ToldBy(store, a)
    BY <1>1 DEF Answers, IInv, AnswersTrue
  <2>2. PICK m \in Children(a.base) : a = ChildResult(a.base, m, a.name, a.cfg)
    BY <1>1, <2>1 DEF ToldBy, Children
  <2>3. a.manifest = RefOf(m) /\ a.ok = (Reusable(m, a.name, a.cfg) /\ LastEntry(m).ok)
    BY <2>2 DEF ChildResult
  <2> QED
    BY <1>1, <2>3 DEF Reusable
<1>2. IInv => SuccessIsPublished
  BY <1>1 DEF SuccessIsPublished
<1> QED
  BY <1>2, Inductive, PTL

-----------------------------------------------------------------------------
(* The chains of the runs.                                                 *)

\* ChainOf of a given set of files.
ChainIn(files, run) ==
    LET revs == {m \in files : m.run = run}
    IN  IF revs = {} THEN NoRef
        ELSE (CHOOSE m \in revs : \A x \in revs : x.rev <= m.rev).log

LEMMA ChainOfStore == \A run : ChainOf(run) = ChainIn(store, run)
  BY DEF ChainOf, ChainIn

LEMMA ChainOfLatest ==
    ASSUME NEW files, NEW m \in files,
           \A x \in files : x.run = m.run =>
              x.rev \in Nat /\ x.rev <= m.rev /\ (x.rev = m.rev => x = m)
    PROVE  ChainIn(files, m.run) = m.log
<1> DEFINE revs == {x \in files : x.run = m.run}
           last == CHOOSE y \in revs : \A x \in revs : x.rev <= y.rev
<1>1. m \in revs /\ \A x \in revs : x.rev <= m.rev
  OBVIOUS
<1>2. last \in revs /\ \A x \in revs : x.rev <= last.rev
  BY <1>1
<1>3. last.rev \in Nat /\ m.rev \in Nat /\ last.rev <= m.rev /\ m.rev <= last.rev
  BY <1>1, <1>2
<1>4. last = m
  BY <1>2, <1>3
<1> QED
  BY <1>1, <1>4 DEF ChainIn

LEMMA ChainOfOthers ==
    ASSUME NEW files, NEW n, NEW run, run # n.run
    PROVE  ChainIn(files \cup {n}, run) = ChainIn(files, run)
<1> DEFINE LogOf(revs) ==
        IF revs = {} THEN NoRef
        ELSE (CHOOSE m \in revs : \A x \in revs : x.rev <= m.rev).log
<1>1. \A s : ChainIn(s, run) = LogOf({m \in s : m.run = run})
  BY DEF ChainIn
<1>2. {m \in files \cup {n} : m.run = run} = {m \in files : m.run = run}
  OBVIOUS
<1> HIDE DEF LogOf
<1> QED
  BY <1>1, <1>2

LEMMA LatestExists ==
    ASSUME StoreInv, NEW m \in store
    PROVE  \E x \in store : x.run = m.run
                            /\ \A y \in store : y.run = m.run => y.rev <= x.rev
<1> DEFINE revs == {x \in store : x.run = m.run}
           nums == {x.rev : x \in revs}
<1>1. IsFiniteSet(revs)
  <2>1. IsFiniteSet(store) /\ revs \subseteq store
    BY DEF StoreInv
  <2> HIDE DEF revs
  <2> QED
    BY <2>1, FS_Subset
<1>2. IsFiniteSet(nums)
  <2> DEFINE f == [x \in revs |-> x.rev]
  <2>1. nums = {f[x] : x \in revs}
    OBVIOUS
  <2> HIDE DEF revs, nums, f
  <2> QED
    BY <1>1, <2>1, ImageIsFinite
<1>3. nums \subseteq Nat /\ m.rev \in nums
  BY DEF StoreInv, Manifest
<1>4. Max(nums) \in nums /\ \A k \in nums : k <= Max(nums)
  <2> HIDE DEF nums
  <2> QED
    BY <1>2, <1>3, MaxProperties
<1>5. PICK x \in revs : x.rev = Max(nums)
  BY <1>4
<1>6. \A y \in store : y.run = m.run => y.rev \in nums
  OBVIOUS
<1> HIDE DEF nums
<1> QED
  BY <1>4, <1>5, <1>6

LEMMA ChainIsLatest ==
    ASSUME StoreInv, NEW m \in store,
           \A x \in store : x.run = m.run => x.rev <= m.rev
    PROVE  ChainOf(m.run) = m.log
<1>1. \A x \in store : x.run = m.run =>
         x.rev \in Nat /\ x.rev <= m.rev /\ (x.rev = m.rev => x = m)
  BY DEF StoreInv, OneFile, Manifest
<1> QED
  BY <1>1, ChainOfLatest, ChainOfStore

\* The history of a run, and its states in the abstract specification.
Chain == [run \in Runs |-> ChainOf(run)]

\* A revision that is new changes the chain of its run to its log, and nothing
\* else; before it the run had no chain or the log of its parent.
LEMMA PublishChain ==
    ASSUME StoreInv, StoreInv', NEW n \in Manifest, n \notin store, Publish(n)
    PROVE  /\ Chain' = [Chain EXCEPT ![n.run] = n.log]
           /\ n.run \in Runs /\ n.log \in Seq(Entry)
           /\ n.parent = NoRef => Chain[n.run] = NoRef
           /\ n.parent # NoRef => Chain[n.run] = Load(n.parent).log
<1>1. /\ store' = store \cup {n}
      /\ n.rev = 0 <=> n.parent = NoRef
      /\ n.parent # NoRef =>
            /\ n.parent \in Published
            /\ n.parent.run = n.run /\ n.parent.rev + 1 = n.rev
      /\ \A x \in store : ~(x.run = n.run /\ x.rev = n.rev)
  BY DEF Publish, Valid, FollowsParent, Conflicts
<1>2. n.run \in Runs /\ n.log \in Seq(Entry) /\ n.rev \in Nat
  BY DEF Manifest
<1>3. ASSUME n.parent = NoRef
      PROVE  Chain[n.run] = NoRef /\ \A x \in store : x.run # n.run
  <2>1. \A x \in store : x.run # n.run
    BY <1>1, <1>3, NoFirstNoRun
  <2>2. ChainIn(store, n.run) = NoRef
    BY <2>1 DEF ChainIn
  <2> QED
    BY <1>2, <2>1, <2>2, ChainOfStore DEF Chain
<1>4. ASSUME n.parent # NoRef
      PROVE  /\ Chain[n.run] = Load(n.parent).log
             /\ \A x \in store : x.run = n.run => x.rev <= n.rev
  <2> DEFINE p == Load(n.parent)
  <2>1. p \in store /\ p.run = n.run /\ n.rev = p.rev + 1
    BY <1>1, <1>4, LoadOne DEF RefOf
  <2> HIDE DEF p
  <2>2. \A x \in store : x.run = n.run => x.rev <= p.rev
    BY <1>1, <2>1, LatestHasNoChild
  <2>3. ChainOf(n.run) = p.log
    BY <2>1, <2>2, ChainIsLatest
  <2>4. p.rev \in Nat /\ \A x \in store : x.rev \in Nat
    BY <2>1 DEF StoreInv, Manifest
  <2> QED
    BY <1>2, <2>1, <2>2, <2>3, <2>4 DEF Chain, p
<1>5. ChainIn(store', n.run) = n.log
  <2>1. n \in store' /\ \A x \in store' : x.run = n.run => x.rev <= n.rev
    BY <1>1, <1>2, <1>3, <1>4
  <2>2. \A x \in store' : x.run = n.run =>
           x.rev \in Nat /\ x.rev <= n.rev /\ (x.rev = n.rev => x = n)
    BY <1>2, <2>1 DEF StoreInv, OneFile, Manifest
  <2> QED
    BY <2>1, <2>2, ChainOfLatest
<1>6. \A run : ChainOf(run)' = ChainIn(store', run)
  BY DEF ChainOf, ChainIn
<1>7. \A run \in Runs : run # n.run => ChainOf(run)' = ChainOf(run)
  BY <1>1, <1>6, ChainOfOthers, ChainOfStore
<1>8. Chain' = [Chain EXCEPT ![n.run] = n.log]
  BY <1>2, <1>5, <1>6, <1>7 DEF Chain
<1> QED
  BY <1>2, <1>3, <1>4, <1>8

\* What a run records is a beginning of what its latest revision does.
LEMMA LogIsPrefix ==
    ASSUME StoreInv, NEW m \in store, NEW x \in store, m.run = x.run,
           m.rev <= x.rev
    PROVE  /\ Len(m.log) \in 0..Len(x.log)
           /\ SubSeq(x.log, 1, Len(m.log)) = m.log
<1>1. /\ m.log \in Seq(Entry) /\ x.log \in Seq(Entry)
      /\ Len(m.log) \in Nat /\ Len(x.log) \in Nat
  BY DEF StoreInv, Manifest
<1>2. Len(m.log) <= Len(x.log) /\ \A i \in 1..Len(m.log) : x.log[i] = m.log[i]
  BY DEF StoreInv, Grows
<1>3. \A i \in 1..Len(m.log) : x.log[i] \in Entry
  BY <1>1, <1>2
<1> DEFINE k == Len(m.log)
           s == SubSeq(x.log, 1, k)
<1>4. s \in Seq(Entry) /\ Len(s) = k /\ \A i \in 1..k : s[i] = x.log[i]
  <2>1. k \in Int /\ 1 \in Int /\ \A i \in 1..k : x.log[i] \in Entry
    BY <1>1, <1>3
  <2>2. /\ s \in Seq(Entry) /\ Len(s) = (IF 1 <= k THEN k - 1 + 1 ELSE 0)
        /\ \A i \in 1..(k - 1 + 1) : s[i] = x.log[1 + i - 1]
    BY <2>1, SubSeqProperties
  <2>3. (IF 1 <= k THEN k - 1 + 1 ELSE 0) = k /\ k - 1 + 1 = k
    BY <1>1
  <2>4. \A i \in 1..k : 1 + i - 1 = i
    BY <1>1
  <2> QED
    BY <2>2, <2>3, <2>4
<1> HIDE DEF s
<1>5. s = m.log
  BY <1>1, <1>2, <1>4, SeqEqual
<1> QED
  BY <1>1, <1>2, <1>5 DEF s

-----------------------------------------------------------------------------
(* The refinement.                                                         *)

LEMMA ChainsInit == Init => Chains!Init
  BY DEF Init, Chains!Init, ChainOf

LEMMA ChainsStutter == UNCHANGED store => UNCHANGED Chain
  BY DEF Chain, ChainOf

\* A new run starts empty.
LEMMA ChainsStart ==
    ASSUME IInv, IInv', NEW r \in Publishers, NEW run \in Runs, NEW n, NEW c, NEW k,
           StartRun(r, run, n, c, k)
    PROVE  Chains!Next \/ UNCHANGED Chain
<1> DEFINE m == Created(run, r)
<1>1. m \in Manifest /\ m.parent = NoRef /\ Publish(m) /\ m.run = run /\ m.log = <<>>
  BY CreatedTyped DEF StartRun, Created
<1> HIDE DEF m
<1>2. CASE m \in store
  <2>1. store' = store
    BY <1>1, <1>2 DEF Publish
  <2> QED
    BY <2>1, ChainsStutter
<1>3. CASE m \notin store
  <2>1. /\ Chain' = [Chain EXCEPT ![run] = <<>>]
        /\ <<>> \in Seq(Entry) /\ Chain[run] = NoRef
    BY <1>1, <1>3, PublishChain DEF IInv
  <2>2. Chain'[run] # Chain[run]
    BY <2>1, NoRefAssumption DEF Chain
  <2> QED
    BY <2>1, <2>2 DEF Chain, Chains!Next, Chains!Start
<1> QED
  BY <1>2, <1>3

\* A snapshot is a copy of what its source recorded at that revision.
LEMMA ChainsFork ==
    ASSUME IInv, IInv', NEW r \in Publishers, NEW ref, NEW run \in Runs,
           Fork(r, ref, run)
    PROVE  Chains!Next \/ UNCHANGED Chain
<1> DEFINE m == Snapshot(ref, run, r)
           from == Load(ref)
<1>1. ref \in Published /\ Publish(m)
  BY DEF Fork
<1>2. m \in Manifest /\ m.parent = NoRef /\ m.run = run /\ m.log = from.log
  BY <1>1, SnapshotTyped DEF IInv, Snapshot
<1>3. from \in store /\ from.run \in Runs
  BY <1>1, LoadOne DEF IInv, StoreInv, Manifest
<1> HIDE DEF m, from
<1>4. CASE m \in store
  <2>1. store' = store
    BY <1>1, <1>4 DEF Publish
  <2> QED
    BY <2>1, ChainsStutter
<1>5. CASE m \notin store
  <2>1. /\ Chain' = [Chain EXCEPT ![run] = from.log]
        /\ from.log \in Seq(Entry) /\ Chain[run] = NoRef
    BY <1>1, <1>2, <1>5, PublishChain DEF IInv
  <2>2. PICK last \in store :
           /\ last.run = from.run
           /\ \A y \in store : y.run = from.run => y.rev <= last.rev
    BY <1>3, LatestExists DEF IInv
  <2>3. Chain[from.run] = last.log /\ last.log \in Seq(Entry)
    BY <1>3, <2>2, ChainIsLatest DEF Chain, IInv, StoreInv, Manifest
  <2>4. Len(from.log) \in 0..Len(last.log) /\ SubSeq(last.log, 1, Len(from.log)) = from.log
    BY <1>3, <2>2, LogIsPrefix DEF IInv
  <2>5. Chain'[run] # Chain[run] /\ Chain[from.run] # NoRef
    BY <2>1, <2>3, NoRefAssumption DEF Chain
  <2>6. Chain' = [Chain EXCEPT ![run] = SubSeq(Chain[from.run], 1, Len(from.log))]
    BY <2>1, <2>3, <2>4
  <2>7. Len(from.log) \in 0..Len(Chain[from.run])
    BY <2>3, <2>4
  <2>8. Chains!Fork(run, from.run, Len(from.log))
    BY <2>1, <2>5, <2>6 DEF Chain, Chains!Fork
  <2> QED
    BY <1>3, <2>5, <2>7, <2>8 DEF Chain, Chains!Next
<1> QED
  BY <1>4, <1>5

\* A stage adds its own entry, whatever happened to its run meanwhile.
LEMMA ChainsExtend ==
    ASSUME IInv, IInv', NEW r \in Publishers, PublishStage(r)
    PROVE  Chains!Next \/ UNCHANGED Chain
<1> DEFINE m == Revised(task[r].base, task[r].entry, r)
           p == Load(task[r].base)
           e == task[r].entry
<1>1. task[r].pc \in Running
  BY DEF PublishStage, Running
<1>2. task[r].base \in Published /\ e \in Entry
  BY <1>1, TaskTyped DEF IInv
<1>3. /\ m \in Manifest /\ m.parent = task[r].base /\ m.log = Append(p.log, e)
      /\ task[r].base # NoRef /\ m.run \in Runs
  BY <1>2, RevisedTyped, RefTyped DEF IInv, Manifest
<1>4. p.log \in Seq(Entry)
  BY <1>2, RefTyped DEF IInv, Manifest
<1>5. CASE Conflicts(m)
  BY <1>5, ChainsStutter DEF PublishStage
<1>6. CASE ~Conflicts(m)
  <2>1. Publish(m)
    BY <1>6 DEF PublishStage
  <2> HIDE DEF m
  <2>2. CASE m \in store
    <3>1. store' = store
      BY <2>1, <2>2 DEF Publish
    <3> QED
      BY <3>1, ChainsStutter
  <2>3. CASE m \notin store
    <3>1. Chain' = [Chain EXCEPT ![m.run] = m.log] /\ Chain[m.run] = p.log
      BY <1>2, <1>3, <2>1, <2>3, PublishChain DEF IInv
    <3> HIDE DEF p, e
    <3>2. m.log # <<>> /\ m.log # p.log /\ m.log[Len(m.log)] = e
      BY <1>2, <1>3, <1>4, AppendProperties
    <3>3. Chain'[m.run] = m.log /\ Chain[m.run] # NoRef
      BY <1>3, <1>4, <3>1, NoRefAssumption DEF Chain
    <3>4. Chain' = [Chain EXCEPT ![m.run] = Append(Chain[m.run], Chain'[m.run][Len(Chain'[m.run])])]
      BY <1>3, <3>1, <3>2, <3>3
    <3>5. Chains!Extend(m.run)
      BY <3>2, <3>3, <3>4 DEF Chain, Chains!Extend, Chains!Last
    <3> QED
      BY <1>3, <3>1, <3>2, <3>3, <3>5 DEF Chain, Chains!Next
  <2> QED
    BY <2>2, <2>3
<1> QED
  BY <1>5, <1>6

LEMMA ChainsStep == IInv /\ IInv' /\ [Next]_vars => [Chains!Next]_Chain
<1> SUFFICES ASSUME IInv, IInv', [Next]_vars
             PROVE  Chains!Next \/ UNCHANGED Chain
  OBVIOUS
<1>1. CASE UNCHANGED vars
  BY <1>1, ChainsStutter DEF vars
<1>2. CASE Next
  <2>1. PICK r \in Publishers : Step(r)
    BY <1>2 DEF Next
  <2>2. CASE \E run \in Runs, n \in StageNames, c \in Configs : StartRun(r, run, n, c, 1)
    BY <2>2, ChainsStart
  <2>3. CASE \E ref \in Published, n \in StageNames, c \in Configs :
                Continue(r, ref, n, c, NextAttempt(ref, n))
    BY <2>3, ChainsStutter DEF Continue
  <2>4. CASE (\E ok \in BOOLEAN : Operate(r, ok)) \/ LostRace(r) \/ Crash(r)
    BY <2>4, ChainsStutter DEF Operate, LostRace, Crash
  <2>5. CASE \E ref \in Published, run \in Runs : Fork(r, ref, run)
    BY <2>5, ChainsFork
  <2> QED
    BY <2>1, <2>2, <2>3, <2>4, <2>5, ChainsExtend DEF Step
<1> QED
  BY <1>1, <1>2

\* The store, with its files, digests, races and crashes, implements the chains:
\* every run is a history of stages that grows at its end, one stage at a time, and
\* a new run is empty or a copy of what some run had recorded.
THEOREM StoreImplementsChains == Spec => ImplementsChains
<1>1. Init => Chains!Init
  BY ChainsInit
<1>2. IInv /\ IInv' /\ [Next]_vars => [Chains!Next]_Chain
  BY ChainsStep
<1> QED
  BY <1>1, <1>2, Inductive, PTL DEF Spec, ImplementsChains, Chains!Spec, Chain
=============================================================================
