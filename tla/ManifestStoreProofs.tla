------------------------ MODULE ManifestStoreProofs ------------------------
(***************************************************************************)
(* Lemmas about the manifest store: what is true of the files that publish *)
(* has let through, whatever components use it.  The largest element of a  *)
(* finite set of numbers is found without induction, by a minimal          *)
(* counterexample.                                                         *)
(***************************************************************************)
EXTENDS ManifestStore, FiniteSetTheorems, SequenceTheorems, WellFoundedInduction, TLAPS

-----------------------------------------------------------------------------
(* The largest of finitely many numbers.                                   *)

LEMMA FiniteIsBounded ==
    ASSUME NEW S, IsFiniteSet(S), S \subseteq Nat
    PROVE  \E b \in Nat : \A x \in S : x <= b
<1> DEFINE Unbounded(U) == ~ \E b \in Nat : \A x \in U : x <= b
           T == {U \in FiniteSubsetsOf(S) : Unbounded(U)}
<1> SUFFICES ASSUME Unbounded(S)
             PROVE  FALSE
  OBVIOUS
<1>1. S \in T
  BY DEF FiniteSubsetsOf
<1>2. PICK U \in T : \A V \in T : ~ (<<V, U>> \in StrictSubsetOrdering(S))
  <2> HIDE DEF T
  <2>1. T # {} /\ T \subseteq FiniteSubsetsOf(S)
    BY <1>1 DEF T
  <2> QED
    BY <2>1, FS_StrictSubsetOrderingWellFounded, WFMin
<1>3. PICK x \in U : TRUE
  <2>1. ASSUME U = {}
        PROVE  FALSE
    <3>1. \A y \in U : y <= 0
      BY <2>1
    <3> QED
      BY <1>2, <3>1
  <2> QED
    BY <2>1
<1>4. U \ {x} \in FiniteSubsetsOf(S) /\ <<U \ {x}, U>> \in StrictSubsetOrdering(S)
  BY <1>2, <1>3, FS_RemoveElement DEF FiniteSubsetsOf, StrictSubsetOrdering
<1>5. U \ {x} \notin T
  BY <1>2, <1>4
<1>6. PICK b \in Nat : \A y \in U \ {x} : y <= b
  BY <1>4, <1>5
<1>7. x \in Nat /\ U \subseteq Nat
  BY <1>2, <1>3 DEF FiniteSubsetsOf
<1>8. \A y \in U : y <= (IF x <= b THEN b ELSE x)
  BY <1>6, <1>7
<1>9. (IF x <= b THEN b ELSE x) \in Nat
  BY <1>7
<1> QED
  BY <1>2, <1>8, <1>9

LEMMA ImageIsFinite ==
    ASSUME NEW S, NEW f, IsFiniteSet(S)
    PROVE  IsFiniteSet({f[x] : x \in S})
<1> DEFINE g == [x \in S |-> f[x]]
           T == {f[x] : x \in S}
<1>1. g \in Surjection(S, T)
  BY DEF Surjection
<1> HIDE DEF g, T
<1>2. IsFiniteSet(T)
  BY <1>1, FS_Surjection
<1> QED
  BY <1>2 DEF T

LEMMA MaxProperties ==
    ASSUME NEW S, IsFiniteSet(S), S \subseteq Nat, S # {}
    PROVE  Max(S) \in S /\ \A y \in S : y <= Max(S)
<1>1. PICK b \in Nat : \A x \in S : x <= b
  BY FiniteIsBounded
<1> DEFINE T == {b - x : x \in S}
<1>2. T \subseteq Nat /\ T # {}
  <2>1. \A x \in S : b - x \in Nat
    BY <1>1
  <2>2. PICK x \in S : TRUE
    OBVIOUS
  <2>3. b - x \in T
    BY <2>2
  <2> QED
    BY <2>1, <2>3
<1>3. PICK t \in T : \A u \in T : ~ (<<u, t>> \in OpToRel(<, Nat))
  <2> HIDE DEF T
  <2> QED
    BY <1>2, NatLessThanWellFounded, WFMin
<1>4. \A u \in T : ~ (u < t)
  BY <1>2, <1>3 DEF OpToRel
<1>5. PICK m \in S : t = b - m
  BY <1>3
<1>6. \A y \in S : m >= y
  <2> TAKE y \in S
  <2>1. b - y \in T /\ m \in Nat /\ y \in Nat
    OBVIOUS
  <2>2. ~ (b - y < b - m)
    BY <1>4, <1>5, <2>1
  <2> QED
    BY <2>1, <2>2
<1>7. Max(S) \in S /\ \A y \in S : Max(S) >= y
  BY <1>5, <1>6 DEF Max
<1> QED
  BY <1>7

-----------------------------------------------------------------------------
(* What publish preserves.                                                 *)

\* One file for each revision of a run.
OneFile == \A m, x \in store : m.run = x.run /\ m.rev = x.rev => m = x

\* The revisions of a run are numbered from 0 without gaps.
NoGaps ==
    \A m \in store : \A k \in 0..m.rev :
        \E x \in store : x.run = m.run /\ x.rev = k

\* A later revision records what the earlier ones do, and more.
Grows ==
    \A m, x \in store :
        m.run = x.run /\ m.rev <= x.rev =>
           /\ Len(m.log) <= Len(x.log)
           /\ \A i \in 1..Len(m.log) : x.log[i] = m.log[i]

\* The parent of a revision is on file, the one before it in its run.
ParentsStored ==
    \A m \in store :
        m.parent # NoRef =>
           /\ m.parent \in Published
           /\ m.parent.run = m.run /\ m.rev = m.parent.rev + 1

\* A snapshot records what its source does.
CopiesStored ==
    \A m \in store :
        m.rev = 0 /\ m.source # NoRef =>
           m.source \in Published /\ m.log = Load(m.source).log

StoreInv ==
    /\ IsFiniteSet(store) /\ store \subseteq Manifest
    /\ OneFile /\ NoGaps /\ Grows /\ ParentsStored /\ CopiesStored

LEMMA LoadOne ==
    ASSUME NEW ref \in Published
    PROVE  Load(ref) \in store /\ RefOf(Load(ref)) = ref
<1>1. \E m \in store : RefOf(m) = ref
  BY DEF Published
<1> QED
  BY <1>1 DEF Load

LEMMA RefTyped ==
    ASSUME StoreInv, NEW ref \in Published
    PROVE  /\ ref \in Ref /\ ref # NoRef
           /\ Load(ref) \in Manifest
           /\ ref.run = Load(ref).run /\ ref.rev = Load(ref).rev
<1>1. Load(ref) \in store /\ RefOf(Load(ref)) = ref
  BY LoadOne
<1>2. Load(ref) \in Manifest
  BY <1>1 DEF StoreInv
<1>3. ref \in Ref
  BY <1>1, <1>2 DEF RefOf, Manifest, Ref
<1> QED
  BY <1>1, <1>2, <1>3, NoRefAssumption DEF RefOf

LEMMA LoadedIs ==
    ASSUME StoreInv, NEW m \in store
    PROVE  RefOf(m) \in Published /\ Load(RefOf(m)) = m
<1>1. RefOf(m) \in Published
  BY DEF Published
<1>2. Load(RefOf(m)) \in store /\ RefOf(Load(RefOf(m))) = RefOf(m)
  BY <1>1, LoadOne
<1>3. Load(RefOf(m)).run = m.run /\ Load(RefOf(m)).rev = m.rev
  BY <1>2 DEF RefOf
<1> QED
  BY <1>1, <1>2, <1>3 DEF StoreInv, OneFile

\* The same of what has just been published.
LEMMA LoadedNext ==
    ASSUME StoreInv', NEW m \in store'
    PROVE  RefOf(m) \in Published' /\ Load(RefOf(m))' = m
<1>1. \A x \in store' : RefOf(x) = RefOf(m) => x = m
  BY DEF StoreInv, OneFile, RefOf
<1>2. Load(RefOf(m))' = CHOOSE x \in store' : RefOf(x) = RefOf(m)
  BY DEF Load, RefOf
<1>3. Load(RefOf(m))' = m
  BY <1>1, <1>2
<1> QED
  BY <1>3 DEF Published, RefOf

LEMMA StoreStays == StoreInv /\ UNCHANGED store => StoreInv' /\ Published' = Published
<1> USE DEF StoreInv, OneFile, NoGaps, Grows, ParentsStored, CopiesStored
<1> SUFFICES ASSUME StoreInv, store' = store
             PROVE  StoreInv' /\ Published' = Published
  OBVIOUS
<1>1. Published' = Published /\ \A ref : Load(ref)' = Load(ref)
  BY DEF Published, Load
<1> QED
  BY <1>1

\* A manifest has one child at most.
LEMMA OneChild ==
    ASSUME StoreInv, NEW ref \in Published,
           NEW m \in Children(ref), NEW x \in Children(ref)
    PROVE  m = x
<1>1. m \in store /\ x \in store /\ m.parent = ref /\ x.parent = ref /\ ref # NoRef
  BY RefTyped DEF Children
<1>2. m.run = x.run /\ m.rev = x.rev
  BY <1>1 DEF StoreInv, ParentsStored
<1> QED
  BY <1>1, <1>2 DEF StoreInv, OneFile

\* The revision without a successor is the last one.
LEMMA LatestHasNoChild ==
    ASSUME StoreInv, NEW p \in store,
           ~ \E y \in store : y.run = p.run /\ y.rev = p.rev + 1,
           NEW x \in store, x.run = p.run
    PROVE  x.rev <= p.rev
<1>1. x.rev \in Nat /\ p.rev \in Nat
  BY DEF StoreInv, Manifest
<1> SUFFICES ASSUME p.rev + 1 <= x.rev
             PROVE  FALSE
  BY <1>1
<1>2. p.rev + 1 \in 0..x.rev
  BY <1>1
<1> QED
  BY <1>2 DEF StoreInv, NoGaps

\* A run without a revision 0 has none.
LEMMA NoFirstNoRun ==
    ASSUME StoreInv, NEW run, ~ \E y \in store : y.run = run /\ y.rev = 0,
           NEW x \in store
    PROVE  x.run # run
<1>1. 0 \in 0..x.rev
  BY DEF StoreInv, Manifest
<1> QED
  BY <1>1 DEF StoreInv, NoGaps

\* Files are only added: references stay good, and mean what they meant.
LEMMA Kept ==
    ASSUME OneFile', store \subseteq store', NEW ref \in Published
    PROVE  /\ ref \in Published'
           /\ Load(ref)' = Load(ref)
           /\ Children(ref) \subseteq Children(ref)'
<1>1. Load(ref) \in store /\ RefOf(Load(ref)) = ref
  BY LoadOne
<1>2. \E m \in store' : RefOf(m) = ref
  BY <1>1
<1>3. Load(ref)' \in store' /\ RefOf(Load(ref)') = ref
  BY <1>2 DEF Load
<1>4. Load(ref)'.run = Load(ref).run /\ Load(ref)'.rev = Load(ref).rev
  BY <1>1, <1>3 DEF RefOf
<1>5. Load(ref)' = Load(ref)
  BY <1>1, <1>3, <1>4 DEF OneFile
<1> QED
  BY <1>1, <1>2, <1>5 DEF Published, Children

\* What store is given, publish keeps: a stage adds one entry to the log.
LEMMA PublishKeeps ==
    ASSUME StoreInv, NEW n \in Manifest, Publish(n),
           n.parent # NoRef =>
              \E e \in Entry : n.log = Append(Load(n.parent).log, e),
           n.parent = NoRef /\ n.source # NoRef =>
              n.source \in Published /\ n.log = Load(n.source).log
    PROVE  StoreInv'
<1>1. /\ store' = store \cup {n}
      /\ n.rev = 0 <=> n.parent = NoRef
      /\ n.parent # NoRef =>
            /\ n.parent \in Published
            /\ n.parent.run = n.run /\ n.parent.rev + 1 = n.rev
      /\ \A x \in store : x.run = n.run /\ x.rev = n.rev => x = n
  BY DEF Publish, Valid, FollowsParent, Conflicts
<1>2. IsFiniteSet(store') /\ store' \subseteq Manifest
  BY <1>1, FS_AddElement DEF StoreInv
<1>3. OneFile'
  BY <1>1 DEF StoreInv, OneFile
<1>4. Published \subseteq Published' /\ RefOf(n) \in Published'
  BY <1>1 DEF Published
<1>5. ParentsStored'
  BY <1>1, <1>4 DEF StoreInv, ParentsStored
<1>10. CopiesStored'
  <2> SUFFICES ASSUME NEW m \in store', m.rev = 0, m.source # NoRef
               PROVE  m.source \in Published' /\ m.log = Load(m.source)'.log
    BY DEF CopiesStored
  <2>1. m.source \in Published /\ m.log = Load(m.source).log
    BY <1>1 DEF StoreInv, CopiesStored
  <2> QED
    BY <1>1, <1>3, <2>1, Kept
<1>6. CASE n \in store
  <2>1. store' = store
    BY <1>1, <1>6
  <2> QED
    BY <2>1, <1>2, <1>3, <1>5, <1>10 DEF StoreInv, NoGaps, Grows
<1>7. CASE n.parent = NoRef /\ n \notin store
  <2>1. n.rev = 0 /\ \A x \in store : x.run # n.run
    BY <1>1, <1>7, NoFirstNoRun
  <2>2. NoGaps'
    <3> SUFFICES ASSUME NEW m \in store', NEW k \in 0..m.rev
                 PROVE  \E x \in store' : x.run = m.run /\ x.rev = k
      BY DEF NoGaps
    <3>1. CASE m \in store
      BY <3>1, <1>1 DEF StoreInv, NoGaps
    <3>2. CASE m = n
      BY <3>2, <1>1, <2>1
    <3> QED
      BY <3>1, <3>2, <1>1
  <2>3. Grows'
    <3>1. \A i \in 1..Len(n.log) : n.log[i] = n.log[i]
      OBVIOUS
    <3>2. Len(n.log) <= Len(n.log)
      BY DEF Manifest
    <3> QED
      BY <1>1, <2>1, <3>1, <3>2 DEF StoreInv, Grows
  <2> QED
    BY <1>2, <1>3, <1>5, <1>10, <2>2, <2>3 DEF StoreInv
<1>8. CASE n.parent # NoRef /\ n \notin store
  <2> DEFINE p == Load(n.parent)
  <2>1. p \in store /\ RefOf(p) = n.parent
    BY <1>1, <1>8, LoadOne
  <2>2. p.run = n.run /\ n.rev = p.rev + 1 /\ p \in Manifest
    BY <1>1, <1>8, <2>1 DEF RefOf, StoreInv
  <2>3. PICK e \in Entry : n.log = Append(p.log, e)
    BY <1>8
  <2> HIDE DEF p
  <2>4. /\ Len(n.log) = Len(p.log) + 1 /\ Len(p.log) \in Nat
        /\ \A i \in 1..Len(p.log) : n.log[i] = p.log[i]
    BY <2>2, <2>3, AppendProperties DEF Manifest
  <2>5. \A x \in store : x.run = n.run => x.rev <= p.rev
    BY <1>1, <1>8, <2>1, <2>2, LatestHasNoChild
  <2>6. NoGaps'
    <3> SUFFICES ASSUME NEW m \in store', NEW k \in 0..m.rev
                 PROVE  \E x \in store' : x.run = m.run /\ x.rev = k
      BY DEF NoGaps
    <3>1. CASE m \in store
      BY <3>1, <1>1 DEF StoreInv, NoGaps
    <3>2. CASE m = n /\ k = n.rev
      BY <3>2, <1>1
    <3>3. CASE m = n /\ k # n.rev
      <4>1. k \in 0..p.rev
        BY <3>3, <2>2 DEF Manifest
      <4> QED
        BY <3>3, <4>1, <1>1, <2>1, <2>2 DEF StoreInv, NoGaps
    <3> QED
      BY <3>1, <3>2, <3>3, <1>1
  <2>7. Grows'
    <3> SUFFICES ASSUME NEW m \in store', NEW x \in store', m.run = x.run, m.rev <= x.rev
                 PROVE  /\ Len(m.log) <= Len(x.log)
                        /\ \A i \in 1..Len(m.log) : x.log[i] = m.log[i]
      BY DEF Grows
    <3>1. CASE m \in store /\ x \in store
      BY <3>1 DEF StoreInv, Grows
    <3>2. CASE m = n /\ x = n
      BY <3>2, <2>4
    <3>3. CASE m = n /\ x \in store
      <4>1. x.rev <= p.rev /\ n.rev = p.rev + 1 /\ n.rev <= x.rev
        BY <3>3, <2>2, <2>5
      <4>2. x.rev \in Nat /\ p.rev \in Nat
        BY <3>3, <2>2 DEF StoreInv, Manifest
      <4> QED
        BY <4>1, <4>2
    <3>4. CASE m \in store /\ x = n
      <4>1. m.rev <= p.rev /\ m.run = p.run
        BY <3>4, <2>2, <2>5
      <4>2. /\ Len(m.log) <= Len(p.log)
            /\ \A i \in 1..Len(m.log) : p.log[i] = m.log[i]
        BY <3>4, <4>1, <2>1 DEF StoreInv, Grows
      <4>3. Len(m.log) \in Nat
        BY <3>4 DEF StoreInv, Manifest
      <4>4. \A i \in 1..Len(m.log) : i \in 1..Len(p.log)
        BY <4>2, <4>3, <2>4
      <4>5. Len(m.log) <= Len(n.log)
        BY <4>2, <4>3, <2>4
      <4>6. \A i \in 1..Len(m.log) : n.log[i] = m.log[i]
        BY <4>2, <4>4, <2>4
      <4> QED
        BY <3>4, <4>5, <4>6
    <3> QED
      BY <3>1, <3>2, <3>3, <3>4, <1>1
  <2> QED
    BY <1>2, <1>3, <1>5, <1>10, <2>6, <2>7 DEF StoreInv
<1> QED
  BY <1>6, <1>7, <1>8

-----------------------------------------------------------------------------
(* What is published.                                                      *)

\* The attempt a stage is given is larger than every recorded one.
LEMMA NextAttemptFresh ==
    ASSUME StoreInv, NEW ref \in Published, NEW name
    PROVE  /\ NextAttempt(ref, name) \in Nat \ {0}
           /\ \A i \in DOMAIN Load(ref).log :
                 Load(ref).log[i].name = name
                 => Load(ref).log[i].attempt < NextAttempt(ref, name)
<1> DEFINE log == Load(ref).log
           named == {j \in DOMAIN log : log[j].name = name}
           used == {log[i].attempt : i \in named}
<1>1. log \in Seq(Entry)
  BY RefTyped DEF Manifest
<1>2. DOMAIN log = 1..Len(log) /\ Len(log) \in Nat
  BY <1>1
<1>3. IsFiniteSet(named)
  <2>1. IsFiniteSet(1..Len(log)) /\ named \subseteq 1..Len(log)
    BY <1>2, FS_Interval
  <2> HIDE DEF named
  <2> QED
    BY <2>1, FS_Subset
<1>4. IsFiniteSet(used)
  <2> DEFINE f == [i \in named |-> log[i].attempt]
  <2>1. used = {f[i] : i \in named}
    OBVIOUS
  <2> HIDE DEF named, used, f
  <2> QED
    BY <1>3, <2>1, ImageIsFinite
<1>5. used \subseteq Nat
  <2> SUFFICES ASSUME NEW i \in named
               PROVE  log[i].attempt \in Nat
    OBVIOUS
  <2>1. log[i] \in Entry
    <3> HIDE DEF log
    <3> QED
      BY <1>1, <1>2
  <2> QED
    BY <2>1 DEF Entry
<1>6. IsFiniteSet({0} \cup used)
  <2> HIDE DEF used
  <2> QED
    BY <1>4, FS_Singleton, FS_Union
<1> DEFINE all == {0} \cup used
<1>7. Max(all) \in all /\ \A y \in all : y <= Max(all)
  <2>1. IsFiniteSet(all) /\ all \subseteq Nat /\ all # {}
    BY <1>5, <1>6
  <2> HIDE DEF all
  <2> QED
    BY <2>1, MaxProperties
<1>8. NextAttempt(ref, name) = 1 + Max(all)
  BY DEF NextAttempt
<1> HIDE DEF all
<1>9. Max(all) \in Nat /\ \A y \in used : y <= Max(all)
  BY <1>5, <1>7 DEF all
<1>10. \A i \in DOMAIN log : log[i].name = name => log[i].attempt \in used
  OBVIOUS
<1> HIDE DEF used, log
<1>11. \A y \in used : y < 1 + Max(all)
  BY <1>5, <1>9
<1> QED
  BY <1>8, <1>9, <1>10, <1>11 DEF log

LEMMA CreatedTyped ==
    ASSUME NEW run \in Runs, NEW by \in Publishers
    PROVE  Created(run, by) \in Manifest /\ Created(run, by).parent = NoRef
<1>1. <<>> \in Seq(Entry)
  OBVIOUS
<1> QED
  BY <1>1 DEF Created, Manifest

LEMMA RevisedTyped ==
    ASSUME StoreInv, NEW ref \in Published, NEW entry \in Entry,
           NEW by \in Publishers
    PROVE  /\ Revised(ref, entry, by) \in Manifest
           /\ Revised(ref, entry, by).parent = ref
           /\ Revised(ref, entry, by).log = Append(Load(ref).log, entry)
           /\ LastEntry(Revised(ref, entry, by)) = entry
           /\ Revised(ref, entry, by).log # <<>>
<1>1. ref \in Ref /\ Load(ref) \in Manifest
  BY RefTyped
<1>2. Load(ref).log \in Seq(Entry) /\ Load(ref).source \in Ref \cup {NoRef}
  BY <1>1 DEF Manifest
<1> DEFINE log == Append(Load(ref).log, entry)
<1>3. log \in Seq(Entry) /\ log # <<>> /\ log[Len(log)] = entry
  BY <1>2, AppendProperties
<1> HIDE DEF log
<1>4. Revised(ref, entry, by) =
         [run |-> ref.run, rev |-> ref.rev + 1, by |-> by, parent |-> ref,
          source |-> Load(ref).source, log |-> log]
  BY DEF Revised, log
<1>5. ref.run \in Runs /\ ref.rev + 1 \in Nat
  BY <1>1 DEF Ref
<1> QED
  BY <1>1, <1>2, <1>3, <1>4, <1>5 DEF Manifest, LastEntry, log

LEMMA SnapshotTyped ==
    ASSUME StoreInv, NEW ref \in Published, NEW run \in Runs,
           NEW by \in Publishers
    PROVE  /\ Snapshot(ref, run, by) \in Manifest
           /\ Snapshot(ref, run, by).parent = NoRef
  BY RefTyped DEF Snapshot, Manifest

\* The three ways to publish.
LEMMA CreatedKeeps ==
    ASSUME StoreInv, NEW run \in Runs, NEW by \in Publishers,
           Publish(Created(run, by))
    PROVE  StoreInv' /\ store' = store \cup {Created(run, by)}
<1>1. Created(run, by).source = NoRef
  BY DEF Created
<1> QED
  BY <1>1, CreatedTyped, PublishKeeps DEF Publish

LEMMA RevisedKeeps ==
    ASSUME StoreInv, NEW ref \in Published, NEW entry \in Entry,
           NEW by \in Publishers, Publish(Revised(ref, entry, by))
    PROVE  StoreInv' /\ store' = store \cup {Revised(ref, entry, by)}
<1>1. ref # NoRef
  BY RefTyped
<1> QED
  BY <1>1, RevisedTyped, PublishKeeps DEF Publish

LEMMA SnapshotKeeps ==
    ASSUME StoreInv, NEW ref \in Published, NEW run \in Runs,
           NEW by \in Publishers, Publish(Snapshot(ref, run, by))
    PROVE  StoreInv' /\ store' = store \cup {Snapshot(ref, run, by)}
<1>1. Snapshot(ref, run, by).source = ref /\ Snapshot(ref, run, by).log = Load(ref).log
  BY DEF Snapshot
<1> QED
  BY <1>1, SnapshotTyped, PublishKeeps DEF Publish
=============================================================================
