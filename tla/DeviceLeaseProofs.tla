------------------------- MODULE DeviceLeaseProofs --------------------------
(***************************************************************************)
(* Proofs about the device lease, for every set of attempts and collectors *)
(* and any number of kills.                                                *)
(***************************************************************************)
EXTENDS DeviceLease, TLAPS

-----------------------------------------------------------------------------
(* The inductive invariant.                                                *)

Record == [token : Attempts \cup {Nobody}, dirs : SUBSET Attempts, rev : Nat]

\* The statements between the heartbeat's first beat and the sidecar's end.
Beating == {"record", "store", "stage", "use", "remove", "forget", "erase",
            "release"}

\* Those at which an attempt keeps the lock.
Locking == {"start", "abandon", "unlink"}

AttemptPc == Beating \cup Locking \cup {"idle", "lock", "done", "dead"}

Collecting == {"clean", "unbeat", "unlink"}

TypeOK ==
    /\ owner \in Record
    /\ aged \in BOOLEAN
    /\ beat \in [Attempts -> {"none", "fresh", "stale"}]
    /\ sidecar \subseteq Attempts
    /\ remote \subseteq Attempts
    /\ lock \in Attempts \cup Collectors \cup {Nobody}
    /\ attempt \in [Attempts -> [pc : AttemptPc, read : Record]]
    /\ gc \in [Collectors -> [pc : Collecting \cup {"idle", "scanned"}, seen : Record]]
    /\ kills \in Nat /\ late \in Nat

\* Whatever is late: the owner file is only changed by the holder of the lock or
\* for an instant under it, and by an attempt only while it is the attempt's.
LockInv ==
    /\ owner.token = Nobody => owner = NoRecord
    /\ \A a \in Attempts :
          /\ attempt[a].pc \in Locking =>
                lock = a /\ Owns(a) /\ owner.dirs = {}
          /\ attempt[a].pc \in {"store", "erase"} => attempt[a].read.token = a
          /\ Owns(a) => ~At(a, "idle")
    /\ \A g \in Collectors :
          gc[g].pc \in Collecting => lock = g /\ owner # NoRecord

\* While no heartbeat of a live attempt is late: who works holds the lease and
\* its sidecar beats, and what it has read is still on file.
HolderInv ==
    \A a \in Attempts :
       /\ attempt[a].pc \in Beating => Owns(a) /\ a \in sidecar
       /\ a \in sidecar => beat[a] = "fresh" /\ attempt[a].pc \in Beating \cup {"dead"}
       /\ attempt[a].pc \in {"store", "erase"} => attempt[a].read = owner
       /\ OnDevice(a) => a \in owner.dirs
       /\ attempt[a].pc \in {"forget", "erase"} => a \notin remote
       /\ attempt[a].pc \in {"lock", "dead"} /\ ~Owns(a) =>
             beat[a] = "none" /\ a \notin sidecar

\* What a collector takes apart under the lock belongs to nobody who works.
CollectorInv ==
    \A g \in Collectors :
       gc[g].pc \in Collecting =>
          /\ owner.token \notin sidecar
          /\ attempt[owner.token].pc \in {"lock", "done", "dead"}
          /\ gc[g].pc # "clean" => remote = {}
          /\ gc[g].pc = "unlink" => beat[owner.token] = "none"

TimelyInv == HolderInv /\ CollectorInv /\ remote \subseteq owner.dirs

IInv == TypeOK /\ LockInv /\ (late = 0 => TimelyInv)

-----------------------------------------------------------------------------
(* The owner file.                                                         *)

LEMMA RecordTyped ==
    /\ NoRecord \in Record
    /\ \A a \in Attempts : [token |-> a, dirs |-> {}, rev |-> 0] \in Record
    /\ \A r \in Record :
          r.token \in Attempts \cup {Nobody} /\ r.dirs \subseteq Attempts
  BY DEF NoRecord, Record

\* A bookkeeping update writes what was read, with other directories.
LEMMA Rewritten ==
    ASSUME NEW r \in Record, NEW dirs \in SUBSET Attempts
    PROVE  /\ [r EXCEPT !.dirs = dirs, !.rev = @ + 1] \in Record
           /\ [r EXCEPT !.dirs = dirs, !.rev = @ + 1].token = r.token
           /\ [r EXCEPT !.dirs = dirs, !.rev = @ + 1].dirs = dirs
<1> DEFINE w == [r EXCEPT !.dirs = dirs]
<1>1. w \in Record /\ w.token = r.token /\ w.dirs = dirs /\ w.rev = r.rev
  BY DEF Record
<1>2. [r EXCEPT !.dirs = dirs, !.rev = @ + 1] = [w EXCEPT !.rev = r.rev + 1]
  OBVIOUS
<1> HIDE DEF w
<1>3. r.rev + 1 \in Nat
  BY DEF Record
<1>4. ASSUME NEW k \in Nat
      PROVE  LET v == [w EXCEPT !.rev = k]
             IN  v \in Record /\ v.token = w.token /\ v.dirs = w.dirs
  BY <1>1 DEF Record
<1> QED
  BY <1>1, <1>2, <1>3, <1>4

LEMMA ReplaceStep ==
    ASSUME TypeOK, NEW a \in Attempts, NEW here, NEW dirs \in SUBSET Attempts,
           NEW next, ReplaceOwner(a, here, dirs, next)
    PROVE  /\ At(a, here) /\ lock = Nobody
           /\ UNCHANGED <<beat, sidecar, remote, lock, gc, kills, late>>
           /\ \/ ~Owns(a) /\ Go(a, "release") /\ UNCHANGED <<owner, aged>>
              \/ /\ Owns(a) /\ Go(a, next)
                 /\ owner' \in Record /\ owner'.token = attempt[a].read.token
                 /\ owner'.dirs = dirs /\ aged' = FALSE
<1>1. attempt[a].read \in Record
  BY DEF TypeOK
<1>2. CASE Owns(a)
  <2> DEFINE w == [attempt[a].read EXCEPT !.dirs = dirs, !.rev = @ + 1]
  <2>1. w \in Record /\ w.token = attempt[a].read.token /\ w.dirs = dirs
    BY <1>1, Rewritten, Zenon
  <2>2. owner' = w /\ aged' = FALSE
    BY <1>2, Zenon DEF ReplaceOwner, Write
  <2> HIDE DEF w
  <2> QED
    BY <1>2, <2>1, <2>2 DEF ReplaceOwner
<1>3. CASE ~Owns(a)
  BY <1>3 DEF ReplaceOwner
<1> QED
  BY <1>2, <1>3

\* The bookkeeping updates write what was read with this directory more or less.
LEMMA BookkeepingStep ==
    ASSUME TypeOK, NEW a \in Attempts,
           NEW here, NEW next, NEW dirs \in {attempt[a].read.dirs \cup {a},
                                            attempt[a].read.dirs \ {a}},
           ReplaceOwner(a, here, dirs, next)
    PROVE  /\ At(a, here) /\ lock = Nobody
           /\ UNCHANGED <<beat, sidecar, remote, lock, gc, kills, late>>
           /\ \/ ~Owns(a) /\ Go(a, "release") /\ UNCHANGED <<owner, aged>>
              \/ /\ Owns(a) /\ Go(a, next)
                 /\ owner' \in Record /\ owner'.token = attempt[a].read.token
                 /\ owner'.dirs = dirs /\ aged' = FALSE
<1>1. dirs \in SUBSET Attempts
  BY DEF TypeOK, Record
<1> QED
  BY <1>1, ReplaceStep

LEMMA GoTyped ==
    ASSUME TypeOK, NEW a \in Attempts, NEW next \in AttemptPc, Go(a, next)
    PROVE  /\ attempt' \in [Attempts -> [pc : AttemptPc, read : Record]]
           /\ attempt'[a].pc = next
           /\ \A b \in Attempts : b # a => attempt'[b] = attempt[b]
  BY RecordTyped DEF TypeOK, Go

-----------------------------------------------------------------------------
(* Every step preserves it.                                                *)

LEMMA TypeStep == TypeOK /\ [Next]_vars => TypeOK'
<1> SUFFICES ASSUME TypeOK, [Next]_vars
             PROVE  TypeOK'
  OBVIOUS
<1> USE RecordTyped DEF TypeOK, AttemptPc, Beating, Locking, Collecting
<1>1. ASSUME NEW a \in Attempts, Publish(a)
      PROVE  TypeOK'
  BY <1>1, GoTyped DEF Publish, Write
<1>2. ASSUME NEW a \in Attempts, StartSidecar(a)
      PROVE  TypeOK'
  BY <1>2, GoTyped DEF StartSidecar
<1>3. ASSUME NEW a \in Attempts, StartFails(a)
      PROVE  TypeOK'
  <2>1. /\ UNCHANGED <<sidecar, remote, gc, kills, late>>
        /\ Go(a, "abandon") \/ Go(a, "done")
        /\ owner' = owner \/ owner' = NoRecord
        /\ aged' = aged \/ aged' = FALSE
        /\ lock' = lock \/ lock' = Nobody
        /\ beat' = beat \/ beat' = [beat EXCEPT ![a] = "none"]
    BY <1>3 DEF StartFails, Write
  <2>2. attempt' \in [Attempts -> [pc : AttemptPc, read : Record]]
    BY <2>1, GoTyped
  <2>3. beat' \in [Attempts -> {"none", "fresh", "stale"}]
    BY <2>1
  <2> QED
    BY <2>1, <2>2, <2>3
<1>4. ASSUME NEW a \in Attempts, RecordDir(a)
      PROVE  TypeOK'
  <2>1. CASE ReadRecord(a, "record", "store")
    BY <2>1 DEF ReadRecord
  <2>2. CASE ReplaceOwner(a, "store", attempt[a].read.dirs \cup {a}, "stage")
    <3>1. attempt[a].read.dirs \cup {a} \in SUBSET Attempts
      OBVIOUS
    <3>2. /\ UNCHANGED <<beat, sidecar, remote, lock, gc, kills, late>>
          /\ Go(a, "release") \/ Go(a, "stage")
          /\ owner' \in Record /\ aged' \in BOOLEAN
      BY <2>2, <3>1, ReplaceStep
    <3> QED
      BY <3>2, GoTyped
  <2> QED
    BY <1>4, <2>1, <2>2 DEF RecordDir
<1>5. ASSUME NEW a \in Attempts, ForgetDir(a)
      PROVE  TypeOK'
  <2>1. CASE ReadRecord(a, "forget", "erase")
    BY <2>1 DEF ReadRecord
  <2>2. CASE ReplaceOwner(a, "erase", attempt[a].read.dirs \ {a}, "release")
    <3>1. attempt[a].read.dirs \ {a} \in SUBSET Attempts
      OBVIOUS
    <3>2. /\ UNCHANGED <<beat, sidecar, remote, lock, gc, kills, late>>
          /\ Go(a, "release") \/ Go(a, "release")
          /\ owner' \in Record /\ aged' \in BOOLEAN
      BY <2>2, <3>1, ReplaceStep
    <3> QED
      BY <3>2, GoTyped
  <2> QED
    BY <1>5, <2>1, <2>2 DEF ForgetDir
<1>6. ASSUME NEW a \in Attempts, Stage(a)
      PROVE  TypeOK'
  BY <1>6, GoTyped DEF Stage
<1>7. ASSUME NEW a \in Attempts, EndUse(a)
      PROVE  TypeOK'
  BY <1>7, GoTyped DEF EndUse
<1>8. ASSUME NEW a \in Attempts, Remove(a)
      PROVE  TypeOK'
  BY <1>8, GoTyped DEF Remove
<1>9. ASSUME NEW a \in Attempts, StopSidecar(a)
      PROVE  TypeOK'
  BY <1>9, GoTyped DEF StopSidecar
<1>10. ASSUME NEW a \in Attempts, Release(a)
      PROVE  TypeOK'
  BY <1>10, GoTyped DEF Release, Write
<1>11. ASSUME NEW a \in Attempts, Kill(a)
      PROVE  TypeOK'
  BY <1>11, GoTyped DEF Kill
<1>12. ASSUME NEW a \in Attempts, Beat(a)
      PROVE  TypeOK'
  BY <1>12 DEF Beat
<1>13. ASSUME NEW a \in Attempts, SidecarExits(a)
      PROVE  TypeOK'
  BY <1>13 DEF SidecarExits
<1>14. ASSUME NEW a \in Attempts, SidecarFails(a)
      PROVE  TypeOK'
  BY <1>14 DEF SidecarFails
<1>15. ASSUME NEW a \in Attempts, BecomeStale(a)
      PROVE  TypeOK'
  BY <1>15 DEF BecomeStale
<1>16. ASSUME Age
      PROVE  TypeOK'
  BY <1>16 DEF Age
<1>17. ASSUME NEW g \in Collectors, Scan(g)
      PROVE  TypeOK'
  BY <1>17 DEF Scan, GcAt, StaleRecord
<1>18. ASSUME NEW g \in Collectors, Recheck(g)
      PROVE  TypeOK'
  BY <1>18 DEF Recheck, GcAt, GcGo, GcEnd, StaleRecord
<1>19. ASSUME NEW g \in Collectors, Clean(g)
      PROVE  TypeOK'
  BY <1>19 DEF Clean, GcAt, GcGo
<1>20. ASSUME NEW g \in Collectors, CleanFails(g)
      PROVE  TypeOK'
  BY <1>20 DEF CleanFails, GcAt, GcEnd
<1>21. ASSUME NEW g \in Collectors, Reclaim(g)
      PROVE  TypeOK'
  <2>1. CASE GcAt(g, "unbeat")
    <3>1. beat' \in [Attempts -> {"none", "fresh", "stale"}]
      BY <1>21, <2>1 DEF Reclaim, GcAt
    <3>2. gc' \in [Collectors -> [pc : Collecting \cup {"idle", "scanned"}, seen : Record]]
      BY <1>21, <2>1 DEF Reclaim, GcAt, GcGo
    <3> QED
      BY <1>21, <2>1, <3>1, <3>2 DEF Reclaim, GcAt
  <2>2. CASE GcAt(g, "unlink")
    <3>1. gc' \in [Collectors -> [pc : Collecting \cup {"idle", "scanned"}, seen : Record]]
      BY <1>21, <2>2 DEF Reclaim, GcAt, GcEnd
    <3> QED
      BY <1>21, <2>2, <3>1 DEF Reclaim, Write, GcAt
  <2> QED
    BY <1>21, <2>1, <2>2 DEF Reclaim
<1>22. ASSUME NEW g \in Collectors, KillGc(g)
      PROVE  TypeOK'
  BY <1>22 DEF KillGc, GcAt, GcEnd
<1>23. CASE UNCHANGED vars
  BY <1>23 DEF vars
<1> QED
  BY <1>1, <1>2, <1>3, <1>4, <1>5, <1>6, <1>7, <1>8, <1>9, <1>10, <1>11, <1>12, <1>13, <1>14, <1>15, <1>16, <1>17, <1>18, <1>19, <1>20, <1>21, <1>22, <1>23 DEF Next, AttemptStep, GcStep

LEMMA LockStep == TypeOK /\ LockInv /\ [Next]_vars => LockInv'
<1> SUFFICES ASSUME TypeOK, LockInv, [Next]_vars
             PROVE  LockInv'
  OBVIOUS
<1> USE ProcessAssumption, RecordTyped DEF TypeOK, LockInv, Locking, Collecting, NoRecord, Owns, At
<1>1. ASSUME NEW a \in Attempts, Publish(a)
      PROVE  LockInv'
  BY <1>1 DEF Publish, Write, Go, At
<1>2. ASSUME NEW a \in Attempts, StartSidecar(a)
      PROVE  LockInv'
  BY <1>2 DEF StartSidecar, Go, At
<1>3. ASSUME NEW a \in Attempts, StartFails(a)
      PROVE  LockInv'
  BY <1>3 DEF StartFails, Write, Go, At
<1>4. ASSUME NEW a \in Attempts, RecordDir(a)
      PROVE  LockInv'
  <2>1. attempt[a].read.dirs \cup {a} \in SUBSET Attempts
        /\ attempt[a].read.dirs \ {a} \in SUBSET Attempts
    OBVIOUS
  <2>2. CASE ReadRecord(a, "record", "store")
    BY <2>2 DEF ReadRecord
  <2>3. CASE ReplaceOwner(a, "store", attempt[a].read.dirs \cup {a}, "stage")
    <3>1. /\ UNCHANGED <<lock, gc>> /\ lock = Nobody /\ At(a, "store")
          /\ \/ Go(a, "release") /\ owner' = owner
             \/ Owns(a) /\ Go(a, "stage") /\ owner'.token = attempt[a].read.token
      <4>1. TypeOK
        OBVIOUS
      <4> HIDE DEF TypeOK, LockInv, Owns, At, Locking, Collecting, NoRecord
      <4> QED
        BY <4>1, <2>3, BookkeepingStep
    <3>2. \A b \in Attempts : attempt[b].pc \notin Locking
      BY <3>1
    <3>3. \A k \in Collectors : gc[k].pc \notin Collecting
      BY <3>1
    <3> QED
      BY <3>1, <3>2, <3>3 DEF Go
  <2> QED
    BY <1>4, <2>2, <2>3 DEF RecordDir
<1>5. ASSUME NEW a \in Attempts, ForgetDir(a)
      PROVE  LockInv'
  <2>1. attempt[a].read.dirs \cup {a} \in SUBSET Attempts
        /\ attempt[a].read.dirs \ {a} \in SUBSET Attempts
    OBVIOUS
  <2>2. CASE ReadRecord(a, "forget", "erase")
    BY <2>2 DEF ReadRecord
  <2>3. CASE ReplaceOwner(a, "erase", attempt[a].read.dirs \ {a}, "release")
    <3>1. /\ UNCHANGED <<lock, gc>> /\ lock = Nobody /\ At(a, "erase")
          /\ \/ Go(a, "release") /\ owner' = owner
             \/ Owns(a) /\ Go(a, "release") /\ owner'.token = attempt[a].read.token
      <4>1. TypeOK
        OBVIOUS
      <4> HIDE DEF TypeOK, LockInv, Owns, At, Locking, Collecting, NoRecord
      <4> QED
        BY <4>1, <2>3, BookkeepingStep
    <3>2. \A b \in Attempts : attempt[b].pc \notin Locking
      BY <3>1
    <3>3. \A k \in Collectors : gc[k].pc \notin Collecting
      BY <3>1
    <3> QED
      BY <3>1, <3>2, <3>3 DEF Go
  <2> QED
    BY <1>5, <2>2, <2>3 DEF ForgetDir
<1>6. ASSUME NEW a \in Attempts, Stage(a)
      PROVE  LockInv'
  <2>1. /\ UNCHANGED <<owner, lock, gc>> /\ At(a, "stage")
        /\ \/ attempt' = attempt
           \/ Go(a, "release") \/ Go(a, "use") \/ Go(a, "remove")
    BY <1>6 DEF Stage
  <2> QED
    BY <2>1 DEF Go
<1>7. ASSUME NEW a \in Attempts, EndUse(a)
      PROVE  LockInv'
  BY <1>7 DEF EndUse, Go, At
<1>8. ASSUME NEW a \in Attempts, Remove(a)
      PROVE  LockInv'
  BY <1>8 DEF Remove, Go, At
<1>9. ASSUME NEW a \in Attempts, StopSidecar(a)
      PROVE  LockInv'
  BY <1>9 DEF StopSidecar, Go, At
<1>10. ASSUME NEW a \in Attempts, Release(a)
      PROVE  LockInv'
  BY <1>10 DEF Release, Write, Go, At, Owns
<1>11. ASSUME NEW a \in Attempts, Kill(a)
      PROVE  LockInv'
  BY <1>11 DEF Kill, Go
<1>12. ASSUME NEW a \in Attempts, Beat(a)
      PROVE  LockInv'
  BY <1>12 DEF Beat
<1>13. ASSUME NEW a \in Attempts, SidecarExits(a)
      PROVE  LockInv'
  BY <1>13 DEF SidecarExits
<1>14. ASSUME NEW a \in Attempts, SidecarFails(a)
      PROVE  LockInv'
  BY <1>14 DEF SidecarFails
<1>15. ASSUME NEW a \in Attempts, BecomeStale(a)
      PROVE  LockInv'
  BY <1>15 DEF BecomeStale
<1>16. ASSUME Age
      PROVE  LockInv'
  BY <1>16 DEF Age
<1>17. ASSUME NEW g \in Collectors, Scan(g)
      PROVE  LockInv'
  BY <1>17 DEF Scan, GcAt, StaleRecord
<1>18. ASSUME NEW g \in Collectors, Recheck(g)
      PROVE  LockInv'
  BY <1>18 DEF Recheck, GcAt, GcGo, GcEnd, StaleRecord
<1>19. ASSUME NEW g \in Collectors, Clean(g)
      PROVE  LockInv'
  BY <1>19 DEF Clean, GcAt, GcGo
<1>20. ASSUME NEW g \in Collectors, CleanFails(g)
      PROVE  LockInv'
  BY <1>20 DEF CleanFails, GcAt, GcEnd
<1>21. ASSUME NEW g \in Collectors, Reclaim(g)
      PROVE  LockInv'
  BY <1>21 DEF Reclaim, Write, GcAt, GcGo, GcEnd
<1>22. ASSUME NEW g \in Collectors, KillGc(g)
      PROVE  LockInv'
  BY <1>22 DEF KillGc, GcAt, GcEnd
<1>23. CASE UNCHANGED vars
  BY <1>23 DEF vars
<1> QED
  BY <1>1, <1>2, <1>3, <1>4, <1>5, <1>6, <1>7, <1>8, <1>9, <1>10, <1>11, <1>12, <1>13, <1>14, <1>15, <1>16, <1>17, <1>18, <1>19, <1>20, <1>21, <1>22, <1>23 DEF Next, AttemptStep, GcStep

LEMMA TimelyStep ==
    TypeOK /\ LockInv /\ TimelyInv /\ [Next]_vars /\ late' = 0 => TimelyInv'
<1> SUFFICES ASSUME TypeOK, LockInv, TimelyInv, [Next]_vars, late' = 0
             PROVE  TimelyInv'
  OBVIOUS
<1> USE ProcessAssumption, RecordTyped DEF TypeOK, LockInv, TimelyInv, HolderInv, CollectorInv, Beating, Locking, Collecting, NoRecord, Owns, At, OnDevice
<1>1. ASSUME NEW a \in Attempts, Publish(a)
      PROVE  TimelyInv'
  BY <1>1 DEF Publish, Write, Go, GcAt, GcGo, GcEnd, StaleRecord
<1>2. ASSUME NEW a \in Attempts, StartSidecar(a)
      PROVE  TimelyInv'
  BY <1>2 DEF StartSidecar, Write, Go, GcAt, GcGo, GcEnd, StaleRecord
<1>3. ASSUME NEW a \in Attempts, StartFails(a)
      PROVE  TimelyInv'
  BY <1>3 DEF StartFails, Write, Go, GcAt, GcGo, GcEnd, StaleRecord
<1>4. ASSUME NEW a \in Attempts, RecordDir(a)
      PROVE  TimelyInv'
  <2>1. CASE ReadRecord(a, "record", "store")
    BY <2>1 DEF ReadRecord
  <2>2. CASE ReplaceOwner(a, "store", attempt[a].read.dirs \cup {a}, "stage")
    <3>1. /\ At(a, "store") /\ lock = Nobody
          /\ UNCHANGED <<beat, sidecar, remote, lock, gc, kills, late>>
          /\ \/ ~Owns(a)
             \/ /\ Owns(a) /\ Go(a, "stage")
                /\ owner'.token = attempt[a].read.token
                /\ owner'.dirs = attempt[a].read.dirs \cup {a}
      <4>1. TypeOK
        OBVIOUS
      <4> HIDE DEF TypeOK, LockInv, TimelyInv, Owns, At, Locking, Collecting, NoRecord
      <4> QED
        BY <4>1, <2>2, BookkeepingStep
    <3>2. /\ owner'.token = a /\ owner.token = a
          /\ owner'.dirs = owner.dirs \cup {a}
          /\ Go(a, "stage")
      BY <3>1
    <3>3. \A k \in Collectors : gc[k].pc \notin Collecting
      BY <3>1
    <3>4. \A b \in Attempts : b # a => attempt'[b] = attempt[b] /\ attempt[b].pc \notin Beating
      BY <3>1, <3>2 DEF Go
    <3>5. attempt'[a].pc = "stage"
      BY <3>2 DEF Go
    <3>6. CollectorInv' /\ remote' \subseteq owner'.dirs
      BY <3>1, <3>2, <3>3
    <3>7. HolderInv'
      BY <3>1, <3>2, <3>4, <3>5
    <3> QED
      BY <3>6, <3>7
  <2> QED
    BY <1>4, <2>1, <2>2 DEF RecordDir
<1>5. ASSUME NEW a \in Attempts, ForgetDir(a)
      PROVE  TimelyInv'
  <2>1. CASE ReadRecord(a, "forget", "erase")
    BY <2>1 DEF ReadRecord
  <2>2. CASE ReplaceOwner(a, "erase", attempt[a].read.dirs \ {a}, "release")
    <3>1. /\ At(a, "erase") /\ lock = Nobody
          /\ UNCHANGED <<beat, sidecar, remote, lock, gc, kills, late>>
          /\ \/ ~Owns(a)
             \/ /\ Owns(a) /\ Go(a, "release")
                /\ owner'.token = attempt[a].read.token
                /\ owner'.dirs = attempt[a].read.dirs \ {a}
      <4>1. TypeOK
        OBVIOUS
      <4> HIDE DEF TypeOK, LockInv, TimelyInv, Owns, At, Locking, Collecting, NoRecord
      <4> QED
        BY <4>1, <2>2, BookkeepingStep
    <3>2. /\ owner'.token = a /\ owner.token = a
          /\ owner'.dirs = owner.dirs \ {a}
          /\ Go(a, "release")
      BY <3>1
    <3>3. \A k \in Collectors : gc[k].pc \notin Collecting
      BY <3>1
    <3>4. \A b \in Attempts : b # a => attempt'[b] = attempt[b] /\ attempt[b].pc \notin Beating
      BY <3>1, <3>2 DEF Go
    <3>5. attempt'[a].pc = "release"
      BY <3>2 DEF Go
    <3>6. CollectorInv' /\ remote' \subseteq owner'.dirs
      BY <3>1, <3>2, <3>3
    <3>7. HolderInv'
      BY <3>1, <3>2, <3>4, <3>5
    <3> QED
      BY <3>6, <3>7
  <2> QED
    BY <1>5, <2>1, <2>2 DEF ForgetDir
<1>6. ASSUME NEW a \in Attempts, Stage(a)
      PROVE  TimelyInv'
  BY <1>6 DEF Stage, Write, Go, GcAt, GcGo, GcEnd, StaleRecord
<1>7. ASSUME NEW a \in Attempts, EndUse(a)
      PROVE  TimelyInv'
  BY <1>7 DEF EndUse, Write, Go, GcAt, GcGo, GcEnd, StaleRecord
<1>8. ASSUME NEW a \in Attempts, Remove(a)
      PROVE  TimelyInv'
  BY <1>8 DEF Remove, Write, Go, GcAt, GcGo, GcEnd, StaleRecord
<1>9. ASSUME NEW a \in Attempts, StopSidecar(a)
      PROVE  TimelyInv'
  BY <1>9 DEF StopSidecar, Write, Go, GcAt, GcGo, GcEnd, StaleRecord
<1>10. ASSUME NEW a \in Attempts, Release(a)
      PROVE  TimelyInv'
  BY <1>10 DEF Release, Write, Go, GcAt, GcGo, GcEnd, StaleRecord
<1>11. ASSUME NEW a \in Attempts, Kill(a)
      PROVE  TimelyInv'
  <2>1. /\ UNCHANGED <<owner, beat, sidecar, remote, gc>>
        /\ attempt' = [attempt EXCEPT ![a] = [pc |-> "dead", read |-> NoRecord]]
        /\ attempt[a].pc \notin {"idle", "done", "dead"}
    BY <1>11 DEF Kill, Go
  <2>2. CollectorInv' /\ remote' \subseteq owner'.dirs
    BY <2>1
  <2>3. HolderInv'
    BY <2>1 DEF AttemptPc
  <2> QED
    BY <2>2, <2>3
<1>12. ASSUME NEW a \in Attempts, Beat(a)
      PROVE  TimelyInv'
  BY <1>12 DEF Beat, Write, Go, GcAt, GcGo, GcEnd, StaleRecord
<1>13. ASSUME NEW a \in Attempts, SidecarExits(a)
      PROVE  TimelyInv'
  BY <1>13 DEF SidecarExits, Write, Go, GcAt, GcGo, GcEnd, StaleRecord
<1>14. ASSUME NEW a \in Attempts, SidecarFails(a)
      PROVE  TimelyInv'
  BY <1>14 DEF SidecarFails, Write, Go, GcAt, GcGo, GcEnd, StaleRecord
<1>15. ASSUME NEW a \in Attempts, BecomeStale(a)
      PROVE  TimelyInv'
  BY <1>15 DEF BecomeStale, Write, Go, GcAt, GcGo, GcEnd, StaleRecord
<1>16. ASSUME Age
      PROVE  TimelyInv'
  BY <1>16 DEF Age, Write, Go, GcAt, GcGo, GcEnd, StaleRecord
<1>17. ASSUME NEW g \in Collectors, Scan(g)
      PROVE  TimelyInv'
  BY <1>17 DEF Scan, Write, Go, GcAt, GcGo, GcEnd, StaleRecord
<1>18. ASSUME NEW g \in Collectors, Recheck(g)
      PROVE  TimelyInv'
  <2>1. CASE owner = gc[g].seen /\ StaleRecord
    <3>1. /\ UNCHANGED <<owner, beat, sidecar, remote, attempt>>
          /\ lock = Nobody /\ gc' = [gc EXCEPT ![g].pc = "clean"]
      BY <1>18, <2>1 DEF Recheck, GcGo
    <3>2. owner.token \in Attempts /\ beat[owner.token] # "fresh"
      BY <2>1 DEF StaleRecord
    <3>3. /\ owner.token \notin sidecar
          /\ attempt[owner.token].pc \in {"lock", "done", "dead"}
      BY <3>1, <3>2 DEF AttemptPc
    <3>4. \A k \in Collectors : gc'[k].pc \in Collecting => k = g /\ gc'[k].pc = "clean"
      BY <3>1
    <3> QED
      BY <3>1, <3>3, <3>4
  <2>2. CASE ~(owner = gc[g].seen /\ StaleRecord)
    BY <1>18, <2>2 DEF Recheck, GcEnd
  <2> QED
    BY <2>1, <2>2
<1>19. ASSUME NEW g \in Collectors, Clean(g)
      PROVE  TimelyInv'
  BY <1>19 DEF Clean, Write, Go, GcAt, GcGo, GcEnd, StaleRecord
<1>20. ASSUME NEW g \in Collectors, CleanFails(g)
      PROVE  TimelyInv'
  BY <1>20 DEF CleanFails, Write, Go, GcAt, GcGo, GcEnd, StaleRecord
<1>21. ASSUME NEW g \in Collectors, Reclaim(g)
      PROVE  TimelyInv'
  BY <1>21 DEF Reclaim, Write, Go, GcAt, GcGo, GcEnd, StaleRecord
<1>22. ASSUME NEW g \in Collectors, KillGc(g)
      PROVE  TimelyInv'
  BY <1>22 DEF KillGc, Write, Go, GcAt, GcGo, GcEnd, StaleRecord
<1>23. CASE UNCHANGED vars
  BY <1>23 DEF vars
<1> QED
  BY <1>1, <1>2, <1>3, <1>4, <1>5, <1>6, <1>7, <1>8, <1>9, <1>10, <1>11, <1>12, <1>13, <1>14, <1>15, <1>16, <1>17, <1>18, <1>19, <1>20, <1>21, <1>22, <1>23 DEF Next, AttemptStep, GcStep

\* A late heartbeat is never taken back.
LEMMA LateStays == TypeOK /\ [Next]_vars /\ late' = 0 => late = 0
<1> SUFFICES ASSUME late \in Nat, [Next]_vars
             PROVE  late' = late \/ late' = late + 1
  BY DEF TypeOK
<1> USE DEF Publish, StartSidecar, StartFails, RecordDir, ForgetDir, ReadRecord, ReplaceOwner
<1> USE DEF Stage, EndUse, Remove, StopSidecar, Release, Kill
<1> USE DEF Beat, SidecarExits, SidecarFails, BecomeStale, Age
<1> USE DEF Scan, Recheck, Clean, CleanFails, Reclaim, KillGc
<1> QED
  BY DEF Next, AttemptStep, GcStep, vars

LEMMA InitIInv == Init => IInv
<1> SUFFICES ASSUME Init
             PROVE  IInv
  OBVIOUS
<1>1. TypeOK
  BY RecordTyped DEF Init, TypeOK, AttemptPc
<1>2. LockInv
  BY ProcessAssumption DEF Init, LockInv, Locking, Collecting, NoRecord, Owns, At
<1>3. TimelyInv
  BY DEF Init, TimelyInv, HolderInv, CollectorInv, Beating, Collecting, OnDevice
<1> QED
  BY <1>1, <1>2, <1>3 DEF IInv

LEMMA StepIInv == IInv /\ [Next]_vars => IInv'
<1> SUFFICES ASSUME IInv, [Next]_vars
             PROVE  IInv'
  OBVIOUS
<1>1. TypeOK' /\ LockInv'
  BY TypeStep, LockStep DEF IInv
<1>2. ASSUME late' = 0
      PROVE  TimelyInv'
  BY <1>2, LateStays, TimelyStep DEF IInv
<1> QED
  BY <1>1, <1>2 DEF IInv

LEMMA Inductive == Spec => []IInv
  BY InitIInv, StepIInv, PTL DEF Spec

-----------------------------------------------------------------------------
(* What the lease promises.                                                *)

\* Every variable keeps to its type: in particular a lock always has at most one
\* holder, a process that is still running or nobody.
THEOREM TypesHold == Spec => []TypeOK
<1>1. IInv => TypeOK
  BY DEF IInv
<1> QED
  BY <1>1, Inductive, PTL

\* Whoever works on the device holds its lease, from the push of its files to
\* their removal, whatever is killed and however collectors interleave with it, as
\* long as the heartbeats of live attempts are on time.
THEOREM UseIsExclusive == Spec => []ExclusiveUse
<1>1. IInv => ExclusiveUse
  BY DEF IInv, TimelyInv, HolderInv, ExclusiveUse, OnDevice, Beating
<1> QED
  BY <1>1, Inductive, PTL

\* So no two attempts work on the device at once.
THEOREM OneAtATime ==
    Spec => [](late = 0 =>
                  \A a, b \in Attempts : OnDevice(a) /\ OnDevice(b) => a = b)
<1>1. ExclusiveUse =>
         (late = 0 => \A a, b \in Attempts : OnDevice(a) /\ OnDevice(b) => a = b)
  BY DEF ExclusiveUse, Owns
<1> QED
  BY <1>1, UseIsExclusive, PTL

\* A directory on the device is named by the owner record, before it is made and
\* until it is gone, through every crash and every failure of adb.
THEOREM DirsAreRecorded == Spec => []DirsRecorded
<1>1. IInv => DirsRecorded
  BY DEF IInv, TimelyInv, DirsRecorded
<1> QED
  BY <1>1, Inductive, PTL

\* The heartbeat of a dead attempt is named by the owner record, so that the
\* collector finds it.
THEOREM BeatsAreReferenced == Spec => []BeatsReferenced
<1>1. IInv => BeatsReferenced
  BY DEF IInv, TypeOK, TimelyInv, HolderInv, BeatsReferenced, At
<1> QED
  BY <1>1, Inductive, PTL

\* What a step of an attempt does to the owner file, and to the others.
LEMMA OwnRecordOnly ==
    ASSUME TypeOK, LockInv, NEW a \in Attempts, AttemptStep(a) \/ Kill(a),
           NEW b \in Attempts, a # b
    PROVE  /\ attempt'[b] = attempt[b]
           /\ Owns(b) => owner' = owner
<1> USE DEF TypeOK, Go, Owns, At
<1>1. CASE Publish(a)
  BY <1>1, ProcessAssumption DEF Publish, NoRecord
<1>2. CASE StartFails(a) \/ Release(a)
  BY <1>2 DEF StartFails, Release, LockInv, Locking
<1>3. CASE RecordDir(a) \/ ForgetDir(a)
  BY <1>3 DEF RecordDir, ForgetDir, ReadRecord, ReplaceOwner
<1>4. CASE StartSidecar(a) \/ Stage(a) \/ EndUse(a) \/ Remove(a) \/ StopSidecar(a) \/ Kill(a)
  BY <1>4 DEF StartSidecar, Stage, EndUse, Remove, StopSidecar, Kill
<1> QED
  BY <1>1, <1>2, <1>3, <1>4 DEF AttemptStep

\* No other step is a step of an attempt.
LEMMA OthersStand ==
    ASSUME NEW a \in Attempts,
           \/ Beat(a) \/ SidecarExits(a) \/ SidecarFails(a) \/ BecomeStale(a)
           \/ Age
           \/ \E g \in Collectors : GcStep(g) \/ CleanFails(g) \/ KillGc(g)
           \/ UNCHANGED vars
    PROVE  attempt' = attempt
<1> USE DEF Beat, SidecarExits, SidecarFails, BecomeStale, Age
<1> USE DEF Scan, Recheck, Clean, CleanFails, Reclaim, KillGc, GcStep, vars
<1> QED
  OBVIOUS

\* An attempt leaves a record that is not its own alone, also when heartbeats are
\* late and its lease has been reclaimed and given to somebody else.
THEOREM OthersAreUntouched == Spec => OthersUntouched
<1>1. ASSUME TypeOK, LockInv, [Next]_vars, NEW a \in Attempts, NEW b \in Attempts,
             a # b, attempt'[a] # attempt[a], Owns(b)
      PROVE  owner' = owner
  <2>1. PICK c \in Attempts : AttemptStep(c) \/ Kill(c)
    <3>1. CASE \E c \in Attempts : AttemptStep(c) \/ Kill(c)
      BY <3>1
    <3>2. CASE \E c \in Attempts : Beat(c) \/ SidecarExits(c) \/ SidecarFails(c) \/ BecomeStale(c)
      BY <1>1, <3>2, OthersStand
    <3>3. CASE Age \/ \E g \in Collectors : GcStep(g) \/ CleanFails(g) \/ KillGc(g)
      BY <1>1, <3>3, OthersStand
    <3>4. CASE UNCHANGED vars
      BY <1>1, <3>4, OthersStand
    <3> QED
      BY <1>1, <3>1, <3>2, <3>3, <3>4 DEF Next
  <2>2. c = a
    BY <1>1, <2>1, OwnRecordOnly
  <2> QED
    BY <1>1, <2>1, <2>2, OwnRecordOnly
<1>2. IInv /\ [Next]_vars =>
         [\A a, b \in Attempts :
             a # b /\ attempt'[a] # attempt[a] /\ Owns(b) => owner' = owner]_vars
  BY <1>1 DEF IInv
<1> QED
  BY <1>2, Inductive, PTL DEF Spec, OthersUntouched
=============================================================================
