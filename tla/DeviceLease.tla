---------------------------- MODULE DeviceLease -----------------------------
(***************************************************************************)
(* The lease on one ADB device (device/lease.py), the staged attempts that *)
(* run under it (device/runtime.py, device/adb.py) and its garbage         *)
(* collector (device/doctor.py).                                           *)
(*                                                                         *)
(* An attempt publishes the owner file without clobbering, starts a        *)
(* sidecar that beats for it, records its remote directory in the owner    *)
(* file, works in the directory, removes it, forgets it and releases.      *)
(* Attempts, sidecars and collectors are processes and may be killed; adb  *)
(* commands may fail.  A collector reclaims a lease whose heartbeat is     *)
(* stale.  Mutations are made under one flock per device, which dies with  *)
(* its holder; scans and the first read of a bookkeeping update are not.   *)
(***************************************************************************)
EXTENDS Naturals, FiniteSets

CONSTANTS
    Attempts,    \* stage attempts; also their owner tokens and directories
    Collectors,  \* processes that run `device gc`
    Nobody,      \* no owner, no lock holder
    MaxKills,    \* bound: processes killed
    MaxLate      \* bound: heartbeats of a live attempt that stop or are late

ASSUME ProcessAssumption ==
    /\ Attempts \cap Collectors = {}
    /\ Nobody \notin Attempts \cup Collectors

ASSUME BoundAssumption == MaxKills \in Nat /\ MaxLate \in Nat

VARIABLES
    owner,     \* <digest>.json: the owner record of the device, its token and
               \* directories; rev counts its writes, for two records that are
               \* equal otherwise still differ in the CAS token
    aged,      \* the owner file is older than the grace period
    beat,      \* the heartbeat file of each attempt
    sidecar,   \* the attempts whose heartbeat process runs
    remote,    \* the attempt directories that exist on the device
    lock,      \* holder of .<digest>.gc.lock
    attempt,   \* each attempt's next statement, and the record it has read
    gc,        \* each collector's next statement, and the record it has seen
    kills, late

vars == <<owner, aged, beat, sidecar, remote, lock, attempt, gc, kills, late>>

NoRecord == [token |-> Nobody, dirs |-> {}, rev |-> 0]

Init ==
    /\ owner = NoRecord
    /\ aged = FALSE
    /\ beat = [a \in Attempts |-> "none"]
    /\ sidecar = {}
    /\ remote = {}
    /\ lock = Nobody
    /\ attempt = [a \in Attempts |-> [pc |-> "idle", read |-> NoRecord]]
    /\ gc = [g \in Collectors |-> [pc |-> "idle", seen |-> NoRecord]]
    /\ kills = 0
    /\ late = 0

-----------------------------------------------------------------------------
(* The lease and the attempt that holds it.                                *)

At(a, here) == attempt[a].pc = here

Go(a, next) ==
    attempt' = [attempt EXCEPT ![a] = [pc |-> next, read |-> NoRecord]]

Owns(a) == owner.token = a

\* An atomic replacement of the owner file.
Write(record) ==
    /\ owner' = record
    /\ aged' = FALSE

\* acquire: _publish_noclobber, under the lock that it keeps.
Publish(a) ==
    /\ At(a, "idle")
    /\ lock = Nobody
    /\ IF owner = NoRecord
       THEN /\ Write([token |-> a, dirs |-> {}, rev |-> 0])
            /\ lock' = a
            /\ Go(a, "start")
       ELSE /\ Go(a, "done")
            /\ UNCHANGED <<owner, aged, lock>>
    /\ UNCHANGED <<beat, sidecar, remote, gc, kills, late>>

\* acquire: the heartbeat file, the sidecar, and its first beat.
StartSidecar(a) ==
    /\ At(a, "start")
    /\ beat' = [beat EXCEPT ![a] = "fresh"]
    /\ sidecar' = sidecar \cup {a}
    /\ lock' = Nobody
    /\ Go(a, "record")
    /\ UNCHANGED <<owner, aged, remote, gc, kills, late>>

\* acquire: the sidecar exits or is not ready in time; what was published is
\* taken back, the heartbeat first.
StartFails(a) ==
    /\ \/ /\ At(a, "start")
          /\ beat' = [beat EXCEPT ![a] = "none"]
          /\ Go(a, "abandon")
          /\ UNCHANGED <<owner, aged, lock>>
       \/ /\ At(a, "abandon")
          /\ Write(NoRecord)
          /\ lock' = Nobody
          /\ Go(a, "done")
          /\ UNCHANGED beat
    /\ UNCHANGED <<sidecar, remote, gc, kills, late>>

\* record_attempt_dir and forget_attempt_dir read the record without the lock.
ReadRecord(a, here, next) ==
    /\ At(a, here)
    /\ attempt' = [attempt EXCEPT
          ![a] = [pc |-> IF Owns(a) THEN next ELSE "release",
                  read |-> IF Owns(a) THEN owner ELSE NoRecord]]
    /\ UNCHANGED <<owner, aged, beat, sidecar, remote, lock, gc, kills, late>>

\* _replace_owner: under the lock, if the record is still this attempt's.
ReplaceOwner(a, here, dirs, next) ==
    /\ At(a, here)
    /\ lock = Nobody
    /\ IF Owns(a)
       THEN /\ Write([attempt[a].read EXCEPT !.dirs = dirs, !.rev = @ + 1])
            /\ Go(a, next)
       ELSE /\ Go(a, "release")
            /\ UNCHANGED <<owner, aged>>
    /\ UNCHANGED <<beat, sidecar, remote, lock, gc, kills, late>>

RecordDir(a) ==
    \/ ReadRecord(a, "record", "store")
    \/ ReplaceOwner(a, "store", attempt[a].read.dirs \cup {a}, "stage")

ForgetDir(a) ==
    \/ ReadRecord(a, "forget", "erase")
    \/ ReplaceOwner(a, "erase", attempt[a].read.dirs \ {a}, "release")

\* stage_attempt: mkdir -p, then the pushes with their digests and the move to
\* ready.  adb or a digest may fail at any of them, before or after its effect;
\* a bad file name fails before any of them, and nothing is cleaned up.
Stage(a) ==
    /\ At(a, "stage")
    /\ \/ a \notin remote /\ remote' = remote \cup {a} /\ UNCHANGED attempt
       \/ a \notin remote /\ Go(a, "release") /\ UNCHANGED remote
       \/ a \in remote /\ Go(a, "use") /\ UNCHANGED remote
       \/ Go(a, "remove") /\ UNCHANGED remote
    /\ UNCHANGED <<owner, aged, beat, sidecar, lock, gc, kills, late>>

\* The caller's work on the device ends, well or badly.
EndUse(a) ==
    /\ At(a, "use")
    /\ Go(a, "remove")
    /\ UNCHANGED <<owner, aged, beat, sidecar, remote, lock, gc, kills, late>>

\* Fault: the directory is forgotten whether or not it could be removed.
RemoveAndForget(a) ==
    /\ At(a, "remove")
    /\ Go(a, "forget")
    /\ remote' \in {remote, remote \ {a}}
    /\ UNCHANGED <<owner, aged, beat, sidecar, lock, gc, kills, late>>

\* stage_attempt's finally: remove_exact, then the confirmation.  When adb
\* fails, with its effect or without, the confirmation is skipped.
Remove(a) ==
    /\ At(a, "remove")
    /\ \/ Go(a, "forget") /\ remote' = remote \ {a}
       \/ Go(a, "release") /\ remote' \in {remote, remote \ {a}}
    /\ UNCHANGED <<owner, aged, beat, sidecar, lock, gc, kills, late>>

\* release: the sidecar is stopped before the lock is taken.
StopSidecar(a) ==
    /\ At(a, "release")
    /\ sidecar' = sidecar \ {a}
    /\ Go(a, "lock")
    /\ UNCHANGED <<owner, aged, beat, remote, lock, gc, kills, late>>

\* Fault: release does not look whose record it removes.
ReleaseAny(a) ==
    /\ \/ /\ At(a, "lock")
          /\ lock = Nobody
          /\ beat' = [beat EXCEPT ![a] = "none"]
          /\ lock' = a
          /\ Go(a, "unlink")
          /\ UNCHANGED <<owner, aged>>
       \/ /\ At(a, "unlink")
          /\ Write(NoRecord)
          /\ lock' = Nobody
          /\ Go(a, "done")
          /\ UNCHANGED beat
    /\ UNCHANGED <<sidecar, remote, gc, kills, late>>

\* Fault: the record goes first.
ReleaseOwnerFirst(a) ==
    /\ \/ /\ At(a, "lock")
          /\ lock = Nobody
          /\ Owns(a) /\ owner.dirs = {}
          /\ Write(NoRecord)
          /\ lock' = a
          /\ Go(a, "unlink")
          /\ UNCHANGED beat
       \/ /\ At(a, "lock")
          /\ lock = Nobody
          /\ ~(Owns(a) /\ owner.dirs = {})
          /\ beat' = IF Owns(a) THEN beat ELSE [beat EXCEPT ![a] = "none"]
          /\ Go(a, "done")
          /\ UNCHANGED <<owner, aged, lock>>
       \/ /\ At(a, "unlink")
          /\ beat' = [beat EXCEPT ![a] = "none"]
          /\ lock' = Nobody
          /\ Go(a, "done")
          /\ UNCHANGED <<owner, aged>>
    /\ UNCHANGED <<sidecar, remote, gc, kills, late>>

\* release, under the lock.  The record of this attempt is removed when it
\* names no directory, the heartbeat first; of another attempt's nothing is
\* touched.
Release(a) ==
    /\ \/ /\ At(a, "lock")
          /\ lock = Nobody
          /\ IF Owns(a) /\ owner.dirs # {}
             THEN UNCHANGED beat
             ELSE beat' = [beat EXCEPT ![a] = "none"]
          /\ IF Owns(a) /\ owner.dirs = {}
             THEN Go(a, "unlink") /\ lock' = a
             ELSE Go(a, "done") /\ UNCHANGED lock
          /\ UNCHANGED <<owner, aged>>
       \/ /\ At(a, "unlink")
          /\ Write(NoRecord)
          /\ lock' = Nobody
          /\ Go(a, "done")
          /\ UNCHANGED beat
    /\ UNCHANGED <<sidecar, remote, gc, kills, late>>

AttemptStep(a) ==
    \/ Publish(a) \/ StartSidecar(a) \/ StartFails(a)
    \/ RecordDir(a) \/ Stage(a) \/ EndUse(a) \/ Remove(a)
    \/ ForgetDir(a) \/ StopSidecar(a) \/ Release(a)

\* An attempt's process dies, at any statement; its flock dies with it and
\* its sidecar will notice.
Kill(a) ==
    /\ attempt[a].pc \notin {"idle", "done", "dead"}
    /\ kills < MaxKills
    /\ kills' = kills + 1
    /\ Go(a, "dead")
    /\ lock' = IF lock = a THEN Nobody ELSE lock
    /\ UNCHANGED <<owner, aged, beat, sidecar, remote, gc, late>>

-----------------------------------------------------------------------------
(* Heartbeats and time.                                                    *)

\* The sidecar writes its file, and makes it again if somebody removed it.
Beat(a) ==
    /\ a \in sidecar
    /\ beat[a] # "fresh"
    /\ beat' = [beat EXCEPT ![a] = "fresh"]
    /\ UNCHANGED <<owner, aged, sidecar, remote, lock, attempt, gc, kills, late>>

\* Fault: the sidecar does not look after its parent.
SidecarStays(a) ==
    /\ a \in sidecar
    /\ At(a, "done")
    /\ sidecar' = sidecar \ {a}
    /\ UNCHANGED <<owner, aged, beat, remote, lock, attempt, gc, kills, late>>

\* The sidecar of a process that has died finds another parent.
SidecarExits(a) ==
    /\ a \in sidecar
    /\ At(a, "dead")
    /\ sidecar' = sidecar \ {a}
    /\ UNCHANGED <<owner, aged, beat, remote, lock, attempt, gc, kills, late>>

\* A sidecar is suspended past stale_after, or cannot write its file and
\* exits: nobody looks after it once it was ready.
SidecarFails(a) ==
    /\ a \in sidecar
    /\ late < MaxLate
    /\ late' = late + 1
    /\ \/ beat' = [beat EXCEPT ![a] = "stale"] /\ UNCHANGED sidecar
       \/ sidecar' = sidecar \ {a} /\ UNCHANGED beat
    /\ UNCHANGED <<owner, aged, remote, lock, attempt, gc, kills>>

\* A heartbeat file that nobody writes gets older than stale_after.
BecomeStale(a) ==
    /\ beat[a] = "fresh"
    /\ a \notin sidecar
    /\ beat' = [beat EXCEPT ![a] = "stale"]
    /\ UNCHANGED <<owner, aged, sidecar, remote, lock, attempt, gc, kills, late>>

\* The grace period of the owner file passes.
Age ==
    /\ owner # NoRecord
    /\ ~aged
    /\ aged' = TRUE
    /\ UNCHANGED <<owner, beat, sidecar, remote, lock, attempt, gc, kills, late>>

-----------------------------------------------------------------------------
(* The collector.                                                          *)

GcAt(g, here) == gc[g].pc = here

GcGo(g, next) == gc' = [gc EXCEPT ![g].pc = next]

GcEnd(g) == gc' = [gc EXCEPT ![g] = [pc |-> "idle", seen |-> NoRecord]]

\* lease_snapshot: a record whose heartbeat is stale, or missing after the
\* grace period.
StaleRecord ==
    /\ owner # NoRecord
    /\ IF beat[owner.token] = "none" THEN aged ELSE beat[owner.token] = "stale"

\* scan_stale_lease_snapshots, without the lock.
Scan(g) ==
    /\ GcAt(g, "idle")
    /\ StaleRecord
    /\ gc' = [gc EXCEPT ![g] = [pc |-> "scanned", seen |-> owner]]
    /\ UNCHANGED <<owner, aged, beat, sidecar, remote, lock, attempt, kills, late>>

\* Fault: what was stale when it was scanned is collected.
RecheckNothing(g) ==
    /\ GcAt(g, "scanned")
    /\ lock = Nobody
    /\ owner # NoRecord
    /\ lock' = g
    /\ GcGo(g, "clean")
    /\ UNCHANGED <<owner, aged, beat, sidecar, remote, attempt, kills, late>>

\* device_gc under the lock: the record must still be the one scanned, and
\* stale.
Recheck(g) ==
    /\ GcAt(g, "scanned")
    /\ lock = Nobody
    /\ IF owner = gc[g].seen /\ StaleRecord
       THEN lock' = g /\ GcGo(g, "clean")
       ELSE GcEnd(g) /\ UNCHANGED lock
    /\ UNCHANGED <<owner, aged, beat, sidecar, remote, attempt, kills, late>>

\* remove_exact of the recorded directories.
Clean(g) ==
    /\ GcAt(g, "clean")
    /\ remote' = remote \ owner.dirs
    /\ GcGo(g, "unbeat")
    /\ UNCHANGED <<owner, aged, beat, sidecar, lock, attempt, kills, late>>

\* adb fails, with its effect or without: device_gc raises, the record stays.
CleanFails(g) ==
    /\ GcAt(g, "clean")
    /\ owner.dirs # {}
    /\ remote' \in {remote, remote \ owner.dirs}
    /\ lock' = Nobody
    /\ GcEnd(g)
    /\ UNCHANGED <<owner, aged, beat, sidecar, attempt, kills, late>>

\* The heartbeat file is unlinked, then the owner file.
Reclaim(g) ==
    /\ \/ /\ GcAt(g, "unbeat")
          /\ beat' = [beat EXCEPT ![owner.token] = "none"]
          /\ GcGo(g, "unlink")
          /\ UNCHANGED <<owner, aged, lock>>
       \/ /\ GcAt(g, "unlink")
          /\ Write(NoRecord)
          /\ lock' = Nobody
          /\ GcEnd(g)
          /\ UNCHANGED beat
    /\ UNCHANGED <<sidecar, remote, attempt, kills, late>>

GcStep(g) == Scan(g) \/ Recheck(g) \/ Clean(g) \/ Reclaim(g)

\* A collector is killed; the next one starts from the files.
KillGc(g) ==
    /\ ~GcAt(g, "idle")
    /\ kills < MaxKills
    /\ kills' = kills + 1
    /\ GcEnd(g)
    /\ lock' = IF lock = g THEN Nobody ELSE lock
    /\ UNCHANGED <<owner, aged, beat, sidecar, remote, attempt, late>>

Next ==
    \/ \E a \in Attempts :
          \/ AttemptStep(a) \/ Kill(a)
          \/ Beat(a) \/ SidecarExits(a) \/ SidecarFails(a) \/ BecomeStale(a)
    \/ Age
    \/ \E g \in Collectors : GcStep(g) \/ CleanFails(g) \/ KillGc(g)

Spec == Init /\ [][Next]_vars

\* Attempts run on once they hold the lease, sidecars beat and look after
\* their parents, time passes, and `device gc` is run again and again, with
\* adb working now and then.
Fairness ==
    /\ \A a \in Attempts :
          /\ WF_vars(AttemptStep(a) /\ ~At(a, "idle"))
          /\ WF_vars(Beat(a)) /\ WF_vars(SidecarExits(a))
          /\ WF_vars(BecomeStale(a))
    /\ WF_vars(Age)
    /\ SF_vars(\E g \in Collectors : GcStep(g))
    /\ SF_vars(\E g \in Collectors : Clean(g))

FairSpec == Spec /\ Fairness

-----------------------------------------------------------------------------
(* Properties.                                                             *)

\* The attempt works on the device, or is about to.
OnDevice(a) == attempt[a].pc \in {"stage", "use", "remove"}

\* docs/native-workflow.md: the lease prevents concurrent use of the device.
\* Whoever works on it holds the lease to the end, also against a collector
\* that has scanned a lease which changed hands since.  It rests on the
\* heartbeat of a live attempt being on time.
ExclusiveUse == late = 0 => \A a \in Attempts : OnDevice(a) => Owns(a)

\* runtime.py: a directory on the device is never without its recovery
\* pointer, whatever process is killed and whatever adb command fails.
DirsRecorded == late = 0 => remote \subseteq owner.dirs

\* release: "cannot leave an unreferenced heartbeat".  A heartbeat file is
\* named by the owner record, or its attempt lives and will remove it.
BeatsReferenced ==
    late = 0 =>
        \A a \in Attempts : beat[a] # "none" => Owns(a) \/ ~At(a, "dead")

\* An attempt changes or removes no record but its own, even when its lease
\* was reclaimed under it and the device is leased to another attempt.
OthersUntouched ==
    [][\A a, b \in Attempts :
          a # b /\ attempt'[a] # attempt[a] /\ Owns(b)
          => owner' = owner]_vars

\* A device whose attempt was killed becomes available again.
Reclaimed ==
    \A a \in Attempts : At(a, "dead") /\ Owns(a) ~> ~Owns(a)
=============================================================================
