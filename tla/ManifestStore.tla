---------------------------- MODULE ManifestStore ----------------------------
(***************************************************************************)
(* The manifest store, src/qairt_agent/artifacts.py: one immutable file    *)
(* per manifest revision, named after its run, its revision number and the *)
(* digest of its content.                                                  *)
(*                                                                         *)
(* The digest is abstracted to the process that published the revision:    *)
(* manifests carry timestamps, so two processes never publish the same     *)
(* bytes.  Build specs, artifacts and metadata other than the fork source  *)
(* are left out.                                                           *)
(***************************************************************************)
EXTENDS Naturals, Sequences, FiniteSetsExt

CONSTANTS
    Runs,        \* run ids
    Publishers,  \* processes that publish, standing for content digests
    StageNames,
    Configs,     \* stage configurations
    NoRef        \* no manifest reference

VARIABLE store   \* the set of published revisions

\* ArtifactRef of a manifest: its path and digest.
Ref == [run : Runs, rev : Nat, by : Publishers]

\* StageRecord: one attempt at a stage.  metrics.stage_key is a hash of the
\* stage, its configuration and the input manifest.
Entry == [name : StageNames, cfg : Configs, attempt : Nat, ok : BOOLEAN]

\* RunManifest.
Manifest == [run : Runs, rev : Nat, by : Publishers,
             parent : Ref \cup {NoRef}, source : Ref \cup {NoRef},
             log : Seq(Entry)]

\* NoRef is neither a reference nor the history of a run.
ASSUME NoRefAssumption == NoRef \notin Ref /\ NoRef \notin Seq(Entry)

RefOf(m) == [run |-> m.run, rev |-> m.rev, by |-> m.by]

Published == {RefOf(m) : m \in store}

\* ManifestStore.load of a reference that verifies.
Load(ref) == CHOOSE m \in store : RefOf(m) = ref

\* RunManifest.validate_revision_chain.
Valid(m) ==
    /\ m.rev = 0 <=> m.parent = NoRef
    /\ \A i, j \in DOMAIN m.log :
          m.log[i].name = m.log[j].name /\ m.log[i].attempt = m.log[j].attempt
             => i = j

\* The parent must be the preceding revision of the same run ...
FollowsParent(m) ==
    m.parent # NoRef =>
       /\ m.parent \in Published
       /\ m.parent.run = m.run
       /\ m.parent.rev + 1 = m.rev

\* ... and nothing else may be published as this revision of this run.
Conflicts(m) == \E x \in store : x.run = m.run /\ x.rev = m.rev /\ x # m

\* ManifestStore.publish: both checks and the rename happen under the lock
\* file of the revision.
Publish(m) ==
    /\ Valid(m)
    /\ FollowsParent(m)
    /\ ~Conflicts(m)
    /\ store' = store \cup {m}

\* ManifestStore.create: revision 0 of a run whose id was never used.
NewRuns == Runs \ {m.run : m \in store}

Created(run, by) ==
    [run |-> run, rev |-> 0, by |-> by, parent |-> NoRef, source |-> NoRef,
     log |-> <<>>]

\* Fault: the new stage replaces earlier attempts at it.
RevisedReplacing(ref, entry, by) ==
    LET Other(e) == e.name # entry.name
    IN  [run |-> ref.run, rev |-> ref.rev + 1, by |-> by, parent |-> ref,
         source |-> Load(ref).source,
         log |-> Append(SelectSeq(Load(ref).log, Other), entry)]

\* ManifestStore.revise: the next revision, with one more stage.
Revised(ref, entry, by) ==
    [run |-> ref.run, rev |-> ref.rev + 1, by |-> by, parent |-> ref,
     source |-> Load(ref).source, log |-> Append(Load(ref).log, entry)]

\* ManifestStore.fork_snapshot: revision 0 of a new run with the stages of the
\* source; the source run is not touched.
Snapshot(ref, run, by) ==
    [run |-> run, rev |-> 0, by |-> by, parent |-> NoRef, source |-> ref,
     log |-> Load(ref).log]

\* QairtAgent._published_child looks for revisions whose parent is `ref`.
Children(ref) == {m \in store : m.parent = ref}

\* QairtAgent._attempt, also _manifest_attempt_floor: one more than the largest
\* attempt at the stage that the manifest records.
NextAttempt(ref, name) ==
    LET log == Load(ref).log
    IN  1 + Max({0} \cup {log[i].attempt :
                            i \in {j \in DOMAIN log : log[j].name = name}})

LastEntry(m) == m.log[Len(m.log)]

-----------------------------------------------------------------------------
=============================================================================
