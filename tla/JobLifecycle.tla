---------------------------- MODULE JobLifecycle ----------------------------
(***************************************************************************)
(* The processes around one job: the launcher that submits or resumes it   *)
(* (cli.py), the detached worker it spawns (agent.py execute, worker.py    *)
(* run), a client that cancels it and the helper that beats for it.  All   *)
(* of them reach the job through the journal's methods, so every change of *)
(* a journal file is an action of JobJournal, whose variables these are.   *)
(*                                                                         *)
(* A launcher is one invocation of `job submit` or `job resume`:           *)
(*   none -> spawn -> await <-> poll -> returned                           *)
(*                                   -> stop -> fail -> raising -> raised  *)
(* A worker is one process:                                                *)
(*   none -> execute -> clear -> lease -> claim -> staging -> running ->   *)
(*   load -> check -> begin -> work -> publish -> publishing -> check ...  *)
(*   -> collecting -> committing -> succeed -> ending -> returned          *)
(* It stands at the statement it will execute next, once the journal call  *)
(* it has made, if any, is over.                                           *)
(***************************************************************************)
EXTENDS Naturals, FiniteSets

CONSTANTS
    Launchers,   \* invocations of the command line or of the MCP server
    Workers,     \* worker processes
    Cancellers,  \* clients that cancel the job once
    Helper,      \* the heartbeat helper process
    NoClient,    \* "nobody"
    LastStage,   \* the stages of the job are 1 .. LastStage
    MaxEvents,   \* bound: event files of the job
    MaxKills     \* bound: workers killed from outside

ASSUME ProcessAssumption ==
    /\ Launchers \cap Workers = {} /\ Cancellers \cap (Launchers \cup Workers) = {}
    /\ Helper \notin Launchers \cup Workers \cup Cancellers
    /\ NoClient \notin Launchers \cup Workers \cup Cancellers \cup {Helper}

ASSUME StageAssumption == LastStage \in Nat \ {0}

ASSUME BoundAssumption == MaxEvents \in Nat

VARIABLES
    dir, status, events, files, cancel, lock, call,  \* of the journal
    worker,   \* each worker's next statement, and the state that
              \* ManifestPublisher.commit has seen
    launch,   \* each launcher's next statement, and its child
    lease,    \* holder of .worker.lock
    stale,    \* the newest heartbeat is older than heartbeat_stale_after
    asked,    \* the cancellers that have called request_cancel
    kills     \* number of workers killed so far

journal == <<dir, status, events, files, cancel, lock, call>>
processes == <<worker, launch, lease, stale, asked, kills>>
vars == <<journal, processes>>

Clients == Launchers \cup Workers \cup Cancellers \cup {Helper}

Stages == 1..LastStage
NoStage == 0

AnyState == {"QUEUED", "STAGING", "RUNNING", "COLLECTING", "COMMITTING",
             "SUCCEEDED", "FAILED", "CANCELLED", "ORPHANED"}

\* A receipt file is named after its stage and attempt; every worker makes a
\* new attempt.  The manifest a stage publishes is named after the stage.
\* Heartbeats are times in JobJournal; here only their being stale matters.
J == INSTANCE JobJournal WITH
    Beater <- Helper, Slots <- Stages \X Workers,
    Bodies <- {"succeeded", "failed"},
    Manifests <- Stages, NoManifest <- NoStage,
    Payloads <- {"stage_started", "stage_reused"},
    SetStates <- AnyState, MaxTime <- 1, beatFile <- 0, now <- 1

Terminal == J!Terminal
InFlight == J!InFlight

\* What process.poll() reports as exited.
Exited(p) == worker[p].pc \in {"returned", "error", "dead"}

\* The worker has a heartbeat helper: it is inside run()'s with block.
Executing(p) ==
    worker[p].pc \in {"staging", "running", "load", "check", "begin", "work",
                      "publish", "publishing", "fail", "collecting",
                      "committing", "succeed", "ending", "recover", "lastTry"}

Init ==
    /\ J!Init
    /\ worker = [p \in Workers |->
                   [pc |-> "none", stage |-> 1, manifest |-> NoStage,
                    seen |-> "QUEUED"]]
    /\ launch = [l \in Launchers |->
                   [pc |-> "none", child |-> NoClient, expired |-> FALSE]]
    /\ lease = NoClient
    /\ stale = FALSE
    /\ asked = {}
    /\ kills = 0

-----------------------------------------------------------------------------
(* The worker process.                                                     *)

\* p has finished its journal call and goes on from `here` to `next`.
Moves(p, here, next) ==
    /\ worker[p].pc = here
    /\ call[p] = J!Idle
    /\ worker' = [worker EXCEPT ![p].pc = next]

\* p leaves run(), which releases the lease.
Leaves(p, here, how) ==
    /\ Moves(p, here, how)
    /\ lease' = NoClient

\* _assert_resumable, when it returns True.
Resumable ==
    \/ status.st \in {"QUEUED", "ORPHANED"}
    \/ status.st \in InFlight /\ stale

\* execute: the process starts, and looks whether there is work to do.
Execute(p) ==
    /\ Moves(p, "execute",
             IF status.st = "SUCCEEDED" THEN "returned"
             ELSE IF Resumable THEN "clear" ELSE "error")
    /\ UNCHANGED <<journal, launch, lease, stale, asked, kills>>

\* execute: the cancel flag is cleared, whoever has set it.
ClearFlag(p) ==
    /\ Moves(p, "clear", "lease")
    /\ J!ClearCancel(p)
    /\ UNCHANGED <<launch, lease, stale, asked, kills>>

\* Fault: a lease that does not exclude.
TakeLeaseAnyway(p) ==
    /\ Moves(p, "lease", "claim")
    /\ lease' = p
    /\ UNCHANGED <<journal, launch, stale, asked, kills>>

\* run: worker_lease, without waiting.
TakeLease(p) ==
    /\ IF lease = NoClient
       THEN Moves(p, "lease", "claim") /\ lease' = p
       ELSE Moves(p, "lease", "error") /\ UNCHANGED lease
    /\ UNCHANGED <<journal, launch, stale, asked, kills>>

\* run under the lease: mark_orphaned_if_stale, then the two refusals.
Claim(p) ==
    /\ \/ /\ status.st \in Terminal
          /\ Leaves(p, "claim", "returned")
          /\ UNCHANGED journal
       \/ /\ status.st \in InFlight /\ ~stale
          /\ Leaves(p, "claim", "error")
          /\ UNCHANGED journal
       \/ /\ status.st \in InFlight /\ stale
          /\ Moves(p, "claim", "staging")
          /\ J!SetState(p, "ORPHANED", NoStage)
          /\ UNCHANGED lease
       \/ /\ status.st \in {"QUEUED", "ORPHANED"}
          /\ Moves(p, "claim", "staging")
          /\ UNCHANGED <<journal, lease>>
    /\ UNCHANGED <<launch, stale, asked, kills>>

\* set_state(s), the statement at `here`.
Sets(p, here, s, m, next) ==
    /\ Moves(p, here, next)
    /\ J!SetState(p, s, m)
    /\ UNCHANGED <<launch, lease, stale, asked, kills>>

\* _run_claimed: the states a worker sets one after the other.
Advance(p) ==
    \/ Sets(p, "staging", "STAGING", NoStage, "running")
    \/ Sets(p, "running", "RUNNING", NoStage, "load")
    \/ Sets(p, "collecting", "COLLECTING", NoStage, "committing")
    \/ Sets(p, "committing", "COMMITTING", NoStage, "succeed")
    \/ Sets(p, "succeed", "SUCCEEDED", worker[p].manifest, "ending")
    \/ Sets(p, "fail", "FAILED", NoStage, "ending")

\* _run_claimed starts from the manifest on file.
LoadManifest(p) ==
    /\ worker[p].pc = "load"
    /\ call[p] = J!Idle
    /\ worker' = [worker EXCEPT ![p].pc = "check",
                                ![p].manifest = status.manifest]
    /\ UNCHANGED <<journal, launch, lease, stale, asked, kills>>

\* The head of the stage loop: a requested cancel is served here only.
CheckCancel(p) ==
    /\ IF worker[p].stage > LastStage
       THEN Moves(p, "check", "collecting") /\ UNCHANGED journal
       ELSE IF cancel
       THEN Moves(p, "check", "ending") /\ J!SetState(p, "CANCELLED", NoStage)
       ELSE Moves(p, "check", "begin") /\ UNCHANGED journal
    /\ UNCHANGED <<launch, lease, stale, asked, kills>>

\* receipt_for_stage_key: some attempt at the stage has succeeded.
Verified(stage) ==
    \E q \in Workers : [slot |-> <<stage, q>>, body |-> "succeeded"] \in files

\* A stage with a verified receipt is reused, another one is started.
BeginStage(p) ==
    /\ IF Verified(worker[p].stage)
       THEN /\ Moves(p, "begin", "publish")
            /\ J!AppendEvent(p, "stage_reused")
       ELSE /\ Moves(p, "begin", "work")
            /\ J!AppendEvent(p, "stage_started")
    /\ UNCHANGED <<launch, lease, stale, asked, kills>>

\* Deriving the stage key verifies the manifest's file, which may fail.
KeyFails(p) ==
    /\ Moves(p, "begin", "recover")
    /\ UNCHANGED <<journal, launch, lease, stale, asked, kills>>

\* The stage runner ends, well or badly, and the receipt is recorded.
EndStage(p) ==
    /\ \E body \in {"succeeded", "failed"} :
          /\ Moves(p, "work", IF body = "failed" THEN "fail" ELSE "publish")
          /\ J!RecordReceipt(p, [slot |-> <<worker[p].stage, p>>,
                                 body |-> body])
    /\ UNCHANGED <<launch, lease, stale, asked, kills>>

\* ManifestPublisher.commit reads the state ...
ReadToPublish(p) ==
    /\ worker[p].pc = "publish"
    /\ call[p] = J!Idle
    /\ worker' = [worker EXCEPT ![p].pc = "publishing", ![p].seen = status.st]
    /\ UNCHANGED <<journal, launch, lease, stale, asked, kills>>

\* ... and sets it again, with the new manifest.
Publish(p) ==
    /\ worker[p].pc = "publishing"
    /\ J!SetState(p, worker[p].seen, worker[p].stage)
    /\ worker' = [worker EXCEPT ![p].pc = "check",
                                ![p].stage = @ + 1,
                                ![p].manifest = worker[p].stage]
    /\ UNCHANGED <<launch, lease, stale, asked, kills>>

\* A journal call of p raised JobConflictError.  At "staging" it was the call
\* of mark_orphaned_if_stale and at "lastTry" that of the handler itself:
\* nothing catches those.
Conflict(p) ==
    /\ J!Handle(p)
    /\ IF worker[p].pc \in {"staging", "lastTry"}
       THEN /\ worker' = [worker EXCEPT ![p].pc = "error"]
            /\ lease' = NoClient
       ELSE /\ worker' = [worker EXCEPT ![p].pc = "recover"]
            /\ UNCHANGED lease
    /\ UNCHANGED <<launch, stale, asked, kills>>

\* _run_claimed's top-level handler.
Recover(p) ==
    /\ IF status.st \in Terminal
       THEN /\ Leaves(p, "recover", "returned")
            /\ UNCHANGED journal
       ELSE /\ Moves(p, "recover", "lastTry")
            /\ J!SetState(p, "FAILED", NoStage)
            /\ UNCHANGED lease
    /\ UNCHANGED <<launch, stale, asked, kills>>

\* run returns the status of the last call.
Finish(p) ==
    /\ \E here \in {"ending", "lastTry"} : Leaves(p, here, "returned")
    /\ UNCHANGED <<journal, launch, stale, asked, kills>>

WorkerStep(p) ==
    \/ Execute(p) \/ ClearFlag(p) \/ TakeLease(p) \/ Claim(p)
    \/ Advance(p) \/ LoadManifest(p) \/ CheckCancel(p)
    \/ BeginStage(p) \/ KeyFails(p) \/ EndStage(p)
    \/ ReadToPublish(p) \/ Publish(p)
    \/ Conflict(p) \/ Recover(p) \/ Finish(p)

\* Fault: the journal lock outlives the process.
DiesLocked(p) ==
    /\ worker' = [worker EXCEPT ![p].pc = "dead"]
    /\ lease' = IF lease = p THEN NoClient ELSE lease
    /\ call' = [call EXCEPT ![p] = J!Idle]
    /\ UNCHANGED <<dir, status, events, files, cancel, lock>>

\* The process of p dies: the OS releases what it held.
Dies(p) ==
    /\ worker' = [worker EXCEPT ![p].pc = "dead"]
    /\ lease' = IF lease = p THEN NoClient ELSE lease
    /\ IF call[p] = J!Idle THEN UNCHANGED journal ELSE J!Crash(p)

\* A worker is killed from outside, or its container is.
Kill(p) ==
    /\ worker[p].pc # "none" /\ ~Exited(p)
    /\ kills < MaxKills
    /\ kills' = kills + 1
    /\ Dies(p)
    /\ UNCHANGED <<launch, stale, asked>>

\* The helper of a running worker calls touch_heartbeat, which writes nothing
\* but the heartbeat, from a state read under the lock.
Beat ==
    /\ \E p \in Workers : Executing(p)
    /\ lock = NoClient
    /\ status.st \notin Terminal
    /\ stale
    /\ stale' = FALSE
    /\ UNCHANGED <<journal, worker, launch, lease, asked, kills>>

\* heartbeat_stale_after passes without a heartbeat; the helper of a worker
\* that lives may be late as well.
MissDeadline ==
    /\ status.st \in InFlight
    /\ ~stale
    /\ stale' = TRUE
    /\ UNCHANGED <<journal, worker, launch, lease, asked, kills>>

-----------------------------------------------------------------------------
(* The launcher and the cancelling client.                                 *)

Goes(l, here, next) ==
    /\ launch[l].pc = here
    /\ call[l] = J!Idle
    /\ launch' = [launch EXCEPT ![l].pc = next]

\* prepare, then the detached launch.
Submit(l) ==
    /\ Goes(l, "none", "spawn")
    /\ J!Create(l)
    /\ UNCHANGED <<worker, lease, stale, asked, kills>>

\* prepare_resume: the same test as in execute ...
Resume(l) ==
    /\ J!Opened
    /\ Goes(l, "none", IF status.st = "SUCCEEDED" THEN "returned"
                       ELSE IF Resumable THEN "clear" ELSE "refused")
    /\ UNCHANGED <<journal, worker, lease, stale, asked, kills>>

\* ... and the user's cancel is withdrawn.
ClearForResume(l) ==
    /\ Goes(l, "clear", "spawn")
    /\ J!ClearCancel(l)
    /\ UNCHANGED <<worker, lease, stale, asked, kills>>

Spawn(l) ==
    /\ launch[l].pc = "spawn"
    /\ call[l] = J!Idle
    /\ \E p \in Workers :
          /\ worker[p].pc = "none"
          /\ worker' = [worker EXCEPT ![p].pc = "execute"]
          /\ launch' = [launch EXCEPT ![l].pc = "await", ![l].child = p]
    /\ UNCHANGED <<journal, lease, stale, asked, kills>>

\* No configuration, no container runtime, no such program ...
SpawnRaises(l) ==
    /\ Goes(l, "spawn", "fail")
    /\ UNCHANGED <<journal, worker, lease, stale, asked, kills>>

\* _await_worker_startup: has somebody claimed the job?
Await(l) ==
    /\ Goes(l, "await", IF status.st # "QUEUED" THEN "returned" ELSE "poll")
    /\ UNCHANGED <<journal, worker, lease, stale, asked, kills>>

\* Fault: no timeout.
PollForever(l) ==
    /\ Goes(l, "poll", IF Exited(launch[l].child) THEN "fail" ELSE "await")
    /\ UNCHANGED <<journal, worker, lease, stale, asked, kills>>

\* If not, has the worker exited, and is there time left?
Poll(l) ==
    /\ Goes(l, "poll", IF Exited(launch[l].child) THEN "fail"
                       ELSE IF launch[l].expired THEN "stop" ELSE "await")
    /\ UNCHANGED <<journal, worker, lease, stale, asked, kills>>

\* The startup timeout passes.
Expire(l) ==
    /\ launch[l].pc \in {"await", "poll"}
    /\ ~launch[l].expired
    /\ launch' = [launch EXCEPT ![l].expired = TRUE]
    /\ UNCHANGED <<journal, worker, lease, stale, asked, kills>>

\* Fault: the worker is not stopped.
StopNothing(l) ==
    /\ Goes(l, "stop", "fail")
    /\ UNCHANGED <<journal, worker, lease, stale, asked, kills>>

\* _stop_worker_process: terminate, and kill when that does not help.
Stop(l) ==
    /\ Goes(l, "stop", "fail")
    /\ IF Exited(launch[l].child)
       THEN UNCHANGED <<journal, worker, lease>>
       ELSE Dies(launch[l].child)
    /\ UNCHANGED <<stale, asked, kills>>

\* Fault: only a worker that was spawned is reported.
RecordFailureSpawned(l) ==
    /\ IF status.st \in Terminal \/ launch[l].child = NoClient
       THEN Goes(l, "fail", "raised") /\ UNCHANGED journal
       ELSE Goes(l, "fail", "raising") /\ J!SetState(l, "FAILED", NoStage)
    /\ UNCHANGED <<worker, lease, stale, asked, kills>>

\* _fail_worker_startup and _spawn_worker's handler: a job that is not
\* terminal is FAILED, and the error is raised.
RecordFailure(l) ==
    /\ IF status.st \in Terminal
       THEN Goes(l, "fail", "raised") /\ UNCHANGED journal
       ELSE Goes(l, "fail", "raising") /\ J!SetState(l, "FAILED", NoStage)
    /\ UNCHANGED <<worker, lease, stale, asked, kills>>

\* Raised either way: _spawn_worker's handler finds the job terminal now.
RaiseError(l) ==
    /\ \/ Goes(l, "raising", "raised") /\ UNCHANGED journal
       \/ /\ launch[l].pc = "raising"
          /\ J!Handle(l)
          /\ launch' = [launch EXCEPT ![l].pc = "raised"]
    /\ UNCHANGED <<worker, lease, stale, asked, kills>>

LauncherStep(l) ==
    \/ ClearForResume(l) \/ Spawn(l) \/ SpawnRaises(l)
    \/ Await(l) \/ Poll(l) \/ Stop(l) \/ RecordFailure(l) \/ RaiseError(l)

\* JobHandle.cancel.
Cancel(c) ==
    /\ c \notin asked
    /\ J!RequestCancel(c)
    /\ asked' = asked \cup {c}
    /\ UNCHANGED <<worker, launch, lease, stale, kills>>

\* The canceller is told that the job has ended in the meantime.
CancelRaises(c) ==
    /\ J!Handle(c)
    /\ UNCHANGED processes

CallStep(p) ==
    /\ J!CallStep(p)
    /\ UNCHANGED processes

Next ==
    \/ \E p \in Workers : WorkerStep(p) \/ Kill(p)
    \/ \E l \in Launchers : Submit(l) \/ Resume(l) \/ LauncherStep(l) \/ Expire(l)
    \/ \E c \in Cancellers : Cancel(c) \/ CancelRaises(c)
    \/ \E p \in Clients : CallStep(p)
    \/ Beat
    \/ MissDeadline

Spec == Init /\ [][Next]_vars

\* A worker that has claimed the job runs on, the vendor calls it makes
\* return, time passes, and a heartbeat that nobody renews becomes stale.  A
\* worker may hang while it starts (imports, a container runtime), and nothing
\* obliges a user to submit, resume, cancel or kill.
Fairness ==
    /\ \A p \in Workers : WF_vars(WorkerStep(p) /\ Executing(p))
    /\ \A l \in Launchers : WF_vars(LauncherStep(l)) /\ WF_vars(Expire(l))
    /\ \A p \in Clients : WF_vars(CallStep(p))
    /\ WF_vars(MissDeadline /\ \A p \in Workers : ~Executing(p))

FairSpec == Spec /\ Fairness

-----------------------------------------------------------------------------
(* Properties.                                                             *)

\* The processes use the journal as JobJournal describes its clients, so what
\* is proved of every client there holds of this system.
ImplementsJournal == J!Spec

\* _spawn_worker, "never leave a failed launch queued": when the launcher
\* raises, the job has ended, whatever other writers were about to write.
FailedLaunchEnds ==
    \A l \in Launchers : launch[l].pc = "raised" => status.st \in Terminal

\* mark_orphaned_if_stale: the lease keeps a worker that takes over a stale
\* job from declaring it orphaned while its worker is late, not dead.
OrphanedOnlyWhenAlone ==
    [][\A p, q \in Workers :
          /\ call[p].pc = "write" /\ call'[p].pc = "idle"
          /\ call[p].event = J!StateChanged("ORPHANED")
          /\ q # p
          => ~Executing(q)]_vars

\* No stage is started for a job that has ended.  Only where one launcher is
\* at work: a second one may fail a job whose worker lives.
NoStageAfterEnd ==
    [][\A p \in Workers :
          worker[p].pc = "begin" /\ worker'[p].pc = "work"
          => status.st \notin Terminal]_vars

\* _await_worker_startup, "Require a detached worker to claim its journal":
\* a launcher that reports a worker has seen that worker's claim.  So the
\* docstring and README.md say; the code takes any state but QUEUED for a
\* claim, and the launcher of a resumed job finds such a state at once.
ReturnsClaimed ==
    [][\A l \in Launchers :
          launch[l].pc = "await" /\ launch'[l].pc = "returned"
          => worker[launch[l].child].pc
                \notin {"execute", "clear", "lease", "claim"}]_vars

\* worker.py: "The worker is the only component that advances a job through
\* the state machine".
OnlyWorkersAdvance ==
    [][\A c \in Cancellers :
          call[c].pc = "write" /\ call'[c].pc = "idle"
          => status'.st = status.st]_vars

\* A launch comes to an end, and tells whether it has failed.
LaunchSettles ==
    \A l \in Launchers :
        launch[l].pc = "spawn" ~> launch[l].pc \in {"returned", "raised"}
=============================================================================
