------------------------- MODULE JobLifecycleProofs -------------------------
(***************************************************************************)
(* Proofs about the processes around one job, for every set of launchers,  *)
(* workers and cancellers, every number of stages and any number of kills. *)
(* What is proved of the journal is used through JP.                       *)
(***************************************************************************)
EXTENDS JobLifecycle, TLAPS

\* The journal's theorems, of these processes.
JP == INSTANCE JobJournalProofs WITH
    Beater <- Helper, Slots <- Stages \X Workers,
    Bodies <- {"succeeded", "failed"},
    Manifests <- Stages, NoManifest <- NoStage,
    Payloads <- {"stage_started", "stage_reused"},
    SetStates <- AnyState, MaxTime <- 1, beatFile <- 0, now <- 1

-----------------------------------------------------------------------------
(* The journal's names.                                                    *)

\* The processes are clients as the journal assumes them.
LEMMA JournalAssumptions ==
    /\ JP!ClientAssumption /\ JP!ValueAssumption
    /\ JP!BoundAssumption /\ JP!StateAssumption
<1>1. JP!ClientAssumption
  BY ProcessAssumption DEF JP!ClientAssumption, Clients
<1>2. JP!ValueAssumption
  BY DEF JP!ValueAssumption, Stages, NoStage
<1>3. JP!BoundAssumption /\ JP!StateAssumption
  BY BoundAssumption DEF JP!BoundAssumption, JP!StateAssumption, AnyState,
     JP!JobState, JP!Terminal, JP!InFlight
<1> QED
  BY <1>1, <1>2, <1>3

\* J and JP are one journal.
LEMMA SameValues ==
    /\ J!Idle = JP!Idle /\ J!Raised = JP!Raised /\ J!NoStatus = JP!NoStatus
    /\ J!Terminal = JP!Terminal /\ J!InFlight = JP!InFlight
    /\ J!NextSeq = JP!NextSeq /\ J!Receipt = JP!Receipt
    /\ J!vars = JP!vars /\ (J!Opened <=> JP!Opened)
    /\ \A x : J!Note(x) = JP!Note(x) /\ J!Appended(x) = JP!Appended(x)
              /\ J!StateChanged(x) = JP!StateChanged(x)
              /\ J!StageReceipt(x) = JP!StageReceipt(x)
    /\ \A t, e : J!Prepared(t, e) = JP!Prepared(t, e)
                 /\ (J!LeavesTerminal(t, e) <=> JP!LeavesTerminal(t, e))
    /\ \A p, c : J!Return(p, c) <=> JP!Return(p, c)
<1>1. /\ J!Idle = JP!Idle /\ J!NoStatus = JP!NoStatus
      /\ J!Terminal = JP!Terminal /\ J!InFlight = JP!InFlight
      /\ J!Receipt = JP!Receipt /\ J!vars = JP!vars /\ (J!Opened <=> JP!Opened)
  BY DEF J!Idle, JP!Idle, J!NoStatus, JP!NoStatus, J!NoEvent, JP!NoEvent, J!Note,
     JP!Note, J!Terminal, JP!Terminal, J!InFlight, JP!InFlight,
     J!Receipt, JP!Receipt, J!vars, JP!vars, J!Opened, JP!Opened
<1>6. J!NextSeq = JP!NextSeq
  BY DEF J!NextSeq, JP!NextSeq, J!Max, JP!Max
<1>2. J!Raised = JP!Raised
  BY <1>1 DEF J!Raised, JP!Raised
<1>3. \A x : J!Note(x) = JP!Note(x) /\ J!Appended(x) = JP!Appended(x)
             /\ J!StateChanged(x) = JP!StateChanged(x)
             /\ J!StageReceipt(x) = JP!StageReceipt(x)
  BY DEF J!Note, JP!Note, J!Appended, JP!Appended, J!StateChanged, JP!StateChanged,
     J!StageReceipt, JP!StageReceipt
<1>4. \A t, e : J!Prepared(t, e) = JP!Prepared(t, e)
                /\ (J!LeavesTerminal(t, e) <=> JP!LeavesTerminal(t, e))
  BY <1>1 DEF J!Prepared, JP!Prepared, J!LeavesTerminal, JP!LeavesTerminal
<1>5. \A p, c : J!Return(p, c) <=> JP!Return(p, c)
  BY DEF J!Return, JP!Return
<1> QED
  BY <1>1, <1>2, <1>3, <1>4, <1>5, <1>6

LEMMA SameMerged ==
    ASSUME NEW s, NEW t
    PROVE  J!Merged(s, t) = JP!Merged(s, t)
  BY SameValues DEF J!Merged, JP!Merged

LEMMA SameCalls ==
    ASSUME NEW p
    PROVE  /\ J!Create(p) <=> JP!Create(p)
           /\ \A x : J!AppendEvent(p, x) <=> JP!AppendEvent(p, x)
           /\ \A s, m : J!SetState(p, s, m) <=> JP!SetState(p, s, m)
           /\ \A r : J!RecordReceipt(p, r) <=> JP!RecordReceipt(p, r)
           /\ J!RequestCancel(p) <=> JP!RequestCancel(p)
           /\ J!ClearCancel(p) <=> JP!ClearCancel(p)
           /\ J!TouchHeartbeat(p) <=> JP!TouchHeartbeat(p)
           /\ J!Handle(p) <=> JP!Handle(p)
           /\ J!Crash(p) <=> JP!Crash(p)
<1>1. J!Create(p) <=> JP!Create(p)
  BY SameValues DEF J!Create, JP!Create
<1>2. \A x : J!AppendEvent(p, x) <=> JP!AppendEvent(p, x)
  BY SameValues DEF J!AppendEvent, JP!AppendEvent
<1>3. \A s, m : J!SetState(p, s, m) <=> JP!SetState(p, s, m)
  BY SameValues DEF J!SetState, JP!SetState
<1>4. \A r : J!RecordReceipt(p, r) <=> JP!RecordReceipt(p, r)
  BY SameValues DEF J!RecordReceipt, JP!RecordReceipt
<1>5. /\ J!RequestCancel(p) <=> JP!RequestCancel(p)
      /\ J!ClearCancel(p) <=> JP!ClearCancel(p)
      /\ J!TouchHeartbeat(p) <=> JP!TouchHeartbeat(p)
  BY SameValues DEF J!RequestCancel, JP!RequestCancel, J!ClearCancel, JP!ClearCancel,
     J!TouchHeartbeat, JP!TouchHeartbeat
<1>6. (J!Handle(p) <=> JP!Handle(p)) /\ (J!Crash(p) <=> JP!Crash(p))
  BY SameValues DEF J!Handle, JP!Handle, J!Crash, JP!Crash
<1> QED
  BY <1>1, <1>2, <1>3, <1>4, <1>5, <1>6

LEMMA SameCallStep ==
    ASSUME NEW p
    PROVE  J!CallStep(p) <=> JP!CallStep(p)
<1>1. (J!ReceiptRead(p) <=> JP!ReceiptRead(p)) /\ (J!CancelRead(p) <=> JP!CancelRead(p))
  BY SameValues DEF J!ReceiptRead, JP!ReceiptRead, J!CancelRead, JP!CancelRead
<1>2. J!CommitEvent(p) <=> JP!CommitEvent(p)
  BY SameValues, SameMerged DEF J!CommitEvent, JP!CommitEvent
<1>3. J!CommitState(p) <=> JP!CommitState(p)
  BY SameValues DEF J!CommitState, JP!CommitState
<1>4. J!BeatFile(p) <=> JP!BeatFile(p)
  BY SameValues DEF J!BeatFile, JP!BeatFile
<1>5. J!BeatState(p) <=> JP!BeatState(p)
  BY SameValues DEF J!BeatState, JP!BeatState
<1> QED
  BY <1>1, <1>2, <1>3, <1>4, <1>5 DEF J!CallStep, JP!CallStep

LEMMA SameNext ==
    /\ J!Init <=> JP!Init
    /\ J!Next <=> JP!Next
    /\ [J!Next]_(J!vars) <=> [JP!Next]_(JP!vars)
<1>1. J!Init <=> JP!Init
  BY SameValues DEF J!Init, JP!Init, J!NoEvent, JP!NoEvent
<1>2. \A p : J!Begin(p) <=> JP!Begin(p)
  BY SameValues, SameCalls DEF J!Begin, JP!Begin
<1>3. J!Next <=> JP!Next
  BY <1>2, SameCalls, SameCallStep DEF J!Next, JP!Next, J!Tick, JP!Tick
<1> QED
  BY <1>1, <1>3 DEF J!vars, JP!vars

-----------------------------------------------------------------------------
(* The inductive invariant.                                                *)

WorkerPc == {"none", "execute", "clear", "lease", "claim", "staging", "running", "load",
             "check", "begin", "work", "publish", "publishing", "fail", "collecting",
             "committing", "succeed", "ending", "recover", "lastTry", "returned",
             "error", "dead"}

LaunchPc == {"none", "clear", "spawn", "await", "poll", "stop", "fail", "raising",
             "raised", "returned", "refused"}

TypeOK ==
    /\ worker \in [Workers -> [pc : WorkerPc, stage : 1..LastStage + 1,
                               manifest : Stages \cup {NoStage},
                               seen : AnyState \cup {"MISSING"}]]
    /\ launch \in [Launchers -> [pc : LaunchPc, child : Workers \cup {NoClient},
                                 expired : BOOLEAN]]
    /\ lease \in Workers \cup {NoClient}

\* A journal call of these processes: nobody calls touch_heartbeat, and nothing
\* is read from, or written to, a job without a state.
CallInv(p) ==
    /\ call[p].pc \in {"idle", "receipt", "cancel", "commit", "write", "raised"}
    /\ call[p].pc \in {"commit", "write"} => call[p].target.st # "MISSING"
    /\ call[p].pc \in {"receipt", "cancel"} => J!Opened

\* A worker calls the journal only while it executes, which it does only while it
\* holds the lease, and it begins a stage of the job only.
WorkerInv(p) ==
    /\ call[p] # J!Idle => Executing(p)
    /\ Executing(p) \/ worker[p].pc = "claim" => lease = p
    /\ worker[p].pc \in {"begin", "work", "publish", "publishing"} =>
          worker[p].stage \in Stages
    /\ worker[p].pc \in {"work", "publish", "publishing"} => J!Opened
    /\ worker[p].pc = "publishing" => worker[p].seen # "MISSING"

\* A launcher that raises has failed the job, or somebody else has ended it.
LaunchInv(l) ==
    /\ launch[l].pc \in {"await", "poll", "stop"} => launch[l].child \in Workers
    /\ launch[l].pc = "raising" =>
          \/ call[l].pc \in {"commit", "write"} /\ call[l].target.st = "FAILED"
          \/ call[l] \in {J!Idle, J!Raised} /\ status.st \in Terminal
    /\ launch[l].pc = "raised" => status.st \in Terminal

IInv ==
    /\ JP!IInv /\ TypeOK
    /\ \A p \in Clients : CallInv(p)
    /\ \A p \in Workers : WorkerInv(p)
    /\ \A l \in Launchers : LaunchInv(l)

-----------------------------------------------------------------------------
(* Every step is a step of the journal, or leaves its files alone.         *)

\* The calls that these processes make.
ClientCall(p) ==
    /\ p # Helper
    /\ \/ J!Create(p)
       \/ \E x \in {"stage_started", "stage_reused"} : J!AppendEvent(p, x)
       \/ \E s \in AnyState, m \in Stages \cup {NoStage} : J!SetState(p, s, m)
       \/ p \in Workers /\ \E r \in J!Receipt : J!RecordReceipt(p, r)
       \/ J!RequestCancel(p)
       \/ J!ClearCancel(p)

JournalStep ==
    \/ UNCHANGED journal
    \/ \E p \in Clients : ClientCall(p) \/ J!CallStep(p) \/ J!Handle(p) \/ J!Crash(p)

LEMMA JournalStepIsStep == JournalStep => [JP!Next]_(JP!vars)
<1> SUFFICES ASSUME JournalStep
             PROVE  [J!Next]_(J!vars)
  BY SameNext
<1>1. CASE UNCHANGED journal
  BY <1>1 DEF journal, J!vars
<1>2. ASSUME NEW p \in Clients, ClientCall(p)
      PROVE  J!Begin(p)
  BY <1>2 DEF ClientCall, J!Begin
<1> QED
  BY <1>1, <1>2 DEF JournalStep, J!Next

\* The values of the two status machines, and a call's fields.
LEMMA Values ==
    /\ Terminal = {"SUCCEEDED", "FAILED", "CANCELLED"}
    /\ InFlight = {"STAGING", "RUNNING", "COLLECTING", "COMMITTING"}
    /\ J!Idle.pc = "idle" /\ J!Raised.pc = "raised" /\ J!Idle # J!Raised
    /\ J!Raised = [pc |-> "raised", target |-> J!NoStatus, event |-> J!NoEvent]
    /\ \A t, e : LET c == J!Prepared(t, e)
                 IN  c.pc = "commit" /\ c.target = t /\ c.event = e
<1>1. J!Idle.pc = "idle" /\ J!Raised.pc = "raised"
  BY DEF J!Idle, J!Raised
<1> QED
  BY <1>1 DEF Terminal, InFlight, J!Terminal, J!InFlight, J!Raised, J!Idle, J!Prepared

LEMMA JournalTyped ==
    ASSUME JP!IInv
    PROVE  /\ status.st \in AnyState \cup {"MISSING"}
           /\ status.manifest \in Stages \cup {NoStage}
           /\ DOMAIN call = Clients
           /\ \A p, c : J!Return(p, c) => \A q \in Clients \ {p} : call'[q] = call[q]
           /\ \A p \in Clients : \A c : J!Return(p, c) => call'[p] = c
           /\ JP!vars = <<dir, status, events, files, cancel, 0, lock, 1, call>>
  BY DEF JP!IInv, JP!TypeOK, JP!JobStatus, JP!JobState, JP!Terminal, JP!InFlight, AnyState,
     J!Return, JP!vars

LEMMA WorkerCalls ==
    ASSUME IInv, NEW p \in Workers, WorkerStep(p)
    PROVE  UNCHANGED journal \/ ClientCall(p) \/ J!Handle(p)
<1> p # Helper
  BY ProcessAssumption
<1>0. /\ worker[p].manifest \in Stages \cup {NoStage}
      /\ worker[p].pc = "publishing" => worker[p].seen \in AnyState
      /\ worker[p].pc \in {"begin", "work", "publish", "publishing"} =>
            worker[p].stage \in Stages
  BY DEF IInv, TypeOK, WorkerInv
<1>1. CASE Execute(p) \/ TakeLease(p) \/ LoadManifest(p) \/ KeyFails(p)
           \/ ReadToPublish(p) \/ Finish(p)
  BY <1>1 DEF Execute, TakeLease, LoadManifest, KeyFails, ReadToPublish, Finish
<1>2. ASSUME NEW s \in AnyState, NEW m \in Stages \cup {NoStage}, J!SetState(p, s, m)
      PROVE  ClientCall(p)
  BY <1>2 DEF ClientCall
<1>3. {"ORPHANED", "STAGING", "RUNNING", "COLLECTING", "COMMITTING", "SUCCEEDED",
       "FAILED", "CANCELLED"} \subseteq AnyState
  BY DEF AnyState
<1>4. CASE ClearFlag(p)
  BY <1>4 DEF ClearFlag, ClientCall
<1>5. CASE Claim(p)
  BY <1>5, <1>2, <1>3 DEF Claim
<1>6. CASE Advance(p)
  BY <1>6, <1>2, <1>3, <1>0 DEF Advance, Sets
<1>7. CASE CheckCancel(p)
  BY <1>7, <1>2, <1>3 DEF CheckCancel
<1>8. CASE BeginStage(p)
  BY <1>8 DEF BeginStage, ClientCall
<1>9. CASE EndStage(p)
  <2>1. PICK body \in {"succeeded", "failed"} :
           /\ Moves(p, "work", IF body = "failed" THEN "fail" ELSE "publish")
           /\ J!RecordReceipt(p, [slot |-> <<worker[p].stage, p>>, body |-> body])
    BY <1>9 DEF EndStage
  <2>2. worker[p].stage \in Stages
    BY <2>1, <1>0 DEF Moves
  <2>3. [slot |-> <<worker[p].stage, p>>, body |-> body] \in J!Receipt
    BY <2>2 DEF J!Receipt
  <2> QED
    BY <2>1, <2>3 DEF ClientCall
<1>10. CASE Publish(p)
  BY <1>10, <1>2, <1>0 DEF Publish
<1>11. CASE Conflict(p)
  BY <1>11 DEF Conflict
<1>12. CASE Recover(p)
  BY <1>12, <1>2, <1>3 DEF Recover
<1> QED
  BY <1>1, <1>4, <1>5, <1>6, <1>7, <1>8, <1>9, <1>10, <1>11, <1>12 DEF WorkerStep

LEMMA LauncherCalls ==
    ASSUME IInv, NEW l \in Launchers,
           Submit(l) \/ Resume(l) \/ LauncherStep(l) \/ Expire(l)
    PROVE  \/ UNCHANGED journal
           \/ ClientCall(l) \/ J!Handle(l)
           \/ \E p \in Workers : J!Crash(p)
<1> l # Helper
  BY ProcessAssumption
<1>1. CASE Resume(l) \/ Expire(l) \/ Spawn(l) \/ SpawnRaises(l) \/ Await(l) \/ Poll(l)
  BY <1>1 DEF Resume, Expire, Spawn, SpawnRaises, Await, Poll
<1>2. CASE Submit(l) \/ ClearForResume(l)
  BY <1>2 DEF Submit, ClearForResume, ClientCall
<1>3. CASE Stop(l)
  BY <1>3 DEF Stop, Dies, Goes, IInv, LaunchInv
<1>4. CASE RecordFailure(l)
  BY <1>4 DEF RecordFailure, ClientCall, AnyState
<1>5. CASE RaiseError(l)
  BY <1>5 DEF RaiseError
<1> QED
  BY <1>1, <1>2, <1>3, <1>4, <1>5 DEF LauncherStep

LEMMA StepIsJournalStep ==
    ASSUME IInv, [Next]_vars
    PROVE  JournalStep
<1>1. ASSUME NEW p \in Workers, WorkerStep(p) \/ Kill(p)
      PROVE  JournalStep
  <2>1. CASE WorkerStep(p)
    BY <2>1, WorkerCalls DEF JournalStep, Clients
  <2>2. CASE Kill(p)
    BY <2>2 DEF Kill, Dies, JournalStep, Clients
  <2> QED
    BY <1>1, <2>1, <2>2
<1>2. ASSUME NEW l \in Launchers, Submit(l) \/ Resume(l) \/ LauncherStep(l) \/ Expire(l)
      PROVE  JournalStep
  BY <1>2, LauncherCalls DEF JournalStep, Clients
<1>3. ASSUME NEW c \in Cancellers, Cancel(c) \/ CancelRaises(c)
      PROVE  JournalStep
  <2>1. c # Helper
    BY ProcessAssumption
  <2> QED
    BY <1>3, <2>1 DEF Cancel, CancelRaises, ClientCall, JournalStep, Clients
<1>4. ASSUME NEW p \in Clients, CallStep(p)
      PROVE  JournalStep
  BY <1>4 DEF CallStep, JournalStep
<1>5. CASE Beat \/ MissDeadline \/ UNCHANGED vars
  BY <1>5 DEF Beat, MissDeadline, vars, JournalStep
<1> QED
  BY <1>1, <1>2, <1>3, <1>4, <1>5 DEF Next

\* What the journal's proofs say of a step: its invariant is kept, a job that
\* has ended stays as it is, and one that has a state keeps one.
LEMMA Lasting ==
    ASSUME IInv, [Next]_vars
    PROVE  /\ JP!IInv' /\ (status.st \in Terminal => status'.st = status.st)
           /\ J!Opened => J!Opened'
<1>1. [JP!Next]_(JP!vars)
  BY StepIsJournalStep, JournalStepIsStep
<1>2. JP!IInv
  BY DEF IInv
<1>3. JP!IInv'
  BY <1>1, <1>2, JournalAssumptions, JP!NextIInv
<1>4. status.st \in Terminal => status'.st = status.st
  BY <1>1, <1>2, JournalAssumptions, JP!StatusStep, SameValues DEF Terminal
<1>5. ASSUME J!Opened, status' # status
      PROVE  J!Opened'
  <2>1. PICK p \in Clients :
           (JP!CommitState(p) \/ JP!BeatState(p)) /\ status' = call[p].target
    BY <1>1, <1>5, JournalAssumptions, JP!StatusWriters
  <2>2. CallInv(p)
    BY DEF IInv
  <2> QED
    BY <2>1, <2>2 DEF CallInv, JP!CommitState, JP!BeatState, J!Opened
<1>6. J!Opened /\ status' = status => J!Opened'
  BY DEF J!Opened
<1> QED
  BY <1>3, <1>4, <1>5, <1>6

\* The calls of these processes stay as CallInv describes them.
LEMMA CallsStay ==
    ASSUME IInv, [Next]_vars
    PROVE  \A p \in Clients : CallInv(p)'
<1>0. /\ JP!IInv /\ \A q \in Clients : CallInv(q)
      /\ J!Opened => J!Opened'
  BY Lasting DEF IInv
<1>1. ASSUME UNCHANGED journal
      PROVE  \A q \in Clients : CallInv(q)'
  BY <1>1, <1>0 DEF journal, CallInv
<1>2. ASSUME NEW p \in Clients, NEW q \in Clients, call'[q] = call[q]
      PROVE  CallInv(q)'
  BY <1>2, <1>0 DEF CallInv
<1>3. ASSUME NEW p \in Clients, NEW c, J!Return(p, c),
             /\ c.pc \in {"idle", "receipt", "cancel", "commit", "write", "raised"}
             /\ c.pc \in {"commit", "write"} => c.target.st # "MISSING"
             /\ c.pc \in {"receipt", "cancel"} => J!Opened
      PROVE  \A q \in Clients : CallInv(q)'
  <2>1. call'[p] = c /\ \A q \in Clients \ {p} : call'[q] = call[q]
    BY <1>3, <1>0, JournalTyped
  <2>2. CallInv(p)'
    BY <2>1, <1>3, <1>0 DEF CallInv
  <2> QED
    BY <2>1, <2>2, <1>2
<1>4. ASSUME NEW p \in Clients, NEW t, NEW e, t.st # "MISSING",
             J!Return(p, J!Prepared(t, e))
      PROVE  \A q \in Clients : CallInv(q)'
  BY <1>4, <1>3, Values
<1>5. ASSUME NEW p \in Clients, ClientCall(p)
      PROVE  \A q \in Clients : CallInv(q)'
  <2>0. status \in JP!JobStatus
    BY <1>0 DEF JP!IInv, JP!TypeOK
  <2>1. CASE J!Create(p)
    BY <2>1, <1>4 DEF J!Create, J!NoStatus
  <2>2. CASE \E x \in {"stage_started", "stage_reused"} : J!AppendEvent(p, x)
    BY <2>2, <1>4 DEF J!AppendEvent, J!Opened
  <2>3. ASSUME NEW s \in AnyState, NEW m \in Stages \cup {NoStage}, J!SetState(p, s, m)
        PROVE  \A q \in Clients : CallInv(q)'
    <3> DEFINE t == [status EXCEPT !.st = s,
                                   !.manifest = IF m = NoStage THEN @ ELSE m]
    <3>1. t.st # "MISSING"
      BY <2>0 DEF AnyState, JP!JobStatus
    <3>2. J!Return(p, J!Prepared(t, J!StateChanged(s)))
      BY <2>3 DEF J!SetState
    <3> HIDE DEF t
    <3> QED
      BY <3>1, <3>2, <1>4
  <2>4. ASSUME NEW r \in J!Receipt, J!RecordReceipt(p, r)
        PROVE  \A q \in Clients : CallInv(q)'
    BY <2>4, <1>3, Values DEF J!RecordReceipt, J!Idle
  <2>5. CASE J!RequestCancel(p)
    BY <2>5, <1>3, Values DEF J!RequestCancel, J!Idle
  <2>6. CASE J!ClearCancel(p)
    BY <2>6, <1>2 DEF J!ClearCancel
  <2> QED
    BY <1>5, <2>1, <2>2, <2>3, <2>4, <2>5, <2>6 DEF ClientCall
<1>6. ASSUME NEW p \in Clients, J!CallStep(p)
      PROVE  \A q \in Clients : CallInv(q)'
  <2>0. /\ CallInv(p) /\ status \in JP!JobStatus /\ call[p].target \in JP!JobStatus
    BY <1>0 DEF JP!IInv, JP!TypeOK, JP!Call
  <2>1. CASE J!ReceiptRead(p)
    BY <2>1, <2>0, <1>4 DEF J!ReceiptRead, CallInv, J!Opened, JP!JobStatus
  <2>2. CASE J!CancelRead(p)
    BY <2>2, <2>0, <1>4 DEF J!CancelRead, CallInv, J!Opened
  <2>3. CASE J!CommitEvent(p)
    <3>1. J!Merged(status, call[p].target).st = call[p].target.st
      BY <2>0 DEF J!Merged, JP!JobStatus
    <3> QED
      BY <2>3, <3>1, <2>0, <1>3, Values DEF J!CommitEvent, CallInv
  <2>4. CASE J!CommitState(p)
    BY <2>4, <1>3, Values DEF J!CommitState
  <2>5. CASE J!BeatFile(p) \/ J!BeatState(p)
    BY <2>5, <2>0 DEF J!BeatFile, J!BeatState, CallInv
  <2> QED
    BY <1>6, <2>1, <2>2, <2>3, <2>4, <2>5 DEF J!CallStep
<1>7. ASSUME NEW p \in Clients, J!Handle(p) \/ J!Crash(p)
      PROVE  \A q \in Clients : CallInv(q)'
  BY <1>7, <1>3, Values DEF J!Handle, J!Crash
<1> QED
  BY <1>1, <1>5, <1>6, <1>7, StepIsJournalStep DEF JournalStep

-----------------------------------------------------------------------------
(* A step of one process leaves the others what they have.                 *)

\* A call that begins, is handled, or is lost, leaves state.json alone, and the
\* calls of the others.
LEMMA CallFrame ==
    ASSUME IInv, NEW p \in Clients, ClientCall(p) \/ J!Handle(p) \/ J!Crash(p)
    PROVE  /\ status' = status
           /\ \A q \in Clients \ {p} : call'[q] = call[q]
  BY JournalTyped DEF ClientCall, IInv, J!Create, J!AppendEvent, J!SetState,
     J!RecordReceipt, J!RequestCancel, J!ClearCancel, J!Handle, J!Crash

LEMMA WorkerFrame ==
    ASSUME IInv, NEW p \in Workers, WorkerStep(p)
    PROVE  /\ status' = status /\ launch' = launch
           /\ \A q \in Clients \ {p} : call'[q] = call[q]
           /\ \A q \in Workers \ {p} :
                 worker'[q] = worker[q] /\ (lease = q => lease' = q)
<1>1. status' = status /\ \A q \in Clients \ {p} : call'[q] = call[q]
  BY WorkerCalls, CallFrame DEF journal, Clients
<1>2. /\ DOMAIN worker = Workers /\ NoClient \notin Workers /\ WorkerInv(p)
      /\ JP!IInv
  BY ProcessAssumption DEF IInv, TypeOK
<1>3. \A q \in Workers \ {p} : worker'[q] = worker[q]
  BY <1>2 DEF WorkerStep, Execute, ClearFlag, TakeLease, Claim, Advance, Sets, LoadManifest,
     CheckCancel, BeginStage, KeyFails, EndStage, ReadToPublish, Publish, Conflict,
     Recover, Finish, Leaves, Moves
<1>4. launch' = launch
  BY DEF WorkerStep, Execute, ClearFlag, TakeLease, Claim, Advance, Sets, LoadManifest,
     CheckCancel, BeginStage, KeyFails, EndStage, ReadToPublish, Publish, Conflict,
     Recover, Finish
<1>5. \A q \in Workers \ {p} : lease = q => lease' = q
  <2>1. CASE Conflict(p)
    BY <2>1, <1>2, Values DEF Conflict, WorkerInv, J!Handle
  <2>2. CASE Claim(p) \/ Recover(p) \/ Finish(p)
    BY <2>2, <1>2 DEF Claim, Recover, Finish, Leaves, Moves, WorkerInv, Executing
  <2>3. CASE TakeLease(p)
    BY <2>3, <1>2 DEF TakeLease
  <2> QED
    BY <2>1, <2>2, <2>3 DEF WorkerStep, Execute, ClearFlag, Advance, Sets, LoadManifest,
       CheckCancel, BeginStage, KeyFails, EndStage, ReadToPublish, Publish
<1> QED
  BY <1>1, <1>3, <1>4, <1>5

LEMMA DiesFrame ==
    ASSUME IInv, NEW p \in Workers, Dies(p)
    PROVE  /\ status' = status /\ call'[p] = J!Idle /\ worker'[p].pc = "dead"
           /\ worker' = [worker EXCEPT ![p].pc = "dead"]
           /\ \A q \in Clients \ {p} : call'[q] = call[q]
           /\ \A q \in Workers \ {p} :
                 worker'[q] = worker[q] /\ (lease = q => lease' = q)
<1>1. status' = status /\ \A q \in Clients \ {p} : call'[q] = call[q]
  BY CallFrame DEF Dies, journal, Clients
<1>2. call'[p] = J!Idle
  BY JournalTyped DEF Dies, journal, J!Crash, IInv, Clients
<1>3. worker' = [worker EXCEPT ![p].pc = "dead"] /\ DOMAIN worker = Workers
      /\ worker[p] \in [pc : WorkerPc, stage : 1..LastStage + 1,
                        manifest : Stages \cup {NoStage},
                        seen : AnyState \cup {"MISSING"}]
  BY DEF Dies, IInv, TypeOK
<1> QED
  BY <1>1, <1>2, <1>3 DEF Dies

\* What a worker needs to keep what WorkerInv says of it.
LEMMA WorkerKept ==
    ASSUME IInv, [Next]_vars, NEW q \in Workers, worker'[q] = worker[q],
           call'[q] # J!Idle => call[q] # J!Idle,
           lease = q => lease' = q
    PROVE  WorkerInv(q)'
<1>1. WorkerInv(q) /\ (J!Opened => J!Opened')
  BY Lasting DEF IInv
<1>2. J!Idle' = J!Idle
  BY DEF J!Idle, J!NoStatus, J!NoEvent
<1> QED
  BY <1>1, <1>2 DEF WorkerInv, Executing

LEMMA MovesTo ==
    ASSUME TypeOK, NEW p \in Workers, NEW here, NEW next, Moves(p, here, next)
    PROVE  /\ worker[p].pc = here /\ call[p] = J!Idle /\ worker'[p].pc = next
           /\ worker'[p].stage = worker[p].stage /\ worker'[p].seen = worker[p].seen
           /\ worker'[p].manifest = worker[p].manifest
           /\ worker' = [worker EXCEPT ![p].pc = next]
  BY DEF Moves, TypeOK

LEMMA WorkerOwn ==
    ASSUME IInv, [Next]_vars, NEW p \in Workers, WorkerStep(p)
    PROVE  WorkerInv(p)'
<1>0. /\ WorkerInv(p) /\ TypeOK /\ JP!IInv
      /\ J!Opened => J!Opened'
  BY Lasting DEF IInv
<1>1. J!Idle' = J!Idle
  BY DEF J!Idle, J!NoStatus, J!NoEvent
<1>2. ASSUME worker'[p].pc \in {"clear", "lease", "returned", "error"}, call'[p] = J!Idle
      PROVE  WorkerInv(p)'
  BY <1>2, <1>1 DEF WorkerInv, Executing
<1>3. ASSUME worker'[p].pc \in {"claim", "staging", "running", "load", "check", "fail",
                                "collecting", "committing", "succeed", "ending",
                                "recover", "lastTry"},
             lease' = p, worker'[p].pc = "claim" => call'[p] = J!Idle
      PROVE  WorkerInv(p)'
  BY <1>3, <1>1 DEF WorkerInv, Executing
<1>4. ASSUME worker'[p].pc \in {"begin", "work", "publish", "publishing"}, lease' = p,
             worker'[p].stage \in Stages, worker'[p].pc = "begin" \/ J!Opened,
             worker'[p].pc = "publishing" => worker'[p].seen # "MISSING"
      PROVE  WorkerInv(p)'
  BY <1>4, <1>0 DEF WorkerInv, Executing
<1>5. CASE Execute(p)
  BY <1>5, <1>0, <1>2, MovesTo DEF Execute, journal
<1>6. CASE ClearFlag(p)
  BY <1>6, <1>0, <1>2, MovesTo DEF ClearFlag, J!ClearCancel
<1>7. CASE TakeLease(p)
  <2>1. CASE lease = NoClient
    BY <1>7, <2>1, <1>0, <1>3, MovesTo DEF TakeLease, journal
  <2>2. CASE lease # NoClient
    BY <1>7, <2>2, <1>0, <1>2, MovesTo DEF TakeLease, journal
  <2> QED
    BY <2>1, <2>2
<1>8. CASE Claim(p)
  <2>1. CASE UNCHANGED journal /\ \E x \in {"returned", "error"} : Leaves(p, "claim", x)
    BY <2>1, <1>0, <1>2, MovesTo DEF Leaves, journal
  <2>2. CASE Moves(p, "claim", "staging") /\ UNCHANGED lease
    <3>1. lease' = p
      BY <2>2, <1>0 DEF Moves, WorkerInv
    <3> QED
      BY <2>2, <3>1, <1>0, <1>3, MovesTo
  <2> QED
    BY <1>8, <2>1, <2>2 DEF Claim
<1>9. CASE Advance(p)
  <2>1. PICK here \in {"staging", "running", "collecting", "committing", "succeed", "fail"},
             next \in {"running", "load", "committing", "succeed", "ending"} :
           Moves(p, here, next) /\ UNCHANGED lease
    BY <1>9 DEF Advance, Sets
  <2>2. lease' = p
    BY <2>1, <1>0 DEF Moves, WorkerInv, Executing
  <2> QED
    BY <2>1, <2>2, <1>0, <1>3, MovesTo
<1>10. CASE LoadManifest(p)
  <2>1. worker'[p].pc = "check"
    BY <1>10, <1>0 DEF LoadManifest, TypeOK
  <2>2. lease' = p
    BY <1>10, <1>0 DEF LoadManifest, WorkerInv, Executing
  <2> QED
    BY <2>1, <2>2, <1>3
<1>11. CASE CheckCancel(p)
  <2>1. PICK next \in {"collecting", "ending", "begin"} :
           /\ Moves(p, "check", next) /\ UNCHANGED lease
           /\ next = "begin" => ~(worker[p].stage > LastStage)
    BY <1>11 DEF CheckCancel
  <2>2. lease' = p
    BY <2>1, <1>0 DEF Moves, WorkerInv, Executing
  <2>3. next = "begin" => worker[p].stage \in Stages
    BY <2>1, <1>0, StageAssumption DEF TypeOK, Stages
  <2> QED
    BY <2>1, <2>2, <2>3, <1>0, <1>3, <1>4, MovesTo
<1>12. CASE BeginStage(p) \/ KeyFails(p)
  <2>1. PICK next \in {"publish", "work", "recover"} :
           /\ Moves(p, "begin", next) /\ UNCHANGED lease
           /\ next # "recover" => J!Opened
    BY <1>12 DEF BeginStage, KeyFails, J!AppendEvent
  <2>2. lease' = p /\ worker[p].stage \in Stages
    BY <2>1, <1>0 DEF Moves, WorkerInv, Executing
  <2> QED
    BY <2>1, <2>2, <1>0, <1>3, <1>4, MovesTo
<1>13. CASE EndStage(p)
  <2>1. PICK next \in {"publish", "fail"} : Moves(p, "work", next) /\ UNCHANGED lease
    BY <1>13 DEF EndStage
  <2>2. lease' = p /\ worker[p].stage \in Stages /\ J!Opened
    BY <2>1, <1>0 DEF Moves, WorkerInv, Executing
  <2> QED
    BY <2>1, <2>2, <1>0, <1>3, <1>4, MovesTo
<1>14. CASE ReadToPublish(p)
  <2>1. lease = p /\ worker[p].stage \in Stages /\ J!Opened /\ lease' = lease
    BY <1>14, <1>0 DEF ReadToPublish, WorkerInv, Executing
  <2>2. /\ worker'[p].pc = "publishing" /\ worker'[p].stage = worker[p].stage
        /\ worker'[p].seen = status.st
    BY <1>14, <1>0 DEF ReadToPublish, TypeOK
  <2> QED
    BY <2>1, <2>2, <1>4 DEF J!Opened
<1>15. CASE Publish(p)
  <2>1. lease' = p
    BY <1>15, <1>0 DEF Publish, WorkerInv, Executing
  <2>2. worker'[p].pc = "check"
    BY <1>15, <1>0 DEF Publish, TypeOK
  <2> QED
    BY <2>1, <2>2, <1>3
<1>16. CASE Conflict(p)
  <2>1. call[p] # J!Idle /\ call'[p] = J!Idle
    BY <1>16, <1>0, JournalTyped, Values DEF Conflict, J!Handle, Clients
  <2>2. lease = p
    BY <2>1, <1>0 DEF WorkerInv
  <2>3. CASE worker[p].pc \in {"staging", "lastTry"}
    <3>1. worker'[p].pc = "error"
      BY <1>16, <2>3, <1>0 DEF Conflict, TypeOK
    <3> QED
      BY <3>1, <2>1, <1>2
  <2>4. CASE worker[p].pc \notin {"staging", "lastTry"}
    <3>1. worker'[p].pc = "recover" /\ lease' = p
      BY <1>16, <2>4, <2>2, <1>0 DEF Conflict, TypeOK
    <3> QED
      BY <3>1, <1>3
  <2> QED
    BY <2>3, <2>4
<1>17. CASE Recover(p)
  <2>1. CASE UNCHANGED journal /\ Leaves(p, "recover", "returned")
    BY <2>1, <1>0, <1>2, MovesTo DEF Leaves, journal
  <2>2. CASE Moves(p, "recover", "lastTry") /\ UNCHANGED lease
    <3>1. lease' = p
      BY <2>2, <1>0 DEF Moves, WorkerInv, Executing
    <3> QED
      BY <2>2, <3>1, <1>0, <1>3, MovesTo
  <2> QED
    BY <1>17, <2>1, <2>2 DEF Recover
<1>18. CASE Finish(p)
  BY <1>18, <1>0, <1>2, MovesTo DEF Finish, Leaves, journal
<1> QED
  BY <1>5, <1>6, <1>7, <1>8, <1>9, <1>10, <1>11, <1>12, <1>13, <1>14, <1>15, <1>16, <1>17,
     <1>18 DEF WorkerStep

\* A step of a launcher, for itself and for the others.
LEMMA LauncherFrame ==
    ASSUME IInv, NEW l \in Launchers,
           Submit(l) \/ Resume(l) \/ LauncherStep(l) \/ Expire(l)
    PROVE  /\ status' = status
           /\ \A k \in Launchers \ {l} : launch'[k] = launch[k] /\ call'[k] = call[k]
           /\ \/ UNCHANGED <<worker, lease>> /\ \A q \in Workers : call'[q] = call[q]
              \/ UNCHANGED <<lease, call>> /\ \E p \in Workers :
                    /\ worker[p].pc = "none"
                    /\ worker' = [worker EXCEPT ![p].pc = "execute"]
              \/ \E p \in Workers : Dies(p)
<1>0. Launchers \cap Workers = {} /\ DOMAIN launch = Launchers /\ JP!IInv /\ LaunchInv(l)
  BY ProcessAssumption DEF IInv, TypeOK
<1>1. \A k \in Launchers \ {l} : launch'[k] = launch[k]
  BY <1>0 DEF Submit, Resume, LauncherStep, Expire, ClearForResume, Spawn, SpawnRaises,
     Await, Poll, Stop, RecordFailure, RaiseError, Goes
<1>2. CASE Stop(l)
  <2>1. CASE Exited(launch[l].child)
    BY <1>2, <2>1, <1>1 DEF Stop, journal
  <2>2. CASE ~Exited(launch[l].child)
    <3>1. launch[l].child \in Workers /\ Dies(launch[l].child)
      BY <1>2, <2>2, <1>0 DEF Stop, Goes, LaunchInv
    <3> QED
      BY <3>1, <1>0, <1>1, DiesFrame DEF Clients
  <2> QED
    BY <2>1, <2>2
<1>3. CASE Spawn(l)
  BY <1>3, <1>1 DEF Spawn, journal
<1>4. CASE Resume(l) \/ Expire(l) \/ SpawnRaises(l) \/ Await(l) \/ Poll(l)
  BY <1>4, <1>1 DEF Resume, Expire, SpawnRaises, Await, Poll, journal
<1>5. CASE Submit(l) \/ ClearForResume(l) \/ RecordFailure(l) \/ RaiseError(l)
  <2>1. UNCHANGED <<worker, lease>>
    BY <1>5 DEF Submit, ClearForResume, RecordFailure, RaiseError
  <2>2. UNCHANGED journal \/ ClientCall(l) \/ J!Handle(l)
    <3>1. l # Helper
      BY ProcessAssumption
    <3> QED
      BY <1>5, <3>1 DEF Submit, ClearForResume, RecordFailure, RaiseError, ClientCall, AnyState
  <2>3. status' = status /\ \A q \in Clients \ {l} : call'[q] = call[q]
    BY <2>2, CallFrame DEF journal, Clients
  <2> QED
    BY <2>1, <2>3, <1>0, <1>1 DEF Clients
<1> QED
  BY <1>2, <1>3, <1>4, <1>5 DEF LauncherStep

\* The target that set_state and append_event prepare.
LEMMA CallTargets ==
    ASSUME IInv, NEW p \in Clients
    PROVE  /\ \A s, m : J!SetState(p, s, m) =>
                 call[p] = J!Idle /\ call'[p].pc = "commit" /\ call'[p].target.st = s
           /\ \A x : J!AppendEvent(p, x) =>
                 /\ call[p] = J!Idle /\ call'[p].pc = "commit"
                 /\ call'[p].target.st = status.st
           /\ \A r : J!RecordReceipt(p, r) =>
                 call[p] = J!Idle /\ call'[p].pc \in {"receipt", "raised"}
           /\ J!Create(p) =>
                 /\ call[p] = J!Idle /\ call'[p].pc = "commit"
                 /\ call'[p].target.st = "QUEUED"
           /\ J!RequestCancel(p) =>
                 J!Opened /\ call[p] = J!Idle /\ call'[p].pc = "cancel"
           /\ J!ClearCancel(p) => J!Opened /\ UNCHANGED call
           /\ J!Handle(p) => call[p].pc = "raised" /\ call'[p] = J!Idle
<1>0. status \in JP!JobStatus /\ JP!IInv
  BY DEF IInv, JP!IInv, JP!TypeOK
<1>1. ASSUME NEW s, NEW m, J!SetState(p, s, m)
      PROVE  call[p] = J!Idle /\ call'[p].pc = "commit" /\ call'[p].target.st = s
  <2> DEFINE t == [status EXCEPT !.st = s, !.manifest = IF m = NoStage THEN @ ELSE m]
  <2>1. J!Return(p, J!Prepared(t, J!StateChanged(s))) /\ call[p] = J!Idle
    BY <1>1 DEF J!SetState
  <2>2. t.st = s
    BY <1>0 DEF JP!JobStatus
  <2> HIDE DEF t
  <2> QED
    BY <2>1, <2>2, <1>0, JournalTyped, Values
<1>2. ASSUME NEW x, J!AppendEvent(p, x)
      PROVE  /\ call[p] = J!Idle /\ call'[p].pc = "commit"
             /\ call'[p].target.st = status.st
  BY <1>2, <1>0, JournalTyped, Values DEF J!AppendEvent
<1>3. ASSUME NEW r, J!RecordReceipt(p, r)
      PROVE  call[p] = J!Idle /\ call'[p].pc \in {"receipt", "raised"}
  BY <1>3, <1>0, JournalTyped, Values DEF J!RecordReceipt, J!Idle
<1>4. J!Create(p) => /\ call[p] = J!Idle /\ call'[p].pc = "commit"
                     /\ call'[p].target.st = "QUEUED"
  BY <1>0, JournalTyped, Values DEF J!Create, J!NoStatus
<1>5. /\ J!RequestCancel(p) =>
            J!Opened /\ call[p] = J!Idle /\ call'[p].pc = "cancel"
      /\ J!ClearCancel(p) => J!Opened /\ UNCHANGED call
      /\ J!Handle(p) => call[p].pc = "raised" /\ call'[p] = J!Idle
  BY <1>0, JournalTyped, Values DEF J!RequestCancel, J!ClearCancel, J!Handle, J!Idle
<1> QED
  BY <1>1, <1>2, <1>3, <1>4, <1>5

\* What a call in progress does when it goes on.
LEMMA CallStepFrame ==
    ASSUME IInv, NEW p \in Clients, J!CallStep(p)
    PROVE  /\ \A q \in Clients \ {p} : call'[q] = call[q]
           /\ call[p] # J!Idle
           /\ call[p].pc \notin {"idle", "raised"}
           /\ call[p].pc \in {"receipt", "cancel"} =>
                 call'[p].pc = "commit" /\ call'[p].target.st = status.st
           /\ call[p].pc = "commit" =>
                 \/ call'[p] = J!Raised /\ status.st \in Terminal /\ status' = status
                 \/ /\ call'[p].pc = "write" /\ call'[p].target.st = call[p].target.st
                    /\ status' = status
           /\ call[p].pc = "write" =>
                 call'[p] = J!Idle /\ status' = call[p].target
           /\ call[p].pc # "write" => status' = status
<1>0. CallInv(p) /\ JP!IInv /\ call[p].target \in JP!JobStatus
  BY DEF IInv, JP!IInv, JP!TypeOK, JP!Call
<1>1. \A q \in Clients \ {p} : call'[q] = call[q]
  BY <1>0, JournalTyped DEF J!CallStep, J!ReceiptRead, J!CancelRead, J!CommitEvent,
     J!CommitState, J!BeatFile, J!BeatState
<1>2. call[p] # J!Idle /\ call[p].pc \notin {"idle", "raised"}
  BY Values DEF J!CallStep, J!ReceiptRead, J!CancelRead, J!CommitEvent,
     J!CommitState, J!BeatFile, J!BeatState
<1>3. ASSUME call[p].pc = "commit"
      PROVE  \/ call'[p] = J!Raised /\ status.st \in Terminal /\ status' = status
             \/ /\ call'[p].pc = "write" /\ call'[p].target.st = call[p].target.st
                /\ status' = status
  <2>1. J!CommitEvent(p)
    BY <1>3 DEF J!CallStep, J!ReceiptRead, J!CancelRead, J!CommitState, J!BeatFile,
       J!BeatState
  <2>2. J!Merged(status, call[p].target).st = call[p].target.st
    BY <1>0 DEF J!Merged, JP!JobStatus
  <2> QED
    BY <2>1, <2>2, <1>0, JournalTyped DEF J!CommitEvent, J!LeavesTerminal, Terminal
<1>4. call[p].pc = "write" => call'[p] = J!Idle /\ status' = call[p].target
  BY <1>0, JournalTyped DEF J!CallStep, J!ReceiptRead, J!CancelRead, J!CommitEvent,
     J!CommitState, J!BeatFile, J!BeatState
<1>5. call[p].pc # "write" => status' = status
  BY <1>0 DEF J!CallStep, J!ReceiptRead, J!CancelRead, J!CommitEvent,
     J!CommitState, J!BeatFile, J!BeatState, CallInv
<1>6. ASSUME call[p].pc \in {"receipt", "cancel"}
      PROVE  call'[p].pc = "commit" /\ call'[p].target.st = status.st
  <2>1. J!ReceiptRead(p) \/ J!CancelRead(p)
    BY <1>6 DEF J!CallStep, J!CommitEvent, J!CommitState, J!BeatFile, J!BeatState
  <2>2. PICK t, e : J!Return(p, J!Prepared(t, e)) /\ t.st = status.st
    <3>1. status \in JP!JobStatus
      BY <1>0 DEF JP!IInv, JP!TypeOK
    <3> QED
      BY <2>1, <3>1 DEF J!ReceiptRead, J!CancelRead, JP!JobStatus
  <2> QED
    BY <2>2, <1>0, JournalTyped, Values
<1> QED
  BY <1>1, <1>2, <1>3, <1>4, <1>5, <1>6

LEMMA WorkersStay ==
    ASSUME IInv, [Next]_vars
    PROVE  \A q \in Workers : WorkerInv(q)'
<1>0. /\ TypeOK /\ NoClient \notin Workers
      /\ Workers \cap (Launchers \cup Cancellers \cup {Helper}) = {}
      /\ \A q \in Workers : WorkerInv(q)
  BY ProcessAssumption DEF IInv
<1>1. ASSUME NEW p \in Workers, WorkerStep(p)
      PROVE  \A q \in Workers : WorkerInv(q)'
  <2>1. WorkerInv(p)'
    BY <1>1, WorkerOwn DEF Next
  <2>2. \A q \in Workers \ {p} : WorkerInv(q)'
    BY <1>1, WorkerFrame, WorkerKept DEF Clients
  <2> QED
    BY <2>1, <2>2
<1>2. ASSUME NEW p \in Workers, Dies(p)
      PROVE  \A q \in Workers : WorkerInv(q)'
  <2>1. WorkerInv(p)'
    <3>1. J!Idle' = J!Idle
      BY DEF J!Idle, J!NoStatus, J!NoEvent
    <3> QED
      BY <1>2, <3>1, DiesFrame DEF WorkerInv, Executing
  <2>2. \A q \in Workers \ {p} : WorkerInv(q)'
    BY <1>2, DiesFrame, WorkerKept DEF Clients
  <2> QED
    BY <2>1, <2>2
<1>3. ASSUME NEW l \in Launchers, Submit(l) \/ Resume(l) \/ LauncherStep(l) \/ Expire(l)
      PROVE  \A q \in Workers : WorkerInv(q)'
  <2>1. CASE UNCHANGED <<worker, lease>> /\ \A q \in Workers : call'[q] = call[q]
    BY <2>1, WorkerKept
  <2>2. ASSUME UNCHANGED <<lease, call>>, NEW p \in Workers, worker[p].pc = "none",
               worker' = [worker EXCEPT ![p].pc = "execute"]
        PROVE  \A q \in Workers : WorkerInv(q)'
    <3>1. \A q \in Workers \ {p} : WorkerInv(q)'
      BY <2>2, <1>0, WorkerKept DEF TypeOK
    <3>2. WorkerInv(p)'
      <4>1. call'[p] = J!Idle /\ worker'[p].pc = "execute"
        BY <2>2, <1>0 DEF WorkerInv, Executing, TypeOK
      <4>2. J!Idle' = J!Idle
        BY DEF J!Idle, J!NoStatus, J!NoEvent
      <4> QED
        BY <4>1, <4>2 DEF WorkerInv, Executing
    <3> QED
      BY <3>1, <3>2
  <2> QED
    BY <1>3, <1>2, <2>1, <2>2, LauncherFrame
<1>4. ASSUME NEW c \in Cancellers, Cancel(c) \/ CancelRaises(c)
      PROVE  \A q \in Workers : WorkerInv(q)'
  <2>1. ClientCall(c) \/ J!Handle(c)
    BY <1>4, ProcessAssumption DEF Cancel, CancelRaises, ClientCall
  <2>2. \A q \in Workers : call'[q] = call[q]
    BY <2>1, <1>0, CallFrame DEF Clients
  <2> QED
    BY <1>4, <2>2, WorkerKept DEF Cancel, CancelRaises, processes
<1>5. ASSUME NEW p \in Clients, CallStep(p)
      PROVE  \A q \in Workers : WorkerInv(q)'
  <2>1. \A q \in Workers : call'[q] # J!Idle => call[q] # J!Idle
    BY <1>5, CallStepFrame DEF CallStep, Clients
  <2> QED
    BY <1>5, <2>1, WorkerKept DEF CallStep, processes
<1>6. CASE Beat \/ MissDeadline \/ UNCHANGED vars
  BY <1>6, WorkerKept DEF Beat, MissDeadline, vars, journal, processes
<1> QED
  BY <1>1, <1>2, <1>3, <1>4, <1>5, <1>6 DEF Next, Kill

LEMMA GoesTo ==
    ASSUME TypeOK, NEW l \in Launchers, NEW here, NEW next, Goes(l, here, next)
    PROVE  /\ launch[l].pc = here /\ call[l] = J!Idle /\ launch'[l].pc = next
           /\ launch'[l].child = launch[l].child
           /\ launch' = [launch EXCEPT ![l].pc = next]
  BY DEF Goes, TypeOK

\* A launcher's own step, and the steps of the others.
LEMMA LaunchersStay ==
    ASSUME IInv, [Next]_vars
    PROVE  \A k \in Launchers : LaunchInv(k)'
<1>0. /\ TypeOK /\ Launchers \cap Workers = {} /\ JP!IInv
      /\ Launchers \cap Cancellers = {}
      /\ \A k \in Launchers : LaunchInv(k)
      /\ status.st \in Terminal => status'.st \in Terminal
      /\ Terminal' = Terminal /\ J!Idle' = J!Idle /\ J!Raised' = J!Raised
  BY ProcessAssumption, Lasting DEF IInv, Terminal, J!Terminal, J!Idle, J!Raised,
     J!NoStatus, J!NoEvent
<1>1. ASSUME NEW k \in Launchers, launch'[k] = launch[k], call'[k] = call[k]
      PROVE  LaunchInv(k)'
  BY <1>0, <1>1 DEF LaunchInv
<1>2. ASSUME NEW p \in Workers, WorkerStep(p) \/ Kill(p)
      PROVE  \A k \in Launchers : LaunchInv(k)'
  <2>1. \A k \in Launchers : launch'[k] = launch[k] /\ call'[k] = call[k]
    BY <1>2, <1>0, WorkerFrame, DiesFrame DEF Kill, Clients
  <2> QED
    BY <2>1, <1>1
<1>3. ASSUME NEW l \in Launchers, Submit(l) \/ Resume(l) \/ LauncherStep(l) \/ Expire(l)
      PROVE  \A k \in Launchers : LaunchInv(k)'
  <2>1. \A k \in Launchers \ {l} : LaunchInv(k)'
    BY <1>3, <1>1, LauncherFrame
  <2>2. ASSUME \/ launch'[l].pc \in {"clear", "spawn", "returned", "refused", "fail"}
               \/ /\ launch[l].pc \in {"await", "poll"}
                  /\ launch'[l].pc \in {"await", "poll", "stop"}
                  /\ launch'[l].child = launch[l].child
               \/ launch'[l].pc = "raised" /\ status.st \in Terminal
        PROVE  LaunchInv(l)'
    BY <2>2, <1>0 DEF LaunchInv
  <2>3. ASSUME Submit(l) \/ ClearForResume(l) \/ SpawnRaises(l) \/ Stop(l)
        PROVE  LaunchInv(l)'
    <3>1. launch'[l].pc \in {"spawn", "fail"}
      BY <2>3, <1>0, GoesTo DEF Submit, ClearForResume, SpawnRaises, Stop
    <3> QED
      BY <3>1, <2>2
  <2>4. ASSUME Resume(l)
        PROVE  LaunchInv(l)'
    <3>1. launch'[l].pc \in {"returned", "clear", "refused"}
      BY <2>4, <1>0, GoesTo DEF Resume
    <3> QED
      BY <3>1, <2>2
  <2>5. ASSUME Spawn(l)
        PROVE  LaunchInv(l)'
    BY <2>5, <1>0 DEF Spawn, LaunchInv, TypeOK
  <2>6. ASSUME Await(l) \/ Poll(l)
        PROVE  LaunchInv(l)'
    <3>1. PICK here \in {"await", "poll"},
               next \in {"returned", "await", "poll", "stop", "fail"} : Goes(l, here, next)
      BY <2>6 DEF Await, Poll
    <3> QED
      BY <3>1, <1>0, <2>2, GoesTo
  <2>7. ASSUME Expire(l)
        PROVE  LaunchInv(l)'
    BY <2>7, <1>0 DEF Expire, LaunchInv, TypeOK
  <2>8. ASSUME RecordFailure(l)
        PROVE  LaunchInv(l)'
    <3>1. CASE status.st \in Terminal
      BY <2>8, <3>1, <1>0, <2>2, GoesTo DEF RecordFailure
    <3>2. CASE status.st \notin Terminal
      <4>1. launch'[l].pc = "raising"
        BY <2>8, <3>2, <1>0 DEF RecordFailure, Goes, TypeOK
      <4>2. call'[l].pc = "commit" /\ call'[l].target.st = "FAILED"
        BY <2>8, <3>2, CallTargets DEF RecordFailure, Clients
      <4> QED
        BY <4>1, <4>2 DEF LaunchInv
    <3> QED
      BY <3>1, <3>2
  <2>9. ASSUME RaiseError(l)
        PROVE  LaunchInv(l)'
    <3>1. launch[l].pc = "raising" /\ launch'[l].pc = "raised"
      BY <2>9, <1>0 DEF RaiseError, Goes, TypeOK
    <3>2. call[l].pc \in {"idle", "raised"}
      BY <2>9, Values DEF RaiseError, Goes, J!Handle
    <3>3. status'.st \in Terminal
      BY <3>1, <3>2, <1>0 DEF LaunchInv
    <3> QED
      BY <3>1, <3>3, <1>0 DEF LaunchInv
  <2>10. LaunchInv(l)'
    BY <1>3, <2>3, <2>4, <2>5, <2>6, <2>7, <2>8, <2>9 DEF LauncherStep
  <2> QED
    BY <2>1, <2>10
<1>4. ASSUME NEW c \in Cancellers, Cancel(c) \/ CancelRaises(c)
      PROVE  \A k \in Launchers : LaunchInv(k)'
  <2>1. ClientCall(c) \/ J!Handle(c)
    BY <1>4, ProcessAssumption DEF Cancel, CancelRaises, ClientCall
  <2>2. \A k \in Launchers : call'[k] = call[k]
    BY <2>1, <1>0, CallFrame DEF Clients
  <2> QED
    BY <1>4, <2>2, <1>1 DEF Cancel, CancelRaises, processes
<1>5. ASSUME NEW p \in Clients, CallStep(p), NEW k \in Launchers
      PROVE  LaunchInv(k)'
  <2>1. J!CallStep(p) /\ launch' = launch
    BY <1>5 DEF CallStep, processes
  <2>2. CASE p # k
    BY <2>1, <2>2, <1>1, CallStepFrame DEF Clients
  <2>3. CASE p = k
    <3>1. launch[k].pc # "raising" => LaunchInv(k)'
      BY <2>1, <1>0 DEF LaunchInv
    <3>2. ASSUME launch[k].pc = "raising"
          PROVE  LaunchInv(k)'
      <4>1. call[k].pc \in {"commit", "write"} /\ call[k].target.st = "FAILED"
        BY <2>1, <2>3, <3>2, <1>0, CallStepFrame, Values DEF LaunchInv
      <4>2. CASE call[k].pc = "commit"
        BY <2>1, <2>3, <3>2, <4>1, <4>2, <1>0, CallStepFrame DEF LaunchInv
      <4>3. CASE call[k].pc = "write"
        BY <2>1, <2>3, <3>2, <4>1, <4>3, <1>0, CallStepFrame, Values DEF LaunchInv
      <4> QED
        BY <4>1, <4>2, <4>3
    <3> QED
      BY <3>1, <3>2
  <2> QED
    BY <2>2, <2>3
<1>6. CASE Beat \/ MissDeadline \/ UNCHANGED vars
  BY <1>6, <1>1 DEF Beat, MissDeadline, vars, journal, processes
<1> QED
  BY <1>2, <1>3, <1>4, <1>5, <1>6 DEF Next

LEMMA TypesStay ==
    ASSUME IInv, [Next]_vars
    PROVE  TypeOK'
<1> DEFINE Worker == [pc : WorkerPc, stage : 1..LastStage + 1,
                      manifest : Stages \cup {NoStage}, seen : AnyState \cup {"MISSING"}]
           Launch == [pc : LaunchPc, child : Workers \cup {NoClient}, expired : BOOLEAN]
<1>0. /\ worker \in [Workers -> Worker] /\ launch \in [Launchers -> Launch]
      /\ lease \in Workers \cup {NoClient}
      /\ \A q \in Workers : WorkerInv(q)
      /\ status.st \in AnyState \cup {"MISSING"}
      /\ status.manifest \in Stages \cup {NoStage}
  BY JournalTyped DEF IInv, TypeOK
<1>1. ASSUME NEW p \in Workers, NEW here, NEW next \in WorkerPc, Moves(p, here, next)
      PROVE  worker' \in [Workers -> Worker]
  BY <1>1, <1>0 DEF Moves
<1>6. ASSUME NEW p \in Workers, NEW w \in Worker, worker' = [worker EXCEPT ![p] = w]
      PROVE  worker' \in [Workers -> Worker]
  <2> HIDE DEF Worker
  <2> QED
    BY <1>6, <1>0
<1>2. ASSUME NEW p \in Workers, WorkerStep(p)
      PROVE  worker' \in [Workers -> Worker] /\ launch' = launch
             /\ lease' \in Workers \cup {NoClient}
  <2>1. launch' = launch
    BY <1>2, WorkerFrame
  <2>2. lease' \in Workers \cup {NoClient}
    BY <1>2, <1>0 DEF WorkerStep, Execute, ClearFlag, TakeLease, Claim, Advance, Sets,
       LoadManifest, CheckCancel, BeginStage, KeyFails, EndStage, ReadToPublish, Publish,
       Conflict, Recover, Finish, Leaves
  <2>3. CASE LoadManifest(p)
    <3>1. worker' = [worker EXCEPT ![p] = [worker[p] EXCEPT !.pc = "check",
                                                   !.manifest = status.manifest]]
      BY <2>3, <1>0 DEF LoadManifest
    <3>2. [worker[p] EXCEPT !.pc = "check", !.manifest = status.manifest] \in Worker
      BY <1>0 DEF WorkerPc
    <3> QED
      BY <3>1, <3>2, <2>1, <2>2, <1>6
  <2>4. CASE ReadToPublish(p)
    <3>1. worker' = [worker EXCEPT ![p] = [worker[p] EXCEPT !.pc = "publishing",
                                                   !.seen = status.st]]
      BY <2>4, <1>0 DEF ReadToPublish
    <3>2. [worker[p] EXCEPT !.pc = "publishing", !.seen = status.st] \in Worker
      BY <1>0 DEF WorkerPc
    <3> QED
      BY <3>1, <3>2, <2>1, <2>2, <1>6
  <2>5. CASE Publish(p)
    <3>1. worker[p].stage \in Stages
      BY <2>5, <1>0 DEF Publish, WorkerInv
    <3>2. worker[p].stage + 1 \in 1..LastStage + 1
      BY <3>1, StageAssumption DEF Stages
    <3>3. worker' = [worker EXCEPT ![p] = [worker[p] EXCEPT !.pc = "check",
                        !.stage = worker[p].stage + 1, !.manifest = worker[p].stage]]
      BY <2>5, <1>0 DEF Publish
    <3>4. [worker[p] EXCEPT !.pc = "check", !.stage = worker[p].stage + 1,
                            !.manifest = worker[p].stage] \in Worker
      BY <3>1, <3>2, <1>0 DEF WorkerPc
    <3> QED
      BY <3>3, <3>4, <2>1, <2>2, <1>6
  <2>6. CASE Conflict(p)
    BY <2>6, <2>1, <2>2, <1>0 DEF Conflict, WorkerPc
  <2>7. CASE \E here, next \in WorkerPc : Moves(p, here, next)
    BY <2>7, <2>1, <2>2, <1>1
  <2>8. CASE Execute(p) \/ ClearFlag(p) \/ TakeLease(p) \/ Claim(p) \/ Advance(p)
             \/ CheckCancel(p)
    <3>1. \E here, next \in WorkerPc : Moves(p, here, next)
      BY <2>8 DEF Execute, ClearFlag, TakeLease, Claim, Advance, Sets, CheckCancel, Leaves,
         WorkerPc
    <3> QED
      BY <3>1, <2>7
  <2>9. CASE BeginStage(p) \/ KeyFails(p) \/ EndStage(p) \/ Recover(p) \/ Finish(p)
    <3>1. \E here, next \in WorkerPc : Moves(p, here, next)
      BY <2>9 DEF BeginStage, KeyFails, EndStage, Recover, Finish, Leaves, WorkerPc
    <3> QED
      BY <3>1, <2>7
  <2> QED
    BY <1>2, <2>1, <2>2, <2>3, <2>4, <2>5, <2>6, <2>8, <2>9 DEF WorkerStep
<1>3. ASSUME NEW p \in Workers, Dies(p)
      PROVE  worker' \in [Workers -> Worker] /\ lease' \in Workers \cup {NoClient}
  BY <1>3, <1>0 DEF Dies, WorkerPc
<1>4. ASSUME NEW l \in Launchers, Submit(l) \/ Resume(l) \/ LauncherStep(l) \/ Expire(l)
      PROVE  /\ worker' \in [Workers -> Worker] /\ launch' \in [Launchers -> Launch]
             /\ lease' \in Workers \cup {NoClient}
  <2>1. worker' \in [Workers -> Worker] /\ lease' \in Workers \cup {NoClient}
    BY <1>4, <1>0, <1>3, LauncherFrame DEF WorkerPc
  <2>2. ASSUME NEW here, NEW next \in LaunchPc, Goes(l, here, next)
        PROVE  launch' \in [Launchers -> Launch]
    BY <2>2, <1>0 DEF Goes
  <2>3. CASE Spawn(l)
    <3>1. PICK p \in Workers :
             launch' = [launch EXCEPT ![l].pc = "await", ![l].child = p]
      BY <2>3 DEF Spawn
    <3>2. launch' \in [Launchers -> Launch]
      BY <3>1, <1>0 DEF LaunchPc
    <3> QED
      BY <3>2, <2>1
  <2>4. CASE Expire(l) \/ RaiseError(l)
    <3>1. launch' \in [Launchers -> Launch]
      <4>1. CASE Expire(l)
        BY <4>1, <1>0 DEF Expire
      <4>2. CASE RaiseError(l)
        BY <4>2, <1>0 DEF RaiseError, Goes, LaunchPc
      <4> QED
        BY <2>4, <4>1, <4>2
    <3> QED
      BY <3>1, <2>1
  <2>5. CASE Submit(l) \/ Resume(l) \/ ClearForResume(l) \/ SpawnRaises(l) \/ Await(l)
             \/ Poll(l) \/ Stop(l) \/ RecordFailure(l)
    <3>1. \E here, next \in LaunchPc : Goes(l, here, next)
      BY <2>5 DEF Submit, Resume, ClearForResume, SpawnRaises, Await, Poll, Stop,
         RecordFailure, LaunchPc
    <3> QED
      BY <3>1, <2>1, <2>2
  <2> QED
    BY <1>4, <2>3, <2>4, <2>5 DEF LauncherStep
<1>5. CASE UNCHANGED <<worker, launch, lease>>
  BY <1>5, <1>0 DEF TypeOK
<1> QED
  BY <1>0, <1>2, <1>3, <1>4, <1>5 DEF Next, Kill, Cancel, CancelRaises, CallStep, Beat,
     MissDeadline, processes, vars, TypeOK

LEMMA NextIInv == IInv /\ [Next]_vars => IInv'
  BY Lasting, CallsStay, WorkersStay, LaunchersStay, TypesStay DEF IInv

LEMMA InitIInv == Init => IInv
<1> SUFFICES ASSUME Init
             PROVE  IInv
  OBVIOUS
<1>1. JP!IInv
  BY JournalAssumptions, JP!InitIInv, SameNext DEF Init
<1>2. \A p \in Clients : call[p] = J!Idle
  BY DEF Init, J!Init, Clients
<1>3. TypeOK
  BY StageAssumption DEF Init, TypeOK, WorkerPc, LaunchPc, AnyState
<1>4. \A p \in Clients : CallInv(p)
  BY <1>2, Values DEF CallInv
<1>5. \A p \in Workers : WorkerInv(p)
  BY <1>2 DEF Init, WorkerInv, Executing, Clients
<1>6. \A l \in Launchers : LaunchInv(l)
  BY DEF Init, LaunchInv
<1> QED
  BY <1>1, <1>3, <1>4, <1>5, <1>6 DEF IInv

\* The strengthened invariant: what the processes know of the files and of each
\* other.
THEOREM Invariance == Spec => []IInv
  BY InitIInv, NextIInv, PTL DEF Spec

-----------------------------------------------------------------------------
(* What it gives.                                                          *)

\* Whatever the launchers, the workers, their helper and the cancellers do to the
\* files of the job, JobJournal's clients may do: the submission, the stages, the
\* failed launches and the kills are all calls of its methods.
THEOREM KeepsToJournal == Spec => ImplementsJournal
<1>1. Init => J!Init
  BY DEF Init
<1>2. IInv /\ [Next]_vars => [J!Next]_(J!vars)
  BY StepIsJournalStep, JournalStepIsStep, SameNext
<1> QED
  BY <1>1, <1>2, Invariance, PTL DEF Spec, ImplementsJournal, J!Spec

\* A launcher raises only when the job has ended.
THEOREM FailedLaunchesEnd == Spec => []FailedLaunchEnds
<1>1. IInv => FailedLaunchEnds
  BY DEF IInv, LaunchInv, FailedLaunchEnds
<1> QED
  BY <1>1, Invariance, PTL

\* A worker that takes over a stale job declares it orphaned under the lease: no
\* other worker is inside run() then, so none is late rather than dead.
THEOREM OrphansAreAlone == Spec => OrphanedOnlyWhenAlone
<1>1. IInv /\ [Next]_vars =>
         [\A p, q \in Workers :
             /\ call[p].pc = "write" /\ call'[p].pc = "idle"
             /\ call[p].event = J!StateChanged("ORPHANED")
             /\ q # p
             => ~Executing(q)]_vars
  BY Values DEF IInv, WorkerInv
<1> QED
  BY <1>1, Invariance, PTL DEF Spec, OrphanedOnlyWhenAlone

-----------------------------------------------------------------------------
(* One launch: the job is submitted once, and nobody resumes it meanwhile. *)

OneLauncher == \A k, l \in Launchers : k = l

\* Where a worker stands that has not claimed the job, and where it may stand when
\* the job has ended.
Early == {"none", "execute", "clear", "lease", "claim"}
Over == Early \cup {"ending", "recover", "lastTry", "returned", "error", "dead"}

\* The only worker is the launcher's child, and a launcher that fails has none, or
\* has outlived it.
Spawned ==
    /\ \A p \in Workers :
          worker[p].pc # "none" => \E l \in Launchers : launch[l].child = p
    /\ \A l \in Launchers :
          /\ launch[l].pc \in {"none", "clear", "spawn"} => launch[l].child = NoClient
          /\ launch[l].pc \in {"fail", "raising", "raised"} =>
                launch[l].child = NoClient \/ Exited(launch[l].child)

\* The job is ended by the launcher whose worker has exited, or by the last call of
\* the worker; all other writers write an end over an end.
Ended ==
    /\ status.st \in Terminal => \A p \in Workers : worker[p].pc \in Over
    /\ \A p \in Workers : worker[p].pc = "publishing" => worker[p].seen \notin Terminal
    /\ \A p \in Clients :
          call[p].pc \in {"commit", "write"} /\ call[p].target.st \in Terminal =>
             \/ status.st \in Terminal
             \/ p \in Launchers /\ launch[p].pc = "raising"
             \/ p \in Workers /\ worker[p].pc \in {"ending", "lastTry"}

OneLaunch == Spawned /\ Ended

LEMMA OnlyChild ==
    ASSUME OneLauncher, Spawned, NEW p \in Workers, NEW q \in Workers,
           worker[p].pc # "none", worker[q].pc # "none"
    PROVE  p = q
  BY DEF OneLauncher, Spawned

\* A worker's step, as far as it matters to the end of the job.
LEMMA WorkerCourse ==
    ASSUME IInv, NEW p \in Workers, WorkerStep(p)
    PROVE  /\ worker[p].pc # "none" /\ ~Exited(p)
           /\ worker'[p].pc \in Early => worker[p].pc \in Early
           /\ status.st \in Terminal /\ worker[p].pc \in Over => worker'[p].pc \in Over
           /\ worker'[p].pc = "publishing" =>
                 worker[p].pc = "publish" /\ worker'[p].seen = status.st
<1>0. TypeOK /\ WorkerInv(p)
  BY DEF IInv
<1>1. CASE Execute(p) \/ ClearFlag(p) \/ TakeLease(p)
  <2>1. PICK here \in {"execute", "clear", "lease"},
             next \in {"returned", "clear", "error", "lease", "claim"} :
           Moves(p, here, next)
    BY <1>1 DEF Execute, ClearFlag, TakeLease
  <2> QED
    BY <2>1, <1>0, MovesTo DEF Early, Over, Exited
<1>2. CASE Claim(p)
  <2>1. PICK next \in {"returned", "error", "staging"} :
           /\ Moves(p, "claim", next)
           /\ next = "staging" => status.st \notin Terminal
    BY <1>2, Values DEF Claim, Leaves
  <2> QED
    BY <2>1, <1>0, MovesTo DEF Early, Over, Exited
<1>3. CASE Advance(p) \/ CheckCancel(p) \/ BeginStage(p) \/ KeyFails(p) \/ EndStage(p)
  <2>1. PICK here \in {"staging", "running", "collecting", "committing", "succeed", "fail",
                       "check", "begin", "work"},
             next \in {"running", "load", "committing", "succeed", "ending", "collecting",
                       "begin", "publish", "work", "recover", "fail"} :
           Moves(p, here, next)
    BY <1>3 DEF Advance, Sets, CheckCancel, BeginStage, KeyFails, EndStage
  <2> QED
    BY <2>1, <1>0, MovesTo DEF Early, Over, Exited
<1>4. CASE Recover(p) \/ Finish(p)
  <2>1. PICK here \in {"recover", "ending", "lastTry"}, next \in {"returned", "lastTry"} :
           Moves(p, here, next)
    BY <1>4 DEF Recover, Finish, Leaves
  <2> QED
    BY <2>1, <1>0, MovesTo DEF Early, Over, Exited
<1>5. CASE LoadManifest(p)
  <2>1. worker[p].pc = "load" /\ worker'[p].pc = "check"
    BY <1>5, <1>0 DEF LoadManifest, TypeOK
  <2> QED
    BY <2>1 DEF Early, Over, Exited
<1>6. CASE ReadToPublish(p)
  <2>1. /\ worker[p].pc = "publish" /\ worker'[p].pc = "publishing"
        /\ worker'[p].seen = status.st
    BY <1>6, <1>0 DEF ReadToPublish, TypeOK
  <2> QED
    BY <2>1 DEF Early, Over, Exited
<1>7. CASE Publish(p)
  <2>1. worker[p].pc = "publishing" /\ worker'[p].pc = "check"
    BY <1>7, <1>0 DEF Publish, TypeOK
  <2> QED
    BY <2>1 DEF Early, Over, Exited
<1>8. CASE Conflict(p)
  <2>1. Executing(p)
    BY <1>8, <1>0, Values DEF Conflict, J!Handle, WorkerInv
  <2>2. worker'[p].pc \in {"error", "recover"}
    BY <1>8, <1>0 DEF Conflict, TypeOK
  <2> QED
    BY <2>1, <2>2 DEF Early, Over, Exited, Executing
<1> QED
  BY <1>1, <1>2, <1>3, <1>4, <1>5, <1>6, <1>7, <1>8 DEF WorkerStep

\* A worker writes the end of the job with its last call only.
LEMMA WorkerEnds ==
    ASSUME IInv, NEW p \in Workers, WorkerStep(p),
           call'[p].pc \in {"commit", "write"}, call'[p].target.st \in Terminal
    PROVE  \/ status.st \in Terminal
           \/ worker'[p].pc \in {"ending", "lastTry"}
           \/ worker[p].pc = "publishing" /\ worker[p].seen \in Terminal
<1>0. TypeOK /\ WorkerInv(p) /\ p \in Clients
  BY DEF IInv, Clients
<1>1. CASE Execute(p) \/ ClearFlag(p) \/ TakeLease(p) \/ LoadManifest(p) \/ KeyFails(p)
           \/ ReadToPublish(p) \/ Finish(p)
  <2>1. call'[p] = J!Idle
    BY <1>1 DEF Execute, ClearFlag, TakeLease, LoadManifest, KeyFails, ReadToPublish,
       Finish, Leaves, Moves, journal, J!ClearCancel
  <2> QED
    BY <2>1, Values
<1>2. CASE Claim(p)
  BY <1>2, <1>0, CallTargets, Values DEF Claim, Leaves, Moves, journal
<1>3. CASE Advance(p)
  <2>1. CASE \E here \in WorkerPc, s \in InFlight, next \in WorkerPc :
               Sets(p, here, s, NoStage, next)
    BY <2>1, <1>0, CallTargets, Values DEF Sets
  <2>2. CASE \E here \in WorkerPc, s \in Terminal, m \in Stages \cup {NoStage} :
               Sets(p, here, s, m, "ending")
    BY <2>2, <1>0, MovesTo DEF Sets
  <2>3. worker[p].manifest \in Stages \cup {NoStage}
    BY <1>0 DEF TypeOK
  <2> QED
    BY <1>3, <2>1, <2>2, <2>3, Values DEF Advance, WorkerPc
<1>4. CASE CheckCancel(p)
  <2>1. CASE UNCHANGED journal /\ \E next \in {"collecting", "begin"} : Moves(p, "check", next)
    BY <2>1, Values DEF Moves, journal
  <2>2. CASE Moves(p, "check", "ending")
    BY <2>2, <1>0, MovesTo
  <2> QED
    BY <1>4, <2>1, <2>2 DEF CheckCancel
<1>5. CASE BeginStage(p) \/ EndStage(p)
  BY <1>5, <1>0, CallTargets, Values DEF BeginStage, EndStage
<1>6. CASE Publish(p)
  BY <1>6, <1>0, CallTargets DEF Publish
<1>7. CASE Conflict(p)
  BY <1>7, <1>0, CallTargets, Values DEF Conflict
<1>8. CASE Recover(p)
  <2>1. CASE UNCHANGED journal /\ Leaves(p, "recover", "returned")
    BY <2>1, Values DEF Leaves, Moves, journal
  <2>2. CASE Moves(p, "recover", "lastTry")
    BY <2>2, <1>0, MovesTo
  <2> QED
    BY <1>8, <2>1, <2>2 DEF Recover
<1> QED
  BY <1>1, <1>2, <1>3, <1>4, <1>5, <1>6, <1>7, <1>8 DEF WorkerStep

LEMMA SpawnedStays ==
    ASSUME OneLauncher, IInv, Spawned, [Next]_vars
    PROVE  Spawned'
<1>0. TypeOK /\ NoClient \notin Workers /\ IInv
  BY ProcessAssumption DEF IInv
<1>1. ASSUME NEW p \in Workers, worker[p].pc # "none", launch' = launch,
             \A q \in Workers \ {p} : worker'[q] = worker[q],
             Exited(p) => Exited(p)'
      PROVE  Spawned'
  <2>1. \A l \in Launchers : launch[l].child \in Workers \cup {NoClient}
    BY <1>0 DEF TypeOK
  <2>2. ASSUME NEW l \in Launchers, launch[l].child # NoClient, Exited(launch[l].child)
        PROVE  Exited(launch[l].child)'
    BY <1>1, <2>1, <2>2 DEF Exited
  <2> QED
    BY <1>1, <2>2 DEF Spawned
<1>2. ASSUME NEW p \in Workers, WorkerStep(p)
      PROVE  Spawned'
  BY <1>2, <1>0, <1>1, WorkerFrame, WorkerCourse
<1>3. ASSUME NEW p \in Workers, Kill(p)
      PROVE  Spawned'
  BY <1>3, <1>0, <1>1, DiesFrame DEF Kill, Exited
<1>4. ASSUME NEW l \in Launchers, Submit(l) \/ Resume(l) \/ LauncherStep(l) \/ Expire(l)
      PROVE  Spawned'
  <2>0. \A k \in Launchers : k = l
    BY DEF OneLauncher
  <2>1. ASSUME worker' = worker, launch'[l].child = launch[l].child,
               \/ /\ launch[l].pc \in {"none", "clear", "spawn"}
               \/ /\ launch[l].pc \in {"fail", "raising", "raised"}
                  /\ launch'[l].pc \in {"fail", "raising", "raised"}
               \/ launch'[l].pc \in {"await", "poll", "stop", "returned", "refused"}
               \/ launch'[l].pc = "fail" /\ Exited(launch[l].child)
        PROVE  Spawned'
    BY <2>0, <2>1 DEF Spawned, Exited
  <2>2. CASE Submit(l) \/ Resume(l) \/ ClearForResume(l) \/ SpawnRaises(l) \/ Await(l)
             \/ Poll(l) \/ RecordFailure(l)
    <3>1. worker' = worker
      BY <2>2 DEF Submit, Resume, ClearForResume, SpawnRaises, Await, Poll, RecordFailure
    <3>2. PICK here \in LaunchPc, next \in LaunchPc :
             /\ Goes(l, here, next)
             /\ \/ here \in {"none", "clear", "spawn"}
                \/ next \in {"await", "poll", "stop", "returned", "refused"}
                \/ here = "fail" /\ next \in {"raising", "raised"}
                \/ next = "fail" /\ Exited(launch[l].child)
      BY <2>2 DEF Submit, Resume, ClearForResume, SpawnRaises, Await, Poll, RecordFailure,
         LaunchPc
    <3> QED
      BY <3>1, <3>2, <2>1, <1>0, GoesTo
  <2>3. CASE RaiseError(l)
    <3>1. /\ worker' = worker /\ launch[l].pc = "raising" /\ launch'[l].pc = "raised"
          /\ launch'[l].child = launch[l].child
      BY <2>3, <1>0 DEF RaiseError, Goes, TypeOK
    <3> QED
      BY <3>1, <2>1
  <2>4. CASE Expire(l)
    <3>1. /\ worker' = worker /\ launch'[l].pc = launch[l].pc
          /\ launch[l].pc \in {"await", "poll"} /\ launch'[l].child = launch[l].child
      BY <2>4, <1>0 DEF Expire, TypeOK
    <3> QED
      BY <3>1, <2>1
  <2>5. CASE Spawn(l)
    <3>1. PICK p \in Workers :
             /\ worker' = [worker EXCEPT ![p].pc = "execute"]
             /\ launch' = [launch EXCEPT ![l].pc = "await", ![l].child = p]
      BY <2>5 DEF Spawn
    <3>2. launch[l].child = NoClient
      BY <2>5 DEF Spawn, Spawned
    <3>3. \A q \in Workers : worker[q].pc = "none"
      BY <3>2, <2>0, <1>0 DEF Spawned
    <3>4. \A q \in Workers : worker'[q].pc # "none" => q = p
      BY <3>1, <3>3, <1>0 DEF TypeOK
    <3>5. launch'[l].pc = "await" /\ launch'[l].child = p
      BY <3>1, <1>0 DEF TypeOK
    <3> QED
      BY <3>4, <3>5, <2>0 DEF Spawned
  <2>6. CASE Stop(l)
    <3>1. /\ launch[l].pc = "stop" /\ launch'[l].pc = "fail"
          /\ launch'[l].child = launch[l].child
      BY <2>6, <1>0, GoesTo DEF Stop
    <3>2. CASE Exited(launch[l].child)
      BY <2>6, <3>1, <3>2, <2>1 DEF Stop
    <3>3. CASE ~Exited(launch[l].child)
      <4>1. Dies(launch[l].child) /\ launch[l].child \in Workers
        BY <2>6, <3>1, <3>3 DEF Stop, IInv, LaunchInv
      <4> QED
        BY <4>1, <3>1, <2>0, DiesFrame DEF Spawned, Exited
    <3> QED
      BY <3>2, <3>3
  <2> QED
    BY <1>4, <2>2, <2>3, <2>4, <2>5, <2>6 DEF LauncherStep
<1>5. CASE UNCHANGED <<worker, launch>>
  BY <1>5 DEF Spawned, Exited
<1> QED
  BY <1>2, <1>3, <1>4, <1>5 DEF Next, Cancel, CancelRaises, CallStep, Beat, MissDeadline,
     processes, vars

LEMMA EndedStays ==
    ASSUME OneLauncher, IInv, IInv', Spawned, Ended, [Next]_vars
    PROVE  Ended'
<1>0. /\ TypeOK /\ Terminal' = Terminal
      /\ NoClient \notin Workers /\ Launchers \cap Workers = {}
      /\ Workers \cap Cancellers = {} /\ Launchers \cap Cancellers = {}
      /\ status.st \in Terminal => status'.st = status.st
      /\ \A p \in Clients : CallInv(p)
  BY ProcessAssumption, Lasting DEF IInv, Terminal, J!Terminal
\* A step that writes no status: where its process stands, and what it calls.
<1>1. ASSUME status' = status, NEW c \in Clients,
             \A q \in Clients \ {c} : call'[q] = call[q],
             \A q \in Workers \ {c} : worker'[q] = worker[q],
             \A k \in Launchers \ {c} : launch'[k] = launch[k],
             c \in Workers =>
                /\ status.st \in Terminal => worker'[c].pc \in Over
                /\ worker'[c].pc = "publishing" => worker'[c].seen \notin Terminal,
             call'[c].pc \in {"commit", "write"} /\ call'[c].target.st \in Terminal =>
                \/ status.st \in Terminal
                \/ c \in Launchers /\ launch'[c].pc = "raising"
                \/ c \in Workers /\ worker'[c].pc \in {"ending", "lastTry"}
      PROVE  Ended'
  <2>1. status'.st \in Terminal => \A p \in Workers : worker'[p].pc \in Over
    BY <1>1 DEF Ended
  <2>2. \A p \in Workers : worker'[p].pc = "publishing" => worker'[p].seen \notin Terminal
    BY <1>1 DEF Ended
  <2>3. ASSUME NEW p \in Clients, call'[p].pc \in {"commit", "write"},
               call'[p].target.st \in Terminal
        PROVE  \/ status'.st \in Terminal
               \/ p \in Launchers /\ launch'[p].pc = "raising"
               \/ p \in Workers /\ worker'[p].pc \in {"ending", "lastTry"}
    BY <1>1, <2>3 DEF Ended
  <2> QED
    BY <2>1, <2>2, <2>3, <1>0 DEF Ended, Over, Early
<1>2. ASSUME NEW p \in Workers, WorkerStep(p)
      PROVE  Ended'
  <2>1. /\ status' = status /\ launch' = launch /\ p \in Clients
        /\ \A q \in Clients \ {p} : call'[q] = call[q]
        /\ \A q \in Workers \ {p} : worker'[q] = worker[q]
    BY <1>2, WorkerFrame DEF Clients
  <2>2. status.st \in Terminal => worker'[p].pc \in Over
    BY <1>2, WorkerCourse DEF Ended
  <2>3. worker'[p].pc = "publishing" => worker'[p].seen \notin Terminal
    BY <1>2, WorkerCourse DEF Ended, Over, Early
  <2>4. call'[p].pc \in {"commit", "write"} /\ call'[p].target.st \in Terminal =>
           status.st \in Terminal \/ worker'[p].pc \in {"ending", "lastTry"}
    BY <1>2, WorkerEnds DEF Ended
  <2> QED
    BY <2>1, <2>2, <2>3, <2>4, <1>1
<1>3. ASSUME NEW p \in Workers, Dies(p),
             \A k \in Launchers : launch[k].pc # "stop" => launch'[k] = launch[k]
      PROVE  Ended'
  <2>1. /\ status' = status /\ call'[p].pc = "idle" /\ worker'[p].pc = "dead"
        /\ \A q \in Clients \ {p} : call'[q] = call[q]
        /\ \A q \in Workers \ {p} : worker'[q] = worker[q]
    BY <1>3, DiesFrame, Values DEF Clients
  <2>2. \A k \in Launchers : launch[k].pc = "raising" => launch'[k].pc = "raising"
    BY <1>3
  <2>3. \A q \in Workers : worker'[q].pc \in Over \/ worker'[q] = worker[q]
    BY <2>1 DEF Over
  <2>4. \A q \in Workers : worker'[q].pc # "dead" => worker'[q] = worker[q]
    BY <2>1
  <2>5. \A q \in Clients : call'[q].pc # "idle" => call'[q] = call[q]
    BY <2>1
  <2>6. \A q \in Workers : call'[q].pc # "idle" => worker'[q] = worker[q]
    BY <2>1
  <2> QED
    BY <2>1, <2>2, <2>3, <2>4, <2>5, <2>6, <1>0 DEF Ended, Over, Early
<1>4. ASSUME NEW l \in Launchers, Submit(l) \/ Resume(l) \/ LauncherStep(l) \/ Expire(l)
      PROVE  Ended'
  <2>0. /\ status' = status /\ l \in Clients
        /\ \A k \in Launchers \ {l} : launch'[k] = launch[k] /\ call'[k] = call[k]
    BY <1>4, LauncherFrame DEF Clients
  <2>1. ASSUME worker' = worker, \A q \in Clients \ {l} : call'[q] = call[q],
               call'[l].pc \in {"commit", "write"} /\ call'[l].target.st \in Terminal =>
                  status.st \in Terminal \/ launch'[l].pc = "raising"
        PROVE  Ended'
    BY <2>0, <2>1, <1>0, <1>1
  <2>2. CASE Submit(l)
    <3>1. J!Create(l) /\ ClientCall(l) /\ worker' = worker
      BY <2>2, ProcessAssumption DEF Submit, ClientCall
    <3> QED
      BY <3>1, <2>0, <2>1, CallTargets, CallFrame, Values
  <2>3. CASE RecordFailure(l)
    <3>1. CASE status.st \in Terminal
      <4>1. UNCHANGED call /\ worker' = worker
        BY <2>3, <3>1 DEF RecordFailure, journal
      <4> QED
        BY <4>1, <3>1, <2>1
    <3>2. CASE status.st \notin Terminal
      <4>1. launch'[l].pc = "raising" /\ worker' = worker /\ ClientCall(l)
        BY <2>3, <3>2, <1>0, GoesTo, ProcessAssumption DEF RecordFailure, ClientCall, AnyState
      <4> QED
        BY <4>1, <2>0, <2>1, CallFrame
    <3> QED
      BY <3>1, <3>2
  <2>4. CASE RaiseError(l)
    <3>1. worker' = worker /\ call'[l].pc = "idle"
      BY <2>4, <2>0, CallTargets, Values DEF RaiseError, Goes, journal
    <3>2. \A q \in Clients \ {l} : call'[q] = call[q]
      BY <2>4, <2>0, CallFrame DEF RaiseError, journal
    <3> QED
      BY <3>1, <3>2, <2>1
  <2>5. CASE Resume(l) \/ Expire(l) \/ SpawnRaises(l) \/ Await(l) \/ Poll(l)
             \/ ClearForResume(l)
    <3>1. worker' = worker /\ UNCHANGED call
      BY <2>5 DEF Resume, Expire, SpawnRaises, Await, Poll, journal, ClearForResume,
         J!ClearCancel
    <3>2. launch[l].pc # "raising"
      BY <2>5 DEF Resume, Expire, SpawnRaises, Await, Poll, ClearForResume, Goes
    <3> QED
      BY <3>1, <3>2, <2>0, <2>1, <1>0 DEF Ended
  <2>6. CASE Spawn(l)
    <3>1. PICK p \in Workers :
             worker[p].pc = "none" /\ worker' = [worker EXCEPT ![p].pc = "execute"]
      BY <2>6 DEF Spawn
    <3>2. UNCHANGED <<status, call>> /\ launch[l].pc # "raising"
      BY <2>6 DEF Spawn, journal
    <3>3. /\ worker'[p].pc = "execute"
          /\ \A q \in Workers \ {p} : worker'[q] = worker[q]
      BY <3>1, <1>0 DEF TypeOK
    <3>4. \A k \in Launchers : launch[k].pc = "raising" => launch'[k].pc = "raising"
      BY <3>2, <2>0
    <3> QED
      BY <3>1, <3>2, <3>3, <3>4, <1>0 DEF Ended, Over, Early
  <2>7. CASE Stop(l)
    <3>1. launch[l].pc = "stop"
      BY <2>7 DEF Stop, Goes
    <3>2. CASE Exited(launch[l].child)
      <4>1. UNCHANGED <<status, call, worker>>
        BY <2>7, <3>2 DEF Stop, journal
      <4> QED
        BY <4>1, <3>1, <2>0, <1>0 DEF Ended
    <3>3. CASE ~Exited(launch[l].child)
      <4>1. Dies(launch[l].child) /\ launch[l].child \in Workers
        BY <2>7, <3>1, <3>3 DEF Stop, IInv, LaunchInv
      <4> QED
        BY <4>1, <3>1, <2>0, <1>3
    <3> QED
      BY <3>2, <3>3
  <2> QED
    BY <1>4, <2>2, <2>3, <2>4, <2>5, <2>6, <2>7 DEF LauncherStep
<1>5. ASSUME NEW c \in Cancellers, Cancel(c) \/ CancelRaises(c)
      PROVE  Ended'
  <2>1. ClientCall(c) \/ J!Handle(c)
    BY <1>5, ProcessAssumption DEF Cancel, CancelRaises, ClientCall
  <2>2. call'[c].pc \in {"cancel", "idle"} /\ UNCHANGED <<worker, launch>>
    BY <1>5, CallTargets, Values DEF Cancel, CancelRaises, Clients, processes
  <2>3. status' = status /\ \A q \in Clients \ {c} : call'[q] = call[q]
    BY <2>1, CallFrame DEF Clients
  <2> QED
    BY <2>2, <2>3, <1>0, <1>1 DEF Clients
<1>6. ASSUME NEW p \in Clients, CallStep(p)
      PROVE  Ended'
  <2>1. J!CallStep(p) /\ CallInv(p) /\ UNCHANGED <<worker, launch>>
    BY <1>6 DEF CallStep, IInv, processes
  <2>2. call[p].pc \in {"receipt", "cancel", "commit", "write"}
    BY <2>1, CallStepFrame DEF CallInv
  <2>3. \A q \in Clients \ {p} : call'[q] = call[q]
    BY <2>1, CallStepFrame
  <2>4. CASE call[p].pc \in {"receipt", "cancel"}
    <3>1. status' = status /\ call'[p].target.st = status.st
      BY <2>1, <2>4, CallStepFrame
    <3> QED
      BY <3>1, <2>1, <2>3, <1>0 DEF Ended
  <2>5. CASE call[p].pc = "commit"
    <3>1. /\ status' = status
          /\ \/ call'[p].pc = "raised"
             \/ call'[p].target.st = call[p].target.st
      BY <2>1, <2>5, CallStepFrame, Values
    <3> QED
      BY <3>1, <2>1, <2>3, <2>5, <1>0 DEF Ended
  <2>6. CASE call[p].pc = "write"
    <3>1. status' = call[p].target /\ call'[p].pc = "idle"
      BY <2>1, <2>6, CallStepFrame, Values
    <3>2. ASSUME status'.st \in Terminal
          PROVE  \A q \in Workers : worker[q].pc \in Over
      <4>1. CASE status.st \in Terminal
        BY <4>1 DEF Ended
      <4>2. CASE p \in Launchers /\ launch[p].pc = "raising"
        <5>1. \A q \in Workers : worker[q].pc # "none" => Exited(q)
          BY <4>2, <1>0 DEF Spawned, OneLauncher
        <5> QED
          BY <5>1 DEF Exited, Over, Early
      <4>3. CASE p \in Workers /\ worker[p].pc \in {"ending", "lastTry"}
        <5>1. \A q \in Workers : worker[q].pc # "none" => q = p
          BY <4>3, OnlyChild
        <5> QED
          BY <5>1, <4>3 DEF Over, Early
      <4> QED
        BY <3>1, <3>2, <2>6, <4>1, <4>2, <4>3 DEF Ended
    <3>3. \A q \in Clients : call'[q].pc # "idle" => call'[q] = call[q]
      BY <3>1, <2>3
    <3> QED
      BY <3>2, <3>3, <2>1, <1>0 DEF Ended
  <2> QED
    BY <2>2, <2>4, <2>5, <2>6
<1>7. CASE Beat \/ MissDeadline \/ UNCHANGED vars
  BY <1>7, <1>0 DEF Beat, MissDeadline, vars, journal, processes, Ended
<1>8. ASSUME NEW p \in Workers, Kill(p)
      PROVE  Ended'
  BY <1>8, <1>3 DEF Kill
<1> QED
  BY <1>2, <1>4, <1>5, <1>6, <1>7, <1>8 DEF Next

LEMMA InitOneLaunch == Init => OneLaunch
<1> SUFFICES ASSUME Init
             PROVE  OneLaunch
  OBVIOUS
<1>1. /\ \A p \in Clients : call[p] = J!Idle
      /\ status.st = "MISSING" /\ ~J!Opened
  BY DEF Init, J!Init, Clients, J!NoStatus, J!Opened
<1>2. Spawned
  BY DEF Init, Spawned
<1>3. Ended
  BY <1>1, Values DEF Init, Ended
<1> QED
  BY <1>2, <1>3 DEF OneLaunch

\* The processes of one launch: who the worker is, and who may end the job.
THEOREM LaunchInvariance ==
    ASSUME OneLauncher
    PROVE  Spec => [](IInv /\ OneLaunch)
<1>1. Init => IInv /\ OneLaunch
  BY InitIInv, InitOneLaunch
<1>2. IInv /\ OneLaunch /\ [Next]_vars => (IInv /\ OneLaunch)'
  BY OneLauncher, NextIInv, SpawnedStays, EndedStays DEF OneLaunch
<1> QED
  BY <1>1, <1>2, PTL DEF Spec

\* Where one launcher is at work, no stage starts after the job's end: neither a
\* cancel nor a failed launch leaves a worker behind that goes on working.
THEOREM NothingStartsAfterEnd ==
    ASSUME OneLauncher
    PROVE  Spec => NoStageAfterEnd
<1>1. IInv /\ OneLaunch /\ [Next]_vars =>
         [\A p \in Workers :
             worker[p].pc = "begin" /\ worker'[p].pc = "work"
             => status.st \notin Terminal]_vars
  BY DEF OneLaunch, Ended, Over, Early
<1> QED
  BY <1>1, OneLauncher, LaunchInvariance, PTL DEF Spec, NoStageAfterEnd

=============================================================================
