----------------------------- MODULE JobJournal -----------------------------
(***************************************************************************)
(* The pure-file job journal, src/qairt_agent/jobs/journal.py.             *)
(*                                                                         *)
(* One job directory is shared by several processes: the worker that holds *)
(* the execution lease, its heartbeat helper process, the launcher and any *)
(* number of clients.  Every mutation ends in `_commit`, which takes the   *)
(* journal lock, appends one event file and then rewrites state.json.  The *)
(* two files are written one after the other, a crash may fall between     *)
(* them, and readers take no lock.  The snapshot that `append_event`,      *)
(* `set_state` and `record_receipt` write back was read BEFORE the lock.   *)
(*                                                                         *)
(* A method call is a small state machine, call[p].pc:                     *)
(*   idle -> commit -> write -> idle       append_event, set_state         *)
(*   idle -> receipt -> commit -> ...      record_receipt (file first)     *)
(*   idle -> cancel -> commit -> ...       request_cancel (flag first)     *)
(*   idle -> beat -> beatWrite -> idle     touch_heartbeat                 *)
(* "raised" is a call that ended in JobConflictError.                      *)
(***************************************************************************)
EXTENDS Naturals, FiniteSets, FiniteSetsExt

CONSTANTS
    Clients,     \* processes that hold a JobJournal handle on the job
    Workers,     \* the clients that run the job and record receipts
    Beater,      \* the heartbeat helper process of the worker
    NoClient,    \* "nobody holds the journal lock"
    Slots,       \* receipt file names: stage name, stage key, attempt
    Bodies,      \* contents a receipt file may have
    Manifests,   \* manifest references
    NoManifest,
    Payloads,    \* what clients pass to append_event: event type and payload
    SetStates,   \* the states that callers pass to set_state
    MaxEvents,   \* bound: event files of the job
    MaxTime      \* bound: clock ticks

ASSUME ClientAssumption ==
    /\ Workers \subseteq Clients
    /\ Beater \in Clients \ Workers
    /\ NoClient \notin Clients

ASSUME ValueAssumption == NoManifest \notin Manifests

ASSUME BoundAssumption == MaxEvents \in Nat /\ MaxTime \in Nat

VARIABLES
    dir,        \* the job directory exists
    status,     \* state.json
    events,     \* events/<seq>.json, a function from sequence numbers
    files,      \* receipts/<slot>.json, the set of receipts on disk
    cancel,     \* the cancel file exists
    beatFile,   \* the time stamped in heartbeat.json, 0 when absent
    lock,       \* holder of .journal.lock
    now,        \* wall clock
    call        \* the method call in progress in each client

vars == <<dir, status, events, files, cancel, beatFile, lock, now, call>>

-----------------------------------------------------------------------------
(* JobState and its partition (contracts.py, journal.py).                  *)

Terminal == {"SUCCEEDED", "FAILED", "CANCELLED"}
InFlight == {"STAGING", "RUNNING", "COLLECTING", "COMMITTING"}
JobState == Terminal \cup InFlight \cup {"QUEUED", "ORPHANED"}

\* ManifestPublisher.commit passes the state it has read, whichever it is.
ASSUME StateAssumption == SetStates \subseteq JobState

Receipt == [slot : Slots, body : Bodies]

\* state.json; "MISSING" stands for a file that does not exist.  hb = 0 is
\* heartbeat_at = None.  The error object is left out: every caller passes
\* one with FAILED and with no other state, and st travels with it.
JobStatus ==
    [st       : JobState \cup {"MISSING"},
     seq      : Nat,
     stages   : SUBSET Receipt,
     manifest : Manifests \cup {NoManifest},
     hb       : Nat]

NoStatus == [st |-> "MISSING", seq |-> 0, stages |-> {},
             manifest |-> NoManifest, hb |-> 0]

\* Event files: the type and the part of the payload that is told apart.
Event == [type : {"job_created", "cancel_requested"}]
            \cup [type : {"appended"}, payload : Payloads]
            \cup [type : {"state_changed"}, state : JobState]
            \cup [type : {"stage_receipt"}, receipt : Receipt]

Note(t) == [type |-> t]
Appended(x) == [type |-> "appended", payload |-> x]
StateChanged(s) == [type |-> "state_changed", state |-> s]
StageReceipt(r) == [type |-> "stage_receipt", receipt |-> r]
NoEvent == Note("job_created")

Phase == {"idle", "receipt", "cancel", "commit", "write",
          "beat", "beatWrite", "raised"}

Call == [pc : Phase, target : JobStatus, event : Event]

Idle == [pc |-> "idle", target |-> NoStatus, event |-> NoEvent]
Raised == [Idle EXCEPT !.pc = "raised"]
Prepared(target, event) ==
    [pc |-> "commit", target |-> target, event |-> event]

-----------------------------------------------------------------------------
Init ==
    /\ dir = FALSE
    /\ status = NoStatus
    /\ events = [i \in {} |-> NoEvent]
    /\ files = {}
    /\ cancel = FALSE
    /\ beatFile = 0
    /\ lock = NoClient
    /\ now = 1
    /\ call = [p \in Clients |-> Idle]

Opened == status.st # "MISSING"

Return(p, c) == call' = [call EXCEPT ![p] = c]

\* Fault: number events from state.json, which a crash may have left behind.
NextSeqFromState == status.seq + 1
\* Fault: start the log at zero.
NextSeqFromZero == IF DOMAIN events = {} THEN 0 ELSE Max(DOMAIN events) + 1

\* _next_seq: one past the largest event file name.
NextSeq == IF DOMAIN events = {} THEN 1 ELSE Max(DOMAIN events) + 1

\* JobJournal.create: claims the directory, then commits "job_created".
Create(p) ==
    /\ call[p] = Idle
    /\ ~dir
    /\ dir' = TRUE
    /\ Return(p, Prepared([NoStatus EXCEPT !.st = "QUEUED"],
                          Note("job_created")))
    /\ UNCHANGED <<status, events, files, cancel, beatFile, lock, now>>

\* append_event: the whole status is read now and written back later.
AppendEvent(p, x) ==
    /\ call[p] = Idle
    /\ Opened
    /\ Return(p, Prepared(status, Appended(x)))
    /\ UNCHANGED <<dir, status, events, files, cancel, beatFile, lock, now>>

\* set_state: manifest=None keeps the one that was read.
SetState(p, s, m) ==
    /\ call[p] = Idle
    /\ Opened
    /\ Return(p, Prepared(
           [status EXCEPT !.st = s,
                          !.manifest = IF m = NoManifest THEN @ ELSE m],
           StateChanged(s)))
    /\ UNCHANGED <<dir, status, events, files, cancel, beatFile, lock, now>>

\* Fault: an existing receipt is overwritten instead of raising a conflict.
RecordReceiptOverwrite(p, r) ==
    /\ call[p] = Idle
    /\ Opened
    /\ files' = {q \in files : q.slot # r.slot} \cup {r}
    /\ Return(p, [Idle EXCEPT !.pc = "receipt", !.event = StageReceipt(r)])
    /\ UNCHANGED <<dir, status, events, cancel, beatFile, lock, now>>

\* record_receipt: the immutable receipt file is written before the state is
\* even read; a different receipt under the same name is a conflict.
RecordReceipt(p, r) ==
    /\ call[p] = Idle
    /\ Opened
    /\ IF \A q \in files : q.slot = r.slot => q = r
       THEN /\ files' = files \cup {r}
            /\ Return(p, [Idle EXCEPT !.pc = "receipt",
                                      !.event = StageReceipt(r)])
       ELSE /\ Return(p, Raised)
            /\ UNCHANGED files
    /\ UNCHANGED <<dir, status, events, cancel, beatFile, lock, now>>

\* Fault: the stages are kept as receipt names, without their contents.
ReceiptReadName(p) ==
    /\ call[p].pc = "receipt"
    /\ Return(p, Prepared(
           [status EXCEPT !.stages = @ \cup {call[p].event.receipt.slot}],
           call[p].event))
    /\ UNCHANGED <<dir, status, events, files, cancel, beatFile, lock, now>>

\* record_receipt: then the receipt is added to the stages that were read.
ReceiptRead(p) ==
    LET r == call[p].event.receipt
        already == \E q \in status.stages : q.slot = r.slot
    IN  /\ call[p].pc = "receipt"
        /\ Return(p, Prepared(
               [status EXCEPT !.stages = IF already THEN @ ELSE @ \cup {r}],
               call[p].event))
        /\ UNCHANGED <<dir, status, events, files, cancel, beatFile, lock, now>>

\* request_cancel: the flag file first, then append_event.
RequestCancel(p) ==
    /\ call[p] = Idle
    /\ Opened
    /\ cancel' = TRUE
    /\ Return(p, [Idle EXCEPT !.pc = "cancel"])
    /\ UNCHANGED <<dir, status, events, files, beatFile, lock, now>>

CancelRead(p) ==
    /\ call[p].pc = "cancel"
    /\ Return(p, Prepared(status, Note("cancel_requested")))
    /\ UNCHANGED <<dir, status, events, files, cancel, beatFile, lock, now>>

ClearCancel(p) ==
    /\ call[p] = Idle
    /\ Opened
    /\ cancel' = FALSE
    /\ UNCHANGED <<dir, status, events, files, beatFile, lock, now, call>>

\* Fault: the check is made for a live target only.
LeavesTerminalLive(current, target) ==
    current.st \in Terminal /\ target.st = "QUEUED"

\* _commit refuses to leave a terminal state; the state is read again, under
\* the lock, for this check.
LeavesTerminal(current, target) ==
    current.st \in Terminal /\ target.st # current.st

\* Fault: the heartbeat of the prepared target wins.
MergedTargetBeat(current, target) == [target EXCEPT !.seq = NextSeq]

\* _commit keeps the newer of the two heartbeats.
Merged(current, target) ==
    [target EXCEPT !.seq = NextSeq,
                   !.hb = IF current.hb > @ THEN current.hb ELSE @]

\* Fault: state.json is written first and the event is lost.
CommitEventStateFirst(p) ==
    /\ call[p].pc = "commit"
    /\ lock = NoClient
    /\ NextSeq <= MaxEvents
    /\ ~LeavesTerminal(status, call[p].target)
    /\ lock' = p
    /\ status' = Merged(status, call[p].target)
    /\ Return(p, [call[p] EXCEPT !.pc = "write", !.target = status'])
    /\ UNCHANGED <<dir, events, files, cancel, beatFile, now>>
\* _commit, first file: the event.
CommitEvent(p) ==
    /\ call[p].pc = "commit"
    /\ lock = NoClient
    /\ NextSeq <= MaxEvents
    /\ IF LeavesTerminal(status, call[p].target)
       THEN /\ Return(p, Raised)
            /\ UNCHANGED <<events, lock>>
       ELSE /\ lock' = p
            /\ events' = [i \in DOMAIN events \cup {NextSeq} |->
                             IF i = NextSeq THEN call[p].event ELSE events[i]]
            /\ Return(p, [pc |-> "write",
                          target |-> Merged(status, call[p].target),
                          event |-> call[p].event])
    /\ UNCHANGED <<dir, status, files, cancel, beatFile, now>>

\* _commit, second file: state.json.
CommitState(p) ==
    /\ call[p].pc = "write"
    /\ status' = call[p].target
    /\ lock' = NoClient
    /\ Return(p, Idle)
    /\ UNCHANGED <<dir, events, files, cancel, beatFile, now>>

\* touch_heartbeat: the time is taken before the lock.
TouchHeartbeat(p) ==
    /\ call[p] = Idle
    /\ Opened
    /\ Return(p, [Idle EXCEPT !.pc = "beat", !.target.hb = now])
    /\ UNCHANGED <<dir, status, events, files, cancel, beatFile, lock, now>>

\* touch_heartbeat under the lock: returns False on a terminal job, otherwise
\* writes heartbeat.json ...
BeatFile(p) ==
    /\ call[p].pc = "beat"
    /\ lock = NoClient
    /\ IF status.st \in Terminal
       THEN /\ Return(p, Idle)
            /\ UNCHANGED <<beatFile, lock>>
       ELSE /\ beatFile' = call[p].target.hb
            /\ lock' = p
            /\ Return(p, [call[p] EXCEPT
                             !.pc = "beatWrite",
                             !.target = [status EXCEPT !.hb = call[p].target.hb]])
    /\ UNCHANGED <<dir, status, events, files, cancel, now>>

\* ... and then state.json, without an event.
BeatState(p) ==
    /\ call[p].pc = "beatWrite"
    /\ status' = call[p].target
    /\ lock' = NoClient
    /\ Return(p, Idle)
    /\ UNCHANGED <<dir, events, files, cancel, beatFile, now>>

\* The caller handles the JobConflictError it got.
Handle(p) ==
    /\ call[p].pc = "raised"
    /\ Return(p, Idle)
    /\ UNCHANGED <<dir, status, events, files, cancel, beatFile, lock, now>>

\* Fault: a lock file that survives its owner.
CrashKeepsLock(p) ==
    /\ call[p] # Idle
    /\ Return(p, Idle)
    /\ UNCHANGED <<dir, status, events, files, cancel, beatFile, lock, now>>

\* A process is killed: its call is lost and the OS drops its flock.
Crash(p) ==
    /\ call[p] # Idle
    /\ Return(p, Idle)
    /\ lock' = IF lock = p THEN NoClient ELSE lock
    /\ UNCHANGED <<dir, status, events, files, cancel, beatFile, now>>

Tick ==
    /\ now < MaxTime
    /\ now' = now + 1
    /\ UNCHANGED <<dir, status, events, files, cancel, beatFile, lock, call>>

\* The steps of a call that has begun.
CallStep(p) ==
    \/ ReceiptRead(p)
    \/ CancelRead(p)
    \/ CommitEvent(p)
    \/ CommitState(p)
    \/ BeatFile(p)
    \/ BeatState(p)

\* Which client calls what: receipts come from the
\* worker that holds the lease, heartbeats and nothing else from its helper.
Begin(p) ==
    IF p = Beater
    THEN TouchHeartbeat(p)
    ELSE \/ Create(p)
         \/ \E x \in Payloads : AppendEvent(p, x)
         \/ \E s \in SetStates, m \in Manifests \cup {NoManifest} :
               SetState(p, s, m)
         \/ \E r \in Receipt : p \in Workers /\ RecordReceipt(p, r)
         \/ RequestCancel(p)
         \/ ClearCancel(p)

Next ==
    \/ \E p \in Clients : Begin(p) \/ CallStep(p) \/ Handle(p) \/ Crash(p)
    \/ Tick

Spec == Init /\ [][Next]_vars

-----------------------------------------------------------------------------
(* Properties.                                                             *)

\* Types of the files and of the calls in progress.
TypeOK ==
    /\ dir \in BOOLEAN
    /\ status \in JobStatus
    /\ events \in [DOMAIN events -> Event] /\ DOMAIN events \subseteq Nat
    /\ files \subseteq Receipt
    /\ cancel \in BOOLEAN
    /\ beatFile \in Nat
    /\ lock \in Clients \cup {NoClient}
    /\ now \in Nat
    /\ call \in [Clients -> Call]

\* docs/native-workflow.md: a terminal state cannot be left.  Two writers may
\* both have read a running job; the one that commits second must notice.
TerminalStays ==
    [][status.st \in Terminal => status'.st = status.st]_vars

\* The event log is append-only and gap-free whatever the crashes: no event
\* file is ever rewritten, and a reader that has seen 1..N misses nothing.
LogImmutable ==
    [][\A i \in DOMAIN events :
          i \in DOMAIN events' /\ events'[i] = events[i]]_vars

LogGapFree == \E n \in 0..MaxEvents : DOMAIN events = 1..n

\* `job watch --after-seq N` may pass state.seq as N: the state never names an
\* event that is not in the log, and successive states never go back in seq.
StateNotAheadOfLog == status.seq = 0 \/ status.seq \in DOMAIN events

SeqMonotone == [][status'.seq >= status.seq]_vars

\* The comment in _commit: a heartbeat that won the lock while a target was
\* being prepared is not lost when the target is written.
HeartbeatMonotone ==
    [][status'.hb >= status.hb /\ beatFile' >= beatFile]_vars

\* A receipt that the state or the log mentions exists as a file with that
\* content, in spite of crashes between the three writes.
ReceiptsBacked ==
    /\ status.stages \subseteq files
    /\ \A i \in DOMAIN events :
          events[i].type = "stage_receipt" => events[i].receipt \in files

\* Whoever writes state.json holds the journal lock, so writes never overlap.
WritersExclude ==
    \A p \in Clients : call[p].pc \in {"write", "beatWrite"} <=> lock = p

\* What holds of the calls in progress, the strengthening under which the
\* properties above are inductive.  A status that waits for the lock may be
\* stale in everything but its heartbeat is never newer than state.json's;
\* once the lock is held it is current where it matters.
CallConsistent(p) ==
    LET c == call[p]
        t == call[p].target
    IN  /\ c.pc \in {"receipt", "commit", "write"}
              /\ c.event.type = "stage_receipt"
           => c.event.receipt \in files
        /\ c.pc = "receipt" => c.event.type = "stage_receipt"
        /\ t.stages \subseteq files
        /\ c.pc = "commit" => t.hb <= status.hb
        /\ c.pc = "write" =>
              /\ t.seq \in DOMAIN events
              /\ t.seq > status.seq
              /\ t.hb = status.hb
              /\ ~LeavesTerminal(status, t)
        /\ c.pc = "beat" => t.hb >= status.hb /\ t.hb >= beatFile
        /\ c.pc = "beatWrite" =>
              /\ t.seq = status.seq
              /\ t.st = status.st
              /\ t.stages = status.stages
              /\ t.hb >= status.hb
              /\ t.hb = beatFile
        /\ c.pc \in {"beat", "beatWrite"} => p = Beater /\ t.hb <= now

\* The clock is ahead of every heartbeat on file, and every call is consistent
\* with the files it has read.
CallsConsistent ==
    /\ status.hb <= now /\ beatFile <= now
    /\ \A p \in Clients : CallConsistent(p)

=============================================================================
