-------------------------- MODULE JobJournalProofs --------------------------
(***************************************************************************)
(* Proofs about the job journal, for every set of clients, receipts and    *)
(* manifests and for every bound.                                          *)
(***************************************************************************)
EXTENDS JobJournal, TLAPS

-----------------------------------------------------------------------------
(* The number given to the next event.                                     *)

\* _next_seq over a gap-free log: the largest of 1..n is n.
LEMMA MaxOfRange ==
    ASSUME NEW n \in Nat, n # 0
    PROVE  Max(1..n) = n
<1>1. n \in 1..n /\ \A y \in 1..n : n >= y
  OBVIOUS
<1>2. \A m \in 1..n : (\A y \in 1..n : m >= y) => m = n
  OBVIOUS
<1> QED
  BY <1>1, <1>2 DEF Max

LEMMA NextSeqOfRange ==
    ASSUME NEW n \in Nat, DOMAIN events = 1..n
    PROVE  NextSeq = n + 1
<1>1. CASE n = 0
  BY <1>1 DEF NextSeq
<1>2. CASE n # 0
  <2>1. 1 \in DOMAIN events
    BY <1>2
  <2> QED
    BY <1>2, <2>1, MaxOfRange DEF NextSeq
<1> QED
  BY <1>1, <1>2

-----------------------------------------------------------------------------
(* Type correctness.                                                       *)

\* The fields of a call that is not in progress.
LEMMA IdleFields ==
    /\ Idle.pc = "idle" /\ Idle.target = NoStatus /\ Idle.event = NoEvent
    /\ Raised.pc = "raised" /\ Raised.target = NoStatus
  BY DEF Idle, Raised

LEMMA IdleTyped == Idle \in Call /\ Raised \in Call
  BY ValueAssumption DEF Idle, Raised, Call, Phase, NoStatus, JobStatus,
     JobState, Terminal, InFlight, NoEvent, Note, Event

\* A status stays a status when _commit stamps its number and heartbeat.
LEMMA StampTyped ==
    ASSUME NEW t \in JobStatus, NEW k \in Nat, NEW h \in Nat
    PROVE  [t EXCEPT !.seq = k, !.hb = h] \in JobStatus
  BY DEF JobStatus

LEMMA InitTypeOK == Init => TypeOK
<1> SUFFICES ASSUME Init
             PROVE  TypeOK
  OBVIOUS
<1>1. status \in JobStatus
  BY DEF Init, NoStatus, JobStatus
<1>2. DOMAIN events = {} /\ events \in [DOMAIN events -> Event]
  BY DEF Init
<1>3. call \in [Clients -> Call]
  BY IdleTyped DEF Init
<1> QED
  BY <1>1, <1>2, <1>3 DEF Init, TypeOK

LEMMA NextTypeOK == TypeOK /\ LogGapFree /\ CallsConsistent /\ [Next]_vars => TypeOK'
<1> SUFFICES ASSUME TypeOK, LogGapFree, CallsConsistent, [Next]_vars
             PROVE  TypeOK'
  OBVIOUS
<1> USE DEF TypeOK, Return
<1> PICK n \in 0..MaxEvents : DOMAIN events = 1..n
  BY DEF LogGapFree
<1>0. NextSeq = n + 1 /\ n \in Nat
  BY NextSeqOfRange, BoundAssumption
<1>1. ASSUME NEW p \in Clients, Create(p)
      PROVE  TypeOK'
  BY <1>1 DEF Create, Prepared, NoStatus, Note, Call, Phase, JobStatus,
     JobState, Terminal, InFlight, Event
<1>2. ASSUME NEW p \in Clients, NEW t \in Payloads, AppendEvent(p, t)
      PROVE  TypeOK'
  BY <1>2 DEF AppendEvent, Prepared, Appended, Call, Phase, Event
<1>3. ASSUME NEW p \in Clients, NEW s \in SetStates,
             NEW m \in Manifests \cup {NoManifest}, SetState(p, s, m)
      PROVE  TypeOK'
  BY <1>3, StateAssumption DEF SetState, Prepared, StateChanged, Call, Phase,
     Event, JobStatus, JobState, Terminal, InFlight
<1>4. ASSUME NEW p \in Clients, NEW r \in Receipt, RecordReceipt(p, r)
      PROVE  TypeOK'
  <2>1. [Idle EXCEPT !.pc = "receipt", !.event = StageReceipt(r)] \in Call
    BY IdleTyped DEF Call, Phase, StageReceipt, Event
  <2> QED
    BY <1>4, <2>1, IdleTyped DEF RecordReceipt, Receipt
<1>5. ASSUME NEW p \in Clients, ReceiptRead(p)
      PROVE  TypeOK'
  <2>1. call[p].event.receipt \in Receipt
    BY <1>5, ValueAssumption DEF CallsConsistent, CallConsistent, ReceiptRead,
       Call, Event
  <2> QED
    BY <1>5, <2>1 DEF ReceiptRead, Prepared, Call, Phase, JobStatus
<1>6. ASSUME NEW p \in Clients, RequestCancel(p)
      PROVE  TypeOK'
  BY <1>6, IdleTyped DEF RequestCancel, Call, Phase
<1>7. ASSUME NEW p \in Clients, CancelRead(p)
      PROVE  TypeOK'
  BY <1>7 DEF CancelRead, Prepared, Note, Call, Phase, Event
<1>8. ASSUME NEW p \in Clients, ClearCancel(p)
      PROVE  TypeOK'
  BY <1>8 DEF ClearCancel
<1>9. ASSUME NEW p \in Clients, CommitEvent(p)
      PROVE  TypeOK'
  <2> DEFINE t == call[p].target
             beat == IF status.hb > t.hb THEN status.hb ELSE t.hb
  <2>1. Merged(status, t) \in JobStatus
    <3>1. t \in JobStatus /\ beat \in Nat
      BY DEF Call, JobStatus
    <3>2. Merged(status, t) = [t EXCEPT !.seq = n + 1, !.hb = beat]
      BY <1>0, <3>1 DEF Merged, JobStatus
    <3>3. n + 1 \in Nat
      BY <1>0
    <3> HIDE DEF t, beat, TypeOK
    <3>4. [t EXCEPT !.seq = n + 1, !.hb = beat] \in JobStatus
      BY ONLY <3>1, <3>3, StampTyped
    <3> QED
      BY ONLY <3>2, <3>4
  <2>2. /\ call[p].event \in Event
        /\ [pc |-> "write", target |-> Merged(status, t),
            event |-> call[p].event] \in Call
    BY <2>1 DEF Call, Phase
  <2>3. CASE LeavesTerminal(status, call[p].target)
    BY <1>9, <2>3, IdleTyped DEF CommitEvent
  <2>4. CASE ~LeavesTerminal(status, call[p].target)
    <3>1. /\ lock' = p
          /\ events' \in [DOMAIN events' -> Event]
          /\ DOMAIN events' \subseteq Nat
      BY <1>0, <1>9, <2>2, <2>4 DEF CommitEvent
    <3>2. call' \in [Clients -> Call]
      BY <1>9, <2>2, <2>4 DEF CommitEvent
    <3> QED
      BY <1>9, <3>1, <3>2 DEF CommitEvent
  <2> QED
    BY <2>3, <2>4
<1>10. ASSUME NEW p \in Clients, CommitState(p)
       PROVE  TypeOK'
  BY <1>10, IdleTyped DEF CommitState, Call
<1>11. ASSUME NEW p \in Clients, TouchHeartbeat(p)
       PROVE  TypeOK'
  <2>1. [Idle EXCEPT !.pc = "beat", !.target.hb = now] \in Call
    BY IdleTyped DEF Call, Phase, JobStatus
  <2> QED
    BY <1>11, <2>1 DEF TouchHeartbeat
<1>12. ASSUME NEW p \in Clients, BeatFile(p)
       PROVE  TypeOK'
  <2> DEFINE at == call[p].target.hb
             c == [call[p] EXCEPT !.pc = "beatWrite",
                                  !.target = [status EXCEPT !.hb = at]]
  <2>1. at \in Nat /\ c \in Call
    BY DEF Call, Phase, JobStatus
  <2>2. call' = [call EXCEPT ![p] = Idle] \/ call' = [call EXCEPT ![p] = c]
    BY <1>12 DEF BeatFile
  <2>3. call' \in [Clients -> Call]
    BY <2>1, <2>2, IdleTyped
  <2> QED
    BY <1>12, <2>1, <2>3 DEF BeatFile
<1>13. ASSUME NEW p \in Clients, BeatState(p)
       PROVE  TypeOK'
  BY <1>13, IdleTyped DEF BeatState, Call
<1>14. ASSUME NEW p \in Clients, Handle(p)
       PROVE  TypeOK'
  BY <1>14, IdleTyped DEF Handle
<1>15. ASSUME NEW p \in Clients, Crash(p)
       PROVE  TypeOK'
  BY <1>15, IdleTyped DEF Crash
<1>16. CASE Tick
  BY <1>16 DEF Tick
<1>17. CASE UNCHANGED vars
  BY <1>17 DEF vars
<1> QED
  BY <1>1, <1>2, <1>3, <1>4, <1>5, <1>6, <1>7, <1>8, <1>9, <1>10, <1>11,
     <1>12, <1>13, <1>14, <1>15, <1>16, <1>17 DEF Next, Begin, CallStep

-----------------------------------------------------------------------------
(* The inductive invariant.                                                *)

IInv ==
    /\ TypeOK
    /\ LogGapFree
    /\ StateNotAheadOfLog
    /\ ReceiptsBacked
    /\ WritersExclude
    /\ CallsConsistent

LEMMA InitIInv == Init => IInv
<1> SUFFICES ASSUME Init
             PROVE  IInv
  OBVIOUS
<1>1. TypeOK
  BY InitTypeOK
<1>2. LogGapFree
  <2>1. DOMAIN events = 1..0
    BY DEF Init
  <2> QED
    BY <2>1, BoundAssumption DEF LogGapFree
<1>3. StateNotAheadOfLog /\ ReceiptsBacked
  BY DEF Init, NoStatus, StateNotAheadOfLog, ReceiptsBacked
<1>4. WritersExclude
  BY ClientAssumption DEF Init, Idle, WritersExclude
<1>5. CallsConsistent
  BY DEF Init, Idle, NoStatus, CallsConsistent, CallConsistent
<1> QED
  BY <1>1, <1>2, <1>3, <1>4, <1>5 DEF IInv

\* A receipt that exists keeps its content.
FilesKept == files \subseteq files'

\* A step that leaves a client's call alone keeps it consistent, provided it
\* does not write behind the back of a client that holds the lock.
LEMMA CallFrame ==
    ASSUME TypeOK, TypeOK', FilesKept, NEW q \in Clients,
           CallConsistent(q), call'[q] = call[q],
           DOMAIN events \subseteq DOMAIN events',
           now' >= now, status'.hb >= status.hb,
           call[q].pc \in {"write", "beatWrite"} =>
              status' = status /\ beatFile' = beatFile,
           call[q].pc = "beat" =>
              status'.hb = status.hb /\ beatFile' = beatFile
    PROVE  CallConsistent(q)'
<1> DEFINE c == call[q]
           t == call[q].target
<1>0. /\ c \in Call /\ t \in JobStatus /\ c.event \in Event
      /\ status \in JobStatus /\ status' \in JobStatus
      /\ now \in Nat /\ now' \in Nat
  BY DEF TypeOK, Call
<1>1. c.pc \in {"receipt", "commit", "write"} /\ c.event.type = "stage_receipt"
         => c.event.receipt \in files'
  BY DEF FilesKept, CallConsistent
<1>2. t.stages \subseteq files'
  BY DEF FilesKept, CallConsistent
<1>3. c.pc = "commit" => t.hb <= status'.hb
  BY <1>0 DEF CallConsistent, JobStatus
<1>4. c.pc = "write" =>
         /\ t.seq \in DOMAIN events'
         /\ t.seq > status'.seq
         /\ t.hb = status'.hb
         /\ ~LeavesTerminal(status', t)
  BY DEF CallConsistent
<1>5. c.pc = "beat" => t.hb >= status'.hb /\ t.hb >= beatFile'
  BY DEF CallConsistent
<1>6. c.pc = "beatWrite" =>
         /\ t.seq = status'.seq
         /\ t.st = status'.st
         /\ t.stages = status'.stages
         /\ t.hb >= status'.hb
         /\ t.hb = beatFile'
  BY DEF CallConsistent
<1>7. c.pc \in {"beat", "beatWrite"} => q = Beater /\ t.hb <= now'
  BY <1>0 DEF CallConsistent, JobStatus
<1>8. c.pc = "receipt" => c.event.type = "stage_receipt"
  BY DEF CallConsistent
<1> QED
  BY <1>1, <1>2, <1>3, <1>4, <1>5, <1>6, <1>7, <1>8
     DEF CallConsistent, LeavesTerminal

\* A step that only begins, prepares or ends the call of one client, without
\* touching the lock.
LEMMA PrepareFrame ==
    ASSUME IInv, TypeOK', NEW p \in Clients, NEW c,
           call' = [call EXCEPT ![p] = c],
           call[p].pc \notin {"write", "beatWrite"},
           c.pc \notin {"write", "beatWrite"},
           UNCHANGED <<status, events, files, beatFile, lock, now>>,
           CallConsistent(p)'
    PROVE  IInv'
<1>1. LogGapFree' /\ StateNotAheadOfLog' /\ ReceiptsBacked'
  BY DEF IInv, LogGapFree, StateNotAheadOfLog, ReceiptsBacked
<1>2. WritersExclude'
  BY DEF IInv, TypeOK, WritersExclude
<1>3. ASSUME NEW q \in Clients, q # p
      PROVE  CallConsistent(q)'
  <2>1. status.hb \in Nat /\ now \in Nat
    BY DEF IInv, TypeOK, JobStatus
  <2>2. call'[q] = call[q]
    BY <1>3 DEF IInv, TypeOK
  <2>3. FilesKept /\ CallConsistent(q)
    BY DEF FilesKept, IInv, CallsConsistent
  <2> QED
    BY <2>1, <2>2, <2>3, CallFrame DEF IInv
<1>4. CallsConsistent'
  BY <1>3 DEF IInv, CallsConsistent
<1> QED
  BY <1>1, <1>2, <1>4 DEF IInv
-----------------------------------------------------------------------------
(* Every step keeps the invariant.                                         *)

\* The steps that prepare or end a call without the lock.
LEMMA PrepareSteps ==
    ASSUME IInv, TypeOK', NEW p \in Clients,
           \/ Create(p)
           \/ \E t \in Payloads : AppendEvent(p, t)
           \/ \E s \in SetStates, m \in Manifests \cup {NoManifest} :
                 SetState(p, s, m)
           \/ RequestCancel(p)
           \/ CancelRead(p)
           \/ p = Beater /\ TouchHeartbeat(p)
           \/ Handle(p)
    PROVE  IInv'
<1> USE DEF Return
<1>0. /\ call[p] \in Call /\ status \in JobStatus /\ now \in Nat
      /\ call \in [Clients -> Call]
      /\ status.hb <= now /\ beatFile <= now
      /\ status.stages \subseteq files
  BY DEF IInv, TypeOK, CallsConsistent, ReceiptsBacked
<1>1. CASE Create(p)
  <2>1. CallConsistent(p)'
    BY <1>0, <1>1, ValueAssumption
       DEF Create, Prepared, NoStatus, Note, CallConsistent, JobStatus
  <2> QED
    BY <1>0, <1>1, <2>1, PrepareFrame, IdleFields DEF Create, Prepared
<1>2. ASSUME NEW t \in Payloads, AppendEvent(p, t)
      PROVE  IInv'
  <2>1. CallConsistent(p)'
    BY <1>0, <1>2, ValueAssumption
       DEF AppendEvent, Prepared, Appended, CallConsistent, JobStatus
  <2> QED
    BY <1>0, <1>2, <2>1, PrepareFrame, IdleFields DEF AppendEvent, Prepared
<1>3. ASSUME NEW s \in SetStates, NEW m \in Manifests \cup {NoManifest},
             SetState(p, s, m)
      PROVE  IInv'
  <2> DEFINE mm == IF m = NoManifest THEN status.manifest ELSE m
             t == [status EXCEPT !.st = s, !.manifest = mm]
  <2>1. t.stages = status.stages /\ t.hb = status.hb
    BY <1>0 DEF JobStatus
  <2>2. call' = [call EXCEPT ![p] = Prepared(t, StateChanged(s))]
    BY <1>0, <1>3 DEF SetState, JobStatus
  <2>3. UNCHANGED <<status, events, files, beatFile, lock, now>>
        /\ call[p].pc = "idle"
    BY <1>3, IdleFields DEF SetState
  <2> HIDE DEF t
  <2>4. CallConsistent(p)'
    BY <1>0, <2>1, <2>2, <2>3
       DEF Prepared, StateChanged, CallConsistent, JobStatus
  <2> QED
    BY <1>0, <2>2, <2>3, <2>4, PrepareFrame DEF Prepared
<1>4. CASE RequestCancel(p)
  <2>1. CallConsistent(p)'
    BY <1>0, <1>4 DEF RequestCancel, Idle, NoStatus, CallConsistent
  <2> QED
    <3> DEFINE c == [Idle EXCEPT !.pc = "cancel"]
    <3>1. c.pc = "cancel"
      BY DEF Idle
    <3>2. call' = [call EXCEPT ![p] = c]
      BY <1>4 DEF RequestCancel
    <3> HIDE DEF c
    <3> QED
      BY <1>0, <1>4, <2>1, <3>1, <3>2, PrepareFrame, IdleFields
         DEF RequestCancel
<1>5. CASE CancelRead(p)
  <2>1. CallConsistent(p)'
    BY <1>0, <1>5 DEF CancelRead, Prepared, Note, CallConsistent, JobStatus
  <2> QED
    BY <1>0, <1>5, <2>1, PrepareFrame DEF CancelRead, Prepared
<1>6. CASE p = Beater /\ TouchHeartbeat(p)
  <2>1. CallConsistent(p)'
    BY <1>0, <1>6
       DEF TouchHeartbeat, Idle, NoStatus, CallConsistent, JobStatus
  <2> QED
    <3> DEFINE c == [Idle EXCEPT !.pc = "beat", !.target.hb = now]
    <3>1. c.pc = "beat"
      BY DEF Idle
    <3>2. call' = [call EXCEPT ![p] = c]
      BY <1>6 DEF TouchHeartbeat
    <3> HIDE DEF c
    <3> QED
      BY <1>0, <1>6, <2>1, <3>1, <3>2, PrepareFrame, IdleFields
         DEF TouchHeartbeat
<1>7. CASE Handle(p)
  <2>1. CallConsistent(p)'
    BY <1>0, <1>7 DEF Handle, Idle, NoStatus, CallConsistent
  <2> QED
    BY <1>0, <1>7, <2>1, PrepareFrame DEF Handle, Idle
<1> QED
  BY <1>1, <1>2, <1>3, <1>4, <1>5, <1>6, <1>7

\* record_receipt before it commits: the file comes first.
LEMMA ReceiptSteps ==
    ASSUME IInv, TypeOK', NEW p \in Clients,
           ReceiptRead(p) \/ \E r \in Receipt : RecordReceipt(p, r)
    PROVE  IInv'
<1> USE DEF Return
<1>0. /\ call[p] \in Call /\ status \in JobStatus
      /\ call \in [Clients -> Call] /\ files \subseteq Receipt
      /\ status.stages \subseteq files
      /\ CallConsistent(p)
  BY DEF IInv, TypeOK, CallsConsistent, ReceiptsBacked
<1>1. CASE ReceiptRead(p)
  <2> DEFINE r == call[p].event.receipt
             stages == IF \E q \in status.stages : q.slot = r.slot
                       THEN status.stages ELSE status.stages \cup {r}
  <2>1. r \in files
    BY <1>0, <1>1 DEF ReceiptRead, CallConsistent
  <2>2. stages \subseteq files
    BY <1>0, <2>1
  <2>3. CallConsistent(p)'
    BY <1>0, <1>1, <2>1, <2>2
       DEF ReceiptRead, Prepared, CallConsistent, JobStatus
  <2> QED
    BY <1>0, <1>1, <2>3, PrepareFrame DEF ReceiptRead, Prepared
<1>2. ASSUME NEW r \in Receipt, RecordReceipt(p, r)
      PROVE  IInv'
  <2>1. CASE \A q \in files : q.slot = r.slot => q = r
    <3>1. FilesKept
      BY <1>2, <2>1 DEF RecordReceipt, FilesKept
    <3>2. r \in files'
      BY <1>2, <2>1 DEF RecordReceipt
    <3>3. call' = [call EXCEPT ![p] = [Idle EXCEPT !.pc = "receipt",
                                          !.event = StageReceipt(r)]]
      BY <1>2, <2>1 DEF RecordReceipt
    <3>4. ReceiptsBacked'
      BY <1>2, <3>1 DEF IInv, ReceiptsBacked, RecordReceipt, FilesKept
    <3>5. CallConsistent(p)'
      BY <1>0, <1>2, <3>2, <3>3
         DEF RecordReceipt, Idle, NoStatus, StageReceipt, CallConsistent
    <3>6. ASSUME NEW q \in Clients, q # p
          PROVE  CallConsistent(q)'
      <4>1. status.hb \in Nat /\ now \in Nat /\ CallConsistent(q)
        BY DEF IInv, TypeOK, JobStatus, CallsConsistent
      <4>2. call'[q] = call[q]
        BY <1>0, <3>3, <3>6
      <4>3. UNCHANGED <<status, events, beatFile, now>>
        BY <1>2 DEF RecordReceipt
      <4> QED
        BY <3>1, <4>1, <4>2, <4>3, CallFrame DEF IInv
    <3>7. CallsConsistent'
      BY <1>2, <3>5, <3>6 DEF IInv, CallsConsistent, RecordReceipt
    <3>8. WritersExclude'
      <4>1. call[p].pc = "idle" /\ call'[p].pc = "receipt" /\ lock' = lock
        BY <1>0, <1>2, <3>3, IdleFields DEF RecordReceipt, Idle
      <4>2. \A q \in Clients : q # p => call'[q] = call[q]
        BY <1>0, <3>3
      <4> QED
        BY <4>1, <4>2 DEF IInv, WritersExclude
    <3>9. LogGapFree' /\ StateNotAheadOfLog'
      BY <1>2 DEF IInv, LogGapFree, StateNotAheadOfLog, RecordReceipt
    <3> QED
      BY <3>4, <3>7, <3>8, <3>9 DEF IInv
  <2>2. CASE ~ \A q \in files : q.slot = r.slot => q = r
    <3>1. call' = [call EXCEPT ![p] = Raised] /\ call[p].pc = "idle"
          /\ UNCHANGED <<status, events, files, beatFile, lock, now>>
      BY <1>2, <2>2, IdleFields DEF RecordReceipt
    <3>2. CallConsistent(p)'
      BY <1>0, <3>1, IdleFields DEF NoStatus, CallConsistent
    <3> QED
      BY <1>0, <3>1, <3>2, PrepareFrame, IdleFields
  <2> QED
    BY <2>1, <2>2
<1> QED
  BY <1>1, <1>2
\* _commit, first file.  The new event is the next of a gap-free log, and the
\* target is brought up to date with the state read under the lock.
LEMMA CommitEventStep ==
    ASSUME IInv, TypeOK', NEW p \in Clients, CommitEvent(p)
    PROVE  IInv'
<1> USE DEF Return
<1> DEFINE t == call[p].target
           e == call[p].event
<1>0. /\ call[p] \in Call /\ t \in JobStatus /\ status \in JobStatus
      /\ call \in [Clients -> Call] /\ e \in Event
      /\ CallConsistent(p)
  BY DEF IInv, TypeOK, CallsConsistent, Call
<1>1. CASE LeavesTerminal(status, t)
  <2>1. /\ call' = [call EXCEPT ![p] = Raised] /\ call[p].pc = "commit"
        /\ UNCHANGED <<status, events, files, beatFile, lock, now>>
    BY <1>1 DEF CommitEvent
  <2>2. CallConsistent(p)'
    BY <1>0, <2>1, IdleFields DEF NoStatus, CallConsistent
  <2> QED
    BY <1>0, <2>1, <2>2, PrepareFrame, IdleFields
<1>2. CASE ~LeavesTerminal(status, t)
  <2> PICK n \in 0..MaxEvents : DOMAIN events = 1..n
    BY DEF IInv, LogGapFree
  <2> DEFINE m == Merged(status, t)
  <2>1. n \in Nat /\ NextSeq = n + 1 /\ NextSeq \in 1..MaxEvents
    BY NextSeqOfRange, BoundAssumption DEF CommitEvent
  <2>2. /\ call[p].pc = "commit" /\ lock = NoClient /\ lock' = p
        /\ UNCHANGED <<status, files, beatFile, now>>
        /\ call' = [call EXCEPT ![p] =
                       [pc |-> "write", target |-> m, event |-> e]]
    BY <1>2 DEF CommitEvent
  <2>3. /\ DOMAIN events' = 1..(n + 1) /\ events'[n + 1] = e
        /\ \A i \in DOMAIN events : events'[i] = events[i]
    <3>1. events' = [i \in DOMAIN events \cup {n + 1} |->
                        IF i = n + 1 THEN e ELSE events[i]]
      BY <1>2, <2>1 DEF CommitEvent
    <3>2. DOMAIN events \cup {n + 1} = 1..(n + 1) /\ n + 1 \notin DOMAIN events
      BY <2>1
    <3> QED
      BY <3>1, <3>2
  <2>4. /\ m.seq = n + 1 /\ m.st = t.st /\ m.stages = t.stages
        /\ m.hb = status.hb
    <3>1. t.hb <= status.hb /\ t.hb \in Nat /\ status.hb \in Nat
      BY <1>0, <2>2 DEF CallConsistent, JobStatus
    <3>2. (IF status.hb > t.hb THEN status.hb ELSE t.hb) = status.hb
      BY <3>1
    <3> QED
      BY <1>0, <2>1, <3>2 DEF Merged, JobStatus
  <2> HIDE DEF m
  <2>5. LogGapFree'
    BY <2>1, <2>3 DEF LogGapFree
  <2>6. status.seq <= n /\ status.seq \in Nat
    BY <1>0, <2>1 DEF IInv, StateNotAheadOfLog, JobStatus
  <2>7. StateNotAheadOfLog'
    BY <2>1, <2>2, <2>3 DEF IInv, StateNotAheadOfLog
  <2>8. e.type = "stage_receipt" => e.receipt \in files
    BY <1>0, <2>2 DEF CallConsistent
  <2>9. ReceiptsBacked'
    BY <2>1, <2>2, <2>3, <2>8 DEF IInv, ReceiptsBacked
  <2>10. \A q \in Clients : q # p => call'[q] = call[q]
    BY <1>0, <2>2
  <2>11. call'[p] = [pc |-> "write", target |-> m, event |-> e]
    BY <1>0, <2>2
  <2>12. WritersExclude'
    BY <2>2, <2>10, <2>11, ClientAssumption DEF IInv, WritersExclude
  <2>13. CallConsistent(p)'
    <3>1. m.stages \subseteq files
      BY <1>0, <2>4 DEF CallConsistent
    <3>2. ~LeavesTerminal(status, m)
      BY <1>2, <2>4 DEF LeavesTerminal
    <3>3. n + 1 > status.seq /\ n + 1 \in DOMAIN events'
      BY <2>1, <2>3, <2>6
    <3> QED
      BY <1>0, <2>2, <2>4, <2>8, <2>11, <3>1, <3>2, <3>3
         DEF CallConsistent, LeavesTerminal
  <2>14. ASSUME NEW q \in Clients, q # p
         PROVE  CallConsistent(q)'
    <3>1. call'[q] = call[q] /\ FilesKept
      BY <2>2, <2>10, <2>14 DEF FilesKept
    <3>2. CallConsistent(q) /\ now \in Nat /\ status.hb \in Nat
      BY DEF IInv, TypeOK, JobStatus, CallsConsistent
    <3>3. DOMAIN events \subseteq DOMAIN events'
      BY <2>1, <2>3
    <3> QED
      BY <2>2, <3>1, <3>2, <3>3, CallFrame DEF IInv
  <2>15. CallsConsistent'
    BY <2>2, <2>13, <2>14 DEF IInv, CallsConsistent
  <2> QED
    BY <2>5, <2>7, <2>9, <2>12, <2>15 DEF IInv
<1> QED
  BY <1>1, <1>2

\* The two steps that write state.json and give the lock back.
LEMMA WriteSteps ==
    ASSUME IInv, TypeOK', NEW p \in Clients, CommitState(p) \/ BeatState(p)
    PROVE  IInv'
<1> USE DEF Return
<1> DEFINE t == call[p].target
<1>0. /\ call[p] \in Call /\ t \in JobStatus /\ status \in JobStatus
      /\ call \in [Clients -> Call] /\ now \in Nat
      /\ CallConsistent(p)
  BY DEF IInv, TypeOK, CallsConsistent, Call
<1>1. /\ call[p].pc \in {"write", "beatWrite"}
      /\ status' = t /\ lock' = NoClient
      /\ call' = [call EXCEPT ![p] = Idle]
      /\ UNCHANGED <<events, files, beatFile, now>>
  BY DEF CommitState, BeatState
<1>2. lock = p
  BY <1>1 DEF IInv, WritersExclude
<1>3. \A q \in Clients : q # p =>
         call'[q] = call[q] /\ call[q].pc \notin {"write", "beatWrite"}
  BY <1>0, <1>1, <1>2 DEF IInv, WritersExclude
<1>4. /\ t.seq = 0 \/ t.seq \in DOMAIN events
      /\ t.stages \subseteq files
      /\ t.hb >= status.hb
      /\ t.hb <= now
  BY <1>0, <1>1
     DEF IInv, CallConsistent, StateNotAheadOfLog, CallsConsistent, JobStatus
<1>5. LogGapFree' /\ StateNotAheadOfLog' /\ ReceiptsBacked'
  BY <1>1, <1>4 DEF IInv, LogGapFree, StateNotAheadOfLog, ReceiptsBacked
<1>6. WritersExclude'
  BY <1>0, <1>1, <1>3, IdleFields, ClientAssumption DEF WritersExclude
<1>7. CallConsistent(p)'
  BY <1>0, <1>1, IdleFields DEF NoStatus, CallConsistent
<1>8. ASSUME NEW q \in Clients, q # p
      PROVE  CallConsistent(q)'
  <2>1. CallConsistent(q) /\ FilesKept /\ call'[q] = call[q]
    BY <1>1, <1>3, <1>8 DEF IInv, CallsConsistent, FilesKept
  <2>2. call[q].pc = "beat" => status'.hb = status.hb
    <3>1. call[q].pc = "beat" => p # Beater
      BY <1>8, <2>1 DEF CallConsistent
    <3> QED
      BY <1>0, <1>1, <3>1 DEF CallConsistent
  <2> QED
    BY <1>0, <1>1, <1>3, <1>4, <1>8, <2>1, <2>2, CallFrame DEF IInv
<1>9. CallsConsistent'
  BY <1>1, <1>4, <1>7, <1>8 DEF IInv, CallsConsistent
<1> QED
  BY <1>5, <1>6, <1>9 DEF IInv

\* touch_heartbeat, first file.
LEMMA BeatFileStep ==
    ASSUME IInv, TypeOK', NEW p \in Clients, BeatFile(p)
    PROVE  IInv'
<1> USE DEF Return
<1> DEFINE t == call[p].target
           m == [status EXCEPT !.hb = t.hb]
           c == [call[p] EXCEPT !.pc = "beatWrite", !.target = m]
<1>0. /\ call[p] \in Call /\ t \in JobStatus /\ status \in JobStatus
      /\ call \in [Clients -> Call] /\ now \in Nat
      /\ CallConsistent(p) /\ call[p].pc = "beat" /\ lock = NoClient
  BY DEF IInv, TypeOK, CallsConsistent, Call, BeatFile
<1>1. CASE status.st \in Terminal
  <2>1. /\ call' = [call EXCEPT ![p] = Idle]
        /\ UNCHANGED <<status, events, files, beatFile, lock, now>>
    BY <1>1 DEF BeatFile
  <2>2. CallConsistent(p)'
    BY <1>0, <2>1, IdleFields DEF NoStatus, CallConsistent
  <2> QED
    BY <1>0, <2>1, <2>2, PrepareFrame, IdleFields
<1>2. CASE status.st \notin Terminal
  <2>1. /\ lock' = p /\ beatFile' = t.hb /\ call' = [call EXCEPT ![p] = c]
        /\ UNCHANGED <<status, events, files, now>>
    BY <1>2 DEF BeatFile
  <2>2. /\ m.hb = t.hb /\ m.seq = status.seq /\ m.st = status.st
        /\ m.stages = status.stages
    BY <1>0 DEF JobStatus
  <2>3. c.pc = "beatWrite" /\ c.target = m
    BY <1>0 DEF Call
  <2> HIDE DEF m, c
  <2>4. call'[p] = c /\ \A q \in Clients : q # p => call'[q] = call[q]
    BY <1>0, <2>1
  <2>5. WritersExclude'
    BY <1>0, <2>1, <2>3, <2>4, ClientAssumption DEF IInv, WritersExclude
  <2>6. LogGapFree' /\ StateNotAheadOfLog' /\ ReceiptsBacked'
    BY <2>1 DEF IInv, LogGapFree, StateNotAheadOfLog, ReceiptsBacked
  <2>7. t.hb >= status.hb /\ t.hb >= beatFile /\ p = Beater /\ t.hb <= now
    BY <1>0 DEF CallConsistent
  <2>8. CallConsistent(p)'
    BY <2>1, <2>2, <2>3, <2>4, <2>7
       DEF CallConsistent, IInv, ReceiptsBacked
  <2>9. ASSUME NEW q \in Clients, q # p
        PROVE  CallConsistent(q)'
    <3>1. /\ CallConsistent(q) /\ FilesKept /\ call'[q] = call[q]
          /\ status.hb \in Nat
      BY <1>0, <2>1, <2>4, <2>9
         DEF IInv, CallsConsistent, FilesKept, JobStatus
    <3>2. call[q].pc \notin {"write", "beatWrite", "beat"}
      BY <1>0, <2>7, <2>9, <3>1, ClientAssumption
         DEF CallConsistent, IInv, WritersExclude
    <3> QED
      BY <1>0, <2>1, <3>1, <3>2, CallFrame DEF IInv
  <2>10. CallsConsistent'
    BY <2>1, <2>7, <2>8, <2>9 DEF IInv, CallsConsistent
  <2> QED
    BY <2>5, <2>6, <2>10 DEF IInv
<1> QED
  BY <1>1, <1>2

\* A crash loses the call and the lock, nothing on disk.
LEMMA CrashStep ==
    ASSUME IInv, TypeOK', NEW p \in Clients, Crash(p)
    PROVE  IInv'
<1> USE DEF Return
<1>0. /\ call \in [Clients -> Call] /\ now \in Nat /\ status.hb \in Nat
      /\ call' = [call EXCEPT ![p] = Idle]
      /\ UNCHANGED <<status, events, files, beatFile, now>>
      /\ lock' = IF lock = p THEN NoClient ELSE lock
  BY DEF IInv, TypeOK, JobStatus, Crash
<1>1. \A q \in Clients : q # p => call'[q] = call[q]
  BY <1>0
<1>2. LogGapFree' /\ StateNotAheadOfLog' /\ ReceiptsBacked'
  BY <1>0 DEF IInv, LogGapFree, StateNotAheadOfLog, ReceiptsBacked
<1>3. WritersExclude'
  BY <1>0, <1>1, IdleFields, ClientAssumption DEF IInv, WritersExclude
<1>4. CallConsistent(p)'
  BY <1>0, IdleFields DEF NoStatus, CallConsistent
<1>5. ASSUME NEW q \in Clients, q # p
      PROVE  CallConsistent(q)'
  <2>1. CallConsistent(q) /\ FilesKept /\ call'[q] = call[q]
    BY <1>0, <1>1, <1>5 DEF IInv, CallsConsistent, FilesKept
  <2> QED
    BY <1>0, <2>1, CallFrame DEF IInv
<1>6. CallsConsistent'
  BY <1>0, <1>4, <1>5 DEF IInv, CallsConsistent
<1> QED
  BY <1>2, <1>3, <1>6 DEF IInv

\* Steps outside the calls: the cancel file, the clock and stuttering.
LEMMA OtherSteps ==
    ASSUME IInv, TypeOK',
           (\E p \in Clients : ClearCancel(p)) \/ Tick \/ UNCHANGED vars
    PROVE  IInv'
<1>1. /\ UNCHANGED <<status, events, files, beatFile, lock, call>>
      /\ now' >= now /\ now \in Nat /\ now' \in Nat
      /\ status.hb \in Nat /\ beatFile \in Nat
  BY DEF ClearCancel, Tick, vars, IInv, TypeOK, JobStatus
<1>2. LogGapFree' /\ StateNotAheadOfLog' /\ ReceiptsBacked' /\ WritersExclude'
  BY <1>1
     DEF IInv, LogGapFree, StateNotAheadOfLog, ReceiptsBacked, WritersExclude
<1>3. ASSUME NEW q \in Clients
      PROVE  CallConsistent(q)'
  <2>1. CallConsistent(q) /\ FilesKept
    BY <1>1 DEF IInv, CallsConsistent, FilesKept
  <2> QED
    BY <1>1, <2>1, CallFrame DEF IInv
<1>4. CallsConsistent'
  BY <1>1, <1>3 DEF IInv, CallsConsistent
<1> QED
  BY <1>2, <1>4 DEF IInv

LEMMA NextIInv == IInv /\ [Next]_vars => IInv'
<1> SUFFICES ASSUME IInv, [Next]_vars
             PROVE  IInv'
  OBVIOUS
<1>1. TypeOK'
  BY NextTypeOK DEF IInv
<1>2. ASSUME NEW p \in Clients, Begin(p)
      PROVE  IInv'
  BY <1>1, <1>2, PrepareSteps, ReceiptSteps, OtherSteps DEF Begin
<1>3. ASSUME NEW p \in Clients, CallStep(p)
      PROVE  IInv'
  BY <1>1, <1>3, PrepareSteps, ReceiptSteps, CommitEventStep, WriteSteps,
     BeatFileStep DEF CallStep
<1>4. ASSUME NEW p \in Clients, Handle(p) \/ Crash(p)
      PROVE  IInv'
  BY <1>1, <1>4, PrepareSteps, CrashStep
<1>5. CASE Tick \/ UNCHANGED vars
  BY <1>1, <1>5, OtherSteps
<1> QED
  BY <1>2, <1>3, <1>4, <1>5 DEF Next

\* The strengthened invariant holds throughout every behaviour of the journal.
THEOREM Invariance == Spec => []IInv
<1>1. Init => IInv
  BY InitIInv
<1>2. IInv /\ [Next]_vars => IInv'
  BY NextIInv
<1> QED
  BY <1>1, <1>2, PTL DEF Spec

-----------------------------------------------------------------------------
(* The properties.                                                         *)

\* Every file and every call has its type in every reachable state.
THEOREM TypeCorrect == Spec => []TypeOK
<1>1. IInv => TypeOK
  BY DEF IInv
<1> QED
  BY <1>1, Invariance, PTL

\* The event files are always numbered 1..n, whatever the crashes.
THEOREM LogIsGapFree == Spec => []LogGapFree
<1>1. IInv => LogGapFree
  BY DEF IInv
<1> QED
  BY <1>1, Invariance, PTL

\* state.seq never names an event that has not been written.
THEOREM StateBehindLog == Spec => []StateNotAheadOfLog
<1>1. IInv => StateNotAheadOfLog
  BY DEF IInv
<1> QED
  BY <1>1, Invariance, PTL

\* Receipts named by the state or the log are on disk with their content.
THEOREM ReceiptsAreBacked == Spec => []ReceiptsBacked
<1>1. IInv => ReceiptsBacked
  BY DEF IInv
<1> QED
  BY <1>1, Invariance, PTL

\* Only the holder of the journal lock is between the writes of a commit.
THEOREM MutualExclusion == Spec => []WritersExclude
<1>1. IInv => WritersExclude
  BY DEF IInv
<1> QED
  BY <1>1, Invariance, PTL

\* state.json is only written by the two steps that end a locked section.
LEMMA StatusWriters ==
    ASSUME [Next]_vars, status' # status
    PROVE  \E p \in Clients :
              (CommitState(p) \/ BeatState(p)) /\ status' = call[p].target
<1>1. \A p \in Clients :
         Begin(p) \/ Handle(p) \/ Crash(p) => status' = status
  BY DEF Begin, Create, AppendEvent, SetState, RecordReceipt, RequestCancel,
     ClearCancel, TouchHeartbeat, Handle, Crash
<1>2. \A p \in Clients :
         ReceiptRead(p) \/ CancelRead(p) \/ CommitEvent(p) \/ BeatFile(p)
            => status' = status
  BY DEF ReceiptRead, CancelRead, CommitEvent, BeatFile
<1>3. Tick \/ UNCHANGED vars => status' = status
  BY DEF Tick, vars
<1>4. PICK p \in Clients : CommitState(p) \/ BeatState(p)
  BY <1>1, <1>2, <1>3 DEF Next, CallStep
<1> QED
  BY <1>4 DEF CommitState, BeatState

\* What a write of state.json preserves.
LEMMA StatusStep ==
    ASSUME IInv, [Next]_vars
    PROVE  /\ status.st \in Terminal => status'.st = status.st
           /\ status'.seq >= status.seq
           /\ status'.hb >= status.hb
<1>0. status \in JobStatus
  BY DEF IInv, TypeOK
<1>1. CASE status' = status
  BY <1>0, <1>1 DEF JobStatus
<1>2. CASE status' # status
  <2>1. PICK p \in Clients :
           (CommitState(p) \/ BeatState(p)) /\ status' = call[p].target
    BY <1>2, StatusWriters
  <2>2. CallConsistent(p) /\ call[p].target \in JobStatus
    BY DEF IInv, CallsConsistent, TypeOK, Call
  <2>3. call[p].pc \in {"write", "beatWrite"}
    BY <2>1 DEF CommitState, BeatState
  <2> QED
    BY <1>0, <2>1, <2>2, <2>3 DEF CallConsistent, LeavesTerminal, JobStatus
<1> QED
  BY <1>1, <1>2

\* A job that has succeeded, failed or been cancelled stays so, although every
\* writer prepared its target from a status it read before taking the lock.
THEOREM TerminalIsFinal == Spec => TerminalStays
<1>1. IInv /\ [Next]_vars =>
         [status.st \in Terminal => status'.st = status.st]_vars
  BY StatusStep
<1> QED
  BY <1>1, Invariance, PTL DEF Spec, TerminalStays

\* The sequence number in state.json never goes back.
THEOREM SeqNeverDecreases == Spec => SeqMonotone
<1>1. IInv /\ [Next]_vars => [status'.seq >= status.seq]_vars
  BY StatusStep
<1> QED
  BY <1>1, Invariance, PTL DEF Spec, SeqMonotone

\* heartbeat.json is only written with a later time.
LEMMA BeatFileMonotone ==
    ASSUME IInv, [Next]_vars
    PROVE  beatFile' >= beatFile
<1>0. beatFile \in Nat
  BY DEF IInv, TypeOK
<1>1. ASSUME NEW p \in Clients, BeatFile(p)
      PROVE  beatFile' >= beatFile
  <2>1. CallConsistent(p)
    BY DEF IInv, CallsConsistent
  <2> QED
    BY <1>0, <1>1, <2>1 DEF BeatFile, CallConsistent
<1>2. ASSUME NEW p \in Clients,
             Begin(p) \/ Handle(p) \/ Crash(p) \/ ReceiptRead(p)
                \/ CancelRead(p) \/ CommitEvent(p) \/ CommitState(p)
                \/ BeatState(p)
      PROVE  beatFile' = beatFile
  BY <1>2 DEF Begin, Create, AppendEvent, SetState, RecordReceipt,
     RequestCancel, ClearCancel, TouchHeartbeat, Handle, Crash, ReceiptRead,
     CancelRead, CommitEvent, CommitState, BeatState
<1>3. CASE Tick \/ UNCHANGED vars
  BY <1>3, <1>0 DEF Tick, vars
<1> QED
  BY <1>0, <1>1, <1>2, <1>3 DEF Next, CallStep

\* No commit overwrites a heartbeat with an older one, so the evidence that a
\* worker is alive is never lost to a concurrent state change.
THEOREM HeartbeatsNeverLost == Spec => HeartbeatMonotone
<1>1. IInv /\ [Next]_vars =>
         [status'.hb >= status.hb /\ beatFile' >= beatFile]_vars
  BY StatusStep, BeatFileMonotone
<1> QED
  BY <1>1, Invariance, PTL DEF Spec, HeartbeatMonotone

\* An event file is written once and never changed.
THEOREM LogIsImmutable == Spec => LogImmutable
<1> DEFINE Kept == \A i \in DOMAIN events :
                      i \in DOMAIN events' /\ events'[i] = events[i]
<1>1. ASSUME IInv, [Next]_vars
      PROVE  Kept
  <2>1. PICK n \in 0..MaxEvents : DOMAIN events = 1..n
    BY <1>1 DEF IInv, LogGapFree
  <2>2. n \in Nat /\ NextSeq = n + 1
    BY <2>1, NextSeqOfRange, BoundAssumption
  <2>3. ASSUME NEW p \in Clients, CommitEvent(p)
        PROVE  Kept
    BY <2>1, <2>2, <2>3 DEF CommitEvent
  <2>4. ASSUME NEW p \in Clients,
               Begin(p) \/ Handle(p) \/ Crash(p) \/ ReceiptRead(p)
                  \/ CancelRead(p) \/ CommitState(p) \/ BeatFile(p)
                  \/ BeatState(p)
        PROVE  events' = events
    BY <2>4 DEF Begin, Create, AppendEvent, SetState, RecordReceipt,
       RequestCancel, ClearCancel, TouchHeartbeat, Handle, Crash, ReceiptRead,
       CancelRead, CommitState, BeatFile, BeatState
  <2>5. CASE Tick \/ UNCHANGED vars
    BY <2>5 DEF Tick, vars
  <2> QED
    BY <1>1, <2>3, <2>4, <2>5 DEF Next, CallStep
<1>2. IInv /\ [Next]_vars => [Kept]_vars
  BY <1>1
<1> QED
  BY <1>2, Invariance, PTL DEF Spec, LogImmutable
=============================================================================
