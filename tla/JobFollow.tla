----------------------------- MODULE JobFollow ------------------------------
(***************************************************************************)
(* `job watch --follow` (cli.py _follow) beside the processes of a job: a  *)
(* reader that takes no lock.  It prints the events, THEN reads the state, *)
(* and ends when the job has ended or its heartbeat is stale.              *)
(***************************************************************************)
EXTENDS JobLifecycle

VARIABLE
    follow   \* the follower's next statement

followVars == <<vars, follow>>

FollowInit ==
    /\ Init
    /\ follow = "events"

\* One pass of the loop begins: the events that are new are printed.
PrintEvents ==
    /\ J!Opened
    /\ follow = "events"
    /\ follow' = "status"
    /\ UNCHANGED vars

\* Fault: only a terminal job ends the loop.
LookTerminal ==
    /\ follow = "status"
    /\ follow' = IF status.st \in Terminal THEN "final" ELSE "events"
    /\ UNCHANGED vars

\* And then the state decides whether there will be another pass.
LookAtStatus ==
    /\ follow = "status"
    /\ follow' = IF status.st \in Terminal THEN "final"
                 ELSE IF status.st \in InFlight /\ stale THEN "orphaned"
                 ELSE "events"
    /\ UNCHANGED vars

FollowStep == PrintEvents \/ LookAtStatus

FollowNext ==
    \/ Next /\ UNCHANGED follow
    \/ FollowStep

FollowSpec ==
    /\ FollowInit
    /\ [][FollowNext]_followVars
    /\ Fairness
    /\ WF_followVars(FollowStep)

-----------------------------------------------------------------------------
\* append_event writes the state it has read before the lock: a cancel is about
\* to move a job that has been claimed back to QUEUED.
CancelReverts ==
    \E c \in Cancellers :
        /\ call[c].pc = "write" /\ call[c].target.st = "QUEUED"
        /\ status.st # "QUEUED"

\* _follow, "exits with a structured event instead of hanging": the watch of a
\* job ends, also when the job's worker is killed and the job is cancelled.  Not
\* when the cancel reverts the state: a worker that is killed then leaves a job
\* that is neither terminal nor in flight.
FollowEnds == []~CancelReverts => (J!Opened ~> follow \in {"final", "orphaned"})
=============================================================================
