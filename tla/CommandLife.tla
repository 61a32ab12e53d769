------------------------------ MODULE CommandLife ------------------------------
(***************************************************************************)
(* What a user may rely on about a command, without queues, processes or   *)
(* stale reads: which stage can follow which, that a verdict is recorded   *)
(* with the step it decides, that only a queued command is handed to its   *)
(* device, and that only a command handed over is ever reported on. Stages *)
(* are those that CommandStates names, and of the two transition tables    *)
(* only what both admit can happen, but for the cancellation of a blocked  *)
(* command: a delivered command neither expires nor fails.                 *)
(***************************************************************************)
CONSTANT Commands

VARIABLES
    stage,   \* where the command is, "none" before it exists
    audit,   \* verdicts recorded about it
    handed   \* its device was given the command

vars == <<stage, audit, handed>>

Init ==
    /\ stage = [c \in Commands |-> "none"]
    /\ audit = [c \in Commands |-> {}]
    /\ handed = [c \in Commands |-> FALSE]

Submit(c) ==
    /\ stage[c] = "none"
    /\ \E first \in {"awaiting_approval", "queued"} :
        stage' = [stage EXCEPT ![c] = first]
    /\ UNCHANGED <<audit, handed>>

\* The one verdict about a command that waits for one.
Decide(c, verdict, next) ==
    /\ stage[c] = "awaiting_approval" /\ audit[c] = {}
    /\ stage' = [stage EXCEPT ![c] = next]
    /\ audit' = [audit EXCEPT ![c] = {verdict}]
    /\ UNCHANGED handed

Approve(c) == Decide(c, "approved", "queued")
Reject(c) == Decide(c, "rejected", "rejected")

\* The device may be given a command that was queued and has moved on since.
Hand(c) ==
    /\ stage[c] \notin {"none", "awaiting_approval", "rejected"}
    /\ handed' = [handed EXCEPT ![c] = TRUE]
    /\ UNCHANGED <<stage, audit>>

\* The way of a command on its device.
Progress ==
    {<<"queued", "delivered">>, <<"delivered", "acknowledged">>,
     <<"acknowledged", "running">>, <<"running", "succeeded">>,
     <<"running", "failed">>}

Report(c) ==
    /\ handed[c]
    /\ \E next \in {"delivered", "acknowledged", "running", "succeeded", "failed"} :
        /\ <<stage[c], next>> \in Progress
        /\ stage' = [stage EXCEPT ![c] = next]
    /\ UNCHANGED <<audit, handed>>

Cancel(c) ==
    /\ stage[c] \in {"awaiting_approval", "queued", "delivered", "acknowledged",
                     "running", "blocked_by_emergency_stop"}
    /\ stage' = [stage EXCEPT ![c] = "cancelled"]
    /\ UNCHANGED <<audit, handed>>

\* Commands that have reached no device yet are ended together.
EndAll(batch, from, end) ==
    /\ \A c \in batch : stage[c] \in from
    /\ stage' = [c \in Commands |-> IF c \in batch THEN end ELSE stage[c]]
    /\ UNCHANGED <<audit, handed>>

Expire(batch) == EndAll(batch, {"awaiting_approval", "queued"}, "expired")
Block(batch) == EndAll(batch, {"queued"}, "blocked_by_emergency_stop")

Next ==
    \/ \E c \in Commands :
        \/ Submit(c) \/ Approve(c) \/ Reject(c)
        \/ Hand(c) \/ Report(c) \/ Cancel(c)
    \/ \E batch \in SUBSET Commands : Expire(batch) \/ Block(batch)

Spec == Init /\ [][Next]_vars
=============================================================================
