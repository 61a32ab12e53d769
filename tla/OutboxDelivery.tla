----------------------------- MODULE OutboxDelivery -----------------------------
(***************************************************************************)
(* What the transactional outbox promises to the rest of the backend: an   *)
(* event that was written is pending until it is settled, it is sent only  *)
(* while it is pending and any number of times, it is settled as published *)
(* only after it was sent, and it is given up only with its command. There *)
(* are no workers, batches, locks or crashes here.                         *)
(***************************************************************************)
EXTENDS Naturals

CONSTANT Events

VARIABLES
    status,  \* "none", "pending", "published" or "failed"
    copies,  \* times the event was handed to the stream
    halted   \* events whose command was stopped or cancelled

vars == <<status, copies, halted>>

Init ==
    /\ status = [e \in Events |-> "none"]
    /\ copies = [e \in Events |-> 0]
    /\ halted = {}

Write(e) ==
    /\ status[e] = "none"
    /\ status' = [status EXCEPT ![e] = "pending"]
    /\ UNCHANGED <<copies, halted>>

Send(e) ==
    /\ status[e] = "pending"
    /\ copies' = [copies EXCEPT ![e] = @ + 1]
    /\ UNCHANGED <<status, halted>>

Halt ==
    /\ halted \subseteq halted'
    /\ UNCHANGED <<status, copies>>

\* One transaction settles sent events as published and the events of stopped
\* commands as failed.
Settle ==
    /\ \A e \in Events :
        \/ status'[e] = status[e]
        \/ status[e] = "pending" /\ status'[e] = "published" /\ copies[e] > 0
        \/ status[e] = "pending" /\ status'[e] = "failed" /\ e \in halted'
    /\ halted \subseteq halted'
    /\ UNCHANGED copies

Next == (\E e \in Events : Write(e) \/ Send(e)) \/ Halt \/ Settle

Spec == Init /\ [][Next]_vars
=============================================================================
