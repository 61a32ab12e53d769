--------------------------- MODULE CommandLifecycle ---------------------------
(***************************************************************************)
(* The life of commands across the processes of the backend: the API       *)
(* (create, cancel, decide an approval), the outbox publisher, the gateway *)
(* connection that hands a command to its device, the device's reports,    *)
(* the lifecycle consumer, the scheduler and emergency-stop activation.    *)
(*                                                                         *)
(* A database transaction that locks the command row before it reads it is *)
(* one step. Where the code reads a row without a lock and writes later    *)
(* (cancel_command, decide_approval, OutboxPublisher.process_batch, the    *)
(* gateway's pre-delivery check) the read and the write are two steps.     *)
(* What EmergencyStopService.is_active answers is arbitrary here; module   *)
(* EmergencyStop says what it may answer.                                  *)
(***************************************************************************)
EXTENDS CommandStates, Naturals, Sequences, FiniteSets

CONSTANTS
    Commands,       \* (device, idempotency key) pairs: one row each
    DeviceReports,  \* the reports the device may send
    MaxDeliver,     \* deliveries of one message to a durable consumer (5)
    InfoEnabled,    \* the scheduler's logger records INFO (main: TRUE)
    MaxCancels,     \* bound: cancel requests in flight for one command
    MaxEvents       \* bound: rows of command_state_events for one command

AllDeviceReports ==
    {"accepted", "declined", "progress", "success", "failure"}

ASSUME ReportsAssumption == DeviceReports \subseteq AllDeviceReports
ASSUME MaxDeliverAssumption == MaxDeliver \in Nat \ {0}
ASSUME InfoAssumption == InfoEnabled \in BOOLEAN

Reports == DeviceReports \cup {"delivered"}

VARIABLES
    state,       \* commands.state, "none" before the row exists
    requires,    \* commands.requires_approval
    task,        \* tasks.state, "none" before the row exists
    events,      \* command_state_events of the command, oldest first
    approval,    \* approvals.status, "none" when there is no approval
    audit,       \* decisions with a row in audit_logs
    outbox,      \* status of the command.queued row in outbox_events
    expires,     \* commands.expires_at: no date, a date to come, a past one
    approvalDue, \* approvals.expires_at has passed
    serving,     \* nothing keeps the publisher or the gateway from its work
    cancelling,  \* states seen by the cancel requests in flight
    deciding,    \* decisions in flight that read the approval as pending
    pubView,     \* state seen by the publisher, "none" when it holds no row
    ready,       \* the command's message is in the COMMANDS work queue
    gateway,     \* where the gateway is with that message
    received,    \* the device was sent the command
    sent,        \* the reports the device has sent
    inbox        \* deliveries left of each report in the consumer's stream

rows == <<state, requires, task, events, approval, audit, outbox>>
clock == <<expires, approvalDue, serving>>
requests == <<cancelling, deciding, pubView>>
wire == <<ready, gateway, received, sent, inbox>>
vars == <<rows, clock, requests, wire>>

Decision == {"approve", "reject", "expire"}
OutboxStatus == {"none", "pending", "published", "failed"}
DedupKey == {"delivered", "acknowledged", "progress_first", "result"}
StateEvent ==
    [previous_state : CommandState \cup {"none"},
     new_state : CommandState, dedup_key : DedupKey \cup {"none"}]

TypeOK ==
    /\ state \in [Commands -> CommandState \cup {"none"}]
    /\ requires \in [Commands -> BOOLEAN]
    /\ task \in [Commands -> TaskState \cup {"none"}]
    /\ events \in [Commands -> Seq(StateEvent)]
    /\ approval \in [Commands -> ApprovalStatus \cup {"none"}]
    /\ audit \in [Commands -> SUBSET {"approved", "rejected"}]
    /\ outbox \in [Commands -> OutboxStatus]
    /\ expires \in [Commands -> {"never", "later", "past"}]
    /\ approvalDue \in [Commands -> BOOLEAN]
    /\ serving \in BOOLEAN
    /\ cancelling \in [Commands -> SUBSET CommandState]
    /\ deciding \in [Commands -> SUBSET Decision]
    /\ pubView \in [Commands -> CommandState \cup {"none"}]
    /\ ready \in [Commands -> BOOLEAN]
    /\ gateway \in [Commands -> {"idle", "checked", "sent"}]
    /\ received \in [Commands -> BOOLEAN]
    /\ sent \in [Commands -> SUBSET DeviceReports]
    /\ inbox \in [Commands -> [Reports -> 0..MaxDeliver]]

Init ==
    /\ state = [c \in Commands |-> "none"]
    /\ requires = [c \in Commands |-> FALSE]
    /\ task = [c \in Commands |-> "none"]
    /\ events = [c \in Commands |-> <<>>]
    /\ approval = [c \in Commands |-> "none"]
    /\ audit = [c \in Commands |-> {}]
    /\ outbox = [c \in Commands |-> "none"]
    /\ expires = [c \in Commands |-> "never"]
    /\ approvalDue = [c \in Commands |-> FALSE]
    /\ serving = TRUE
    /\ cancelling = [c \in Commands |-> {}]
    /\ deciding = [c \in Commands |-> {}]
    /\ pubView = [c \in Commands |-> "none"]
    /\ ready = [c \in Commands |-> FALSE]
    /\ gateway = [c \in Commands |-> "idle"]
    /\ received = [c \in Commands |-> FALSE]
    /\ sent = [c \in Commands |-> {}]
    /\ inbox = [c \in Commands |-> [r \in Reports |-> 0]]

-----------------------------------------------------------------------------
(* transition_command *)

\* The row transition_command adds to command_state_events: previous_state is
\* what the session saw, not what the row held.
Event(view, new, key) ==
    [previous_state |-> view, new_state |-> new, dedup_key |-> key]

\* One successful transition of c, in a transaction whose session saw view.
Transition(c, view, new, key) ==
    /\ Len(events[c]) < MaxEvents
    /\ Outcome(view, state[c], new) = "ok"
    /\ state' = [state EXCEPT ![c] = RowAfter(view, @, new)]
    /\ events' = [events EXCEPT ![c] = Append(@, Event(view, new, key))]

\* A batch of commands moved to new by one transaction that locks each row
\* before it loads it; the commands that may not move are logged and skipped.
TransitionAll(batch, new) ==
    LET moved == {c \in batch : Outcome(state[c], state[c], new) = "ok"} IN
    /\ \A c \in batch : Outcome(state[c], state[c], new) # "DBError"
    /\ \A c \in moved : Len(events[c]) < MaxEvents
    /\ state' = [c \in Commands |-> IF c \in moved THEN new ELSE state[c]]
    /\ events' = [c \in Commands |->
                    IF c \in moved
                    THEN Append(events[c], Event(state[c], new, "none"))
                    ELSE events[c]]

-----------------------------------------------------------------------------
(* Passage of time, and what the environment does *)

CommandDeadline(c) ==
    /\ expires[c] = "later"
    /\ expires' = [expires EXCEPT ![c] = "past"]
    /\ UNCHANGED <<rows, approvalDue, serving, requests, wire>>

ApprovalDeadline(c) ==
    /\ approval[c] # "none" /\ ~approvalDue[c]
    /\ approvalDue' = [approvalDue EXCEPT ![c] = TRUE]
    /\ UNCHANGED <<rows, expires, serving, requests, wire>>

\* While serving, the device is connected, no emergency stop of its owner is in
\* force, no pending event makes a batch fail, the processes run, and NATS,
\* Valkey and the database answer. Each of these may end and come back.
ServiceChanges ==
    /\ serving' = ~serving
    /\ UNCHANGED <<rows, expires, approvalDue, requests, wire>>

-----------------------------------------------------------------------------
(* CommandService.create_command: the row, its task, its first events and    *)
(* either an approval or an outbox row, in one commit; a key already used    *)
(* changes nothing. Requests, and the trust check that raises as the column  *)
(* stands, are in module CommandRequests; here the command gets past it.     *)

\* Mutant of Create: the event is written before the approval is asked for.
CreateEager(c) ==
    /\ state[c] = "none"
    /\ \E approve \in BOOLEAN :
        LET first == IF approve THEN "awaiting_approval" ELSE "queued" IN
        /\ state' = [state EXCEPT ![c] = first]
        /\ requires' = [requires EXCEPT ![c] = approve]
        /\ task' = [task EXCEPT ![c] = "pending"]
        /\ events' = [events EXCEPT ![c] = <<Event("none", first, "none")>>]
        /\ approval' = [approval EXCEPT ![c] =
                          IF approve THEN "pending" ELSE "none"]
        /\ outbox' = [outbox EXCEPT ![c] = "pending"]
    /\ UNCHANGED <<audit, clock, requests, wire>>

Create(c) ==
    /\ state[c] = "none"
    /\ Outcome("received", "received", "validated") = "ok"
    /\ \E approve \in BOOLEAN :
        LET first == IF approve THEN "awaiting_approval" ELSE "queued" IN
        /\ Outcome("validated", "validated", first) = "ok"
        /\ state' = [state EXCEPT ![c] = first]
        /\ requires' = [requires EXCEPT ![c] = approve]
        /\ task' = [task EXCEPT ![c] = "pending"]
        /\ events' = [events EXCEPT ![c] =
                        <<Event("none", "received", "none"),
                          Event("received", "validated", "none"),
                          Event("validated", first, "none")>>]
        /\ approval' = [approval EXCEPT ![c] =
                          IF approve THEN "pending" ELSE "none"]
        /\ outbox' = [outbox EXCEPT ![c] =
                        IF approve THEN "none" ELSE "pending"]
    /\ \E date \in {"never", "later"} :
        expires' = [expires EXCEPT ![c] = date]
    /\ UNCHANGED <<audit, approvalDue, serving, requests, wire>>

-----------------------------------------------------------------------------
(* CommandService.cancel_command: get_by_id, then transition_command.       *)

CancelRead(c) ==
    /\ state[c] # "none"
    /\ Cardinality(cancelling[c]) < MaxCancels
    /\ cancelling' = [cancelling EXCEPT ![c] = @ \cup {state[c]}]
    /\ UNCHANGED <<rows, clock, deciding, pubView, wire>>

CancelCommit(c, view) ==
    /\ view \in cancelling[c]
    /\ Transition(c, view, "cancelled", "none")
    /\ cancelling' = [cancelling EXCEPT ![c] = @ \ {view}]
    /\ UNCHANGED <<requires, task, approval, audit, outbox, clock, deciding,
                   pubView, wire>>

\* StateTransitionError (the call answers False) or a refusal of the trigger
\* (the call fails); both roll back.
CancelRefused(c, view) ==
    /\ view \in cancelling[c]
    /\ Outcome(view, state[c], "cancelled") # "ok"
    /\ cancelling' = [cancelling EXCEPT ![c] = @ \ {view}]
    /\ UNCHANGED <<rows, clock, deciding, pubView, wire>>

-----------------------------------------------------------------------------
(* ApprovalService.decide_approval: the approval is read without a lock,     *)
(* the command is locked. Requests with the same decision are one element of *)
(* deciding[c]; a commit leaves the element when another one is in flight.   *)

DecideRead(c, d) ==
    /\ approval[c] = "pending"
    /\ d = "expire" <=> approvalDue[c]
    /\ deciding' = [deciding EXCEPT ![c] = @ \cup {d}]
    /\ UNCHANGED <<rows, clock, cancelling, pubView, wire>>

DecideDone(c, d) ==
    \E left \in {deciding[c], deciding[c] \ {d}} :
        deciding' = [deciding EXCEPT ![c] = left]

DecideApprove(c) ==
    /\ "approve" \in deciding[c]
    /\ Len(events[c]) + 1 < MaxEvents
    /\ Outcome(state[c], state[c], "approved") = "ok"
    /\ Outcome("approved", "approved", "queued") = "ok"
    /\ state' = [state EXCEPT ![c] = "queued"]
    /\ events' = [events EXCEPT ![c] =
                    @ \o <<Event(state[c], "approved", "none"),
                           Event("approved", "queued", "none")>>]
    /\ approval' = [approval EXCEPT ![c] = "approved"]
    /\ audit' = [audit EXCEPT ![c] = @ \cup {"approved"}]
    /\ outbox' = [outbox EXCEPT ![c] = "pending"]
    /\ DecideDone(c, "approve")
    /\ UNCHANGED <<requires, task, clock, cancelling, pubView, wire>>

\* Mutant of DecideReject: the command itself is not moved.
RejectApprovalOnly(c) ==
    /\ "reject" \in deciding[c]
    /\ approval' = [approval EXCEPT ![c] = "rejected"]
    /\ audit' = [audit EXCEPT ![c] = @ \cup {"rejected"}]
    /\ DecideDone(c, "reject")
    /\ UNCHANGED <<state, requires, task, events, outbox, clock, cancelling,
                   pubView, wire>>

DecideReject(c) ==
    /\ "reject" \in deciding[c]
    /\ Transition(c, state[c], "rejected", "none")
    /\ approval' = [approval EXCEPT ![c] = "rejected"]
    /\ audit' = [audit EXCEPT ![c] = @ \cup {"rejected"}]
    /\ DecideDone(c, "reject")
    /\ UNCHANGED <<requires, task, outbox, clock, cancelling, pubView, wire>>

\* The request finds the deadline passed and stores that, whatever another
\* request has committed since the read.
DecideExpire(c) ==
    /\ "expire" \in deciding[c]
    /\ approval' = [approval EXCEPT ![c] = "expired"]
    /\ DecideDone(c, "expire")
    /\ UNCHANGED <<state, requires, task, events, audit, outbox, clock,
                   cancelling, pubView, wire>>

\* An active emergency stop (approve only), a wrong nonce, or a command that
\* may not move: everything rolls back.
DecideAbort(c, d) ==
    /\ d \in deciding[c] \ {"expire"}
    /\ deciding' = [deciding EXCEPT ![c] = @ \ {d}]
    /\ UNCHANGED <<rows, clock, cancelling, pubView, wire>>

-----------------------------------------------------------------------------
(* OutboxPublisher.process_batch, for a batch of one command.queued event.   *)

PublisherRead(c) ==
    /\ \A d \in Commands : pubView[d] = "none"
    /\ outbox[c] = "pending"
    /\ pubView' = [pubView EXCEPT ![c] = state[c]]
    /\ UNCHANGED <<rows, clock, cancelling, deciding, wire>>

\* An emergency stop is active: the command is blocked, the event is failed.
PublisherBlock(c) ==
    /\ ~serving
    /\ pubView[c] # "none"
    /\ Transition(c, pubView[c], "blocked_by_emergency_stop", "none")
    /\ outbox' = [outbox EXCEPT ![c] = "failed"]
    /\ pubView' = [pubView EXCEPT ![c] = "none"]
    /\ UNCHANGED <<requires, task, approval, audit, clock, cancelling,
                   deciding, wire>>

\* No stop: publish and mark published. When the process stops before its
\* commit the event stays pending and is published again.
PublisherPublish(c, committed) ==
    /\ committed \/ ~serving
    /\ pubView[c] # "none"
    /\ ready' = [ready EXCEPT ![c] = TRUE]
    /\ outbox' = [outbox EXCEPT ![c] = IF committed THEN "published" ELSE @]
    /\ pubView' = [pubView EXCEPT ![c] = "none"]
    /\ UNCHANGED <<state, requires, task, events, approval, audit, clock,
                   cancelling, deciding, gateway, received, sent, inbox>>

\* Mutant of PublisherAbort: the limit of attempts takes effect.
PublisherGivesUp(c) ==
    /\ ~serving
    /\ pubView[c] # "none"
    /\ outbox' = [outbox EXCEPT ![c] = "failed"]
    /\ pubView' = [pubView EXCEPT ![c] = "none"]
    /\ UNCHANGED <<state, requires, task, events, approval, audit, clock,
                   cancelling, deciding, wire>>

\* NATS or Valkey raises, transition_command refuses to block the command, or
\* another event of the batch fails: the handler's own log call raises (its
\* logger takes no keyword arguments), so no attempt is counted, the
\* transaction rolls back and the worker ends; the event stays pending.
PublisherAbort(c) ==
    /\ ~serving
    /\ pubView[c] # "none"
    /\ pubView' = [pubView EXCEPT ![c] = "none"]
    /\ UNCHANGED <<rows, clock, cancelling, deciding, wire>>

-----------------------------------------------------------------------------
(* nats_listener of the gateway. A stop answered by is_active naks the       *)
(* message, which leaves everything as it is.                                *)

\* _pre_delivery_check; a message that fails it is acked and thus discarded.
GatewayCheck(c) ==
    /\ ready[c] /\ gateway[c] = "idle"
    /\ IF state[c] = "queued" /\ expires[c] # "past"
       THEN /\ gateway' = [gateway EXCEPT ![c] = "checked"]
            /\ UNCHANGED ready
       ELSE /\ ready' = [ready EXCEPT ![c] = FALSE]
            /\ UNCHANGED gateway
    /\ UNCHANGED <<rows, clock, requests, received, sent, inbox>>

\* _pre_delivery_check answers False as well when the database fails.
GatewayCheckFails(c) ==
    /\ ~serving
    /\ ready[c] /\ gateway[c] = "idle"
    /\ ready' = [ready EXCEPT ![c] = FALSE]
    /\ UNCHANGED <<rows, clock, requests, gateway, received, sent, inbox>>

\* CommandRequestMessage demands a date: the validation error naks.
GatewayInvalid(c) ==
    /\ gateway[c] = "checked" /\ expires[c] = "never"
    /\ gateway' = [gateway EXCEPT ![c] = "idle"]
    /\ UNCHANGED <<rows, clock, requests, ready, received, sent, inbox>>

GatewaySend(c) ==
    /\ gateway[c] = "checked" /\ expires[c] # "never"
    /\ gateway' = [gateway EXCEPT ![c] = "sent"]
    /\ received' = [received EXCEPT ![c] = TRUE]
    /\ UNCHANGED <<rows, clock, requests, ready, sent, inbox>>

\* publish_js(delivered), then ack; without the ack the message comes again.
GatewayDelivered(c, acked) ==
    /\ gateway[c] = "sent"
    /\ gateway' = [gateway EXCEPT ![c] = "idle"]
    /\ inbox' = [inbox EXCEPT ![c]["delivered"] = MaxDeliver]
    /\ ready' = [ready EXCEPT ![c] = ~acked]
    /\ UNCHANGED <<rows, clock, requests, received, sent>>

\* The socket, the publish or the process fails: the message is redelivered.
GatewayFault(c) ==
    /\ ~serving
    /\ gateway[c] # "idle"
    /\ gateway' = [gateway EXCEPT ![c] = "idle"]
    /\ UNCHANGED <<rows, clock, requests, ready, received, sent, inbox>>

-----------------------------------------------------------------------------
(* handle_device_message: a report about an existing command of the device   *)
(* enters the stream. The device may send any report at any time.            *)

DeviceSend(c, r) ==
    /\ state[c] # "none"
    /\ r \notin sent[c]
    /\ sent' = [sent EXCEPT ![c] = @ \cup {r}]
    /\ inbox' = [inbox EXCEPT ![c][r] = MaxDeliver]
    /\ UNCHANGED <<rows, clock, requests, ready, gateway, received>>

-----------------------------------------------------------------------------
(* The lifecycle consumer: one durable consumer per subject, so reports of   *)
(* different subjects are handled in any order.                              *)

Target ==
    [delivered |-> "delivered", accepted |-> "acknowledged",
     declined |-> "failed", progress |-> "running", success |-> "succeeded",
     failure |-> "failed"]

Key ==
    [delivered |-> "delivered", accepted |-> "acknowledged",
     declined |-> "acknowledged", progress |-> "progress_first",
     success |-> "result", failure |-> "result"]

\* What _update_task_state stores; accepting a command leaves the task alone.
TaskAfter(r, old) ==
    CASE r \in {"delivered", "progress"} -> "running"
      [] r = "success" -> "succeeded"
      [] r \in {"declined", "failure"} -> "failed"
      [] OTHER -> old

\* Mutant of IsDuplicate: the lookup uses the (never written) unique column.
NeverDuplicate(c, r) == FALSE

\* _is_duplicate; _handle_progress does not call it.
IsDuplicate(c, r) ==
    /\ r # "progress"
    /\ \E i \in 1..Len(events[c]) : events[c][i].dedup_key = Key[r]

\* The message is acked, or the ack is lost and it is delivered again.
Settle(c, r, acked) ==
    inbox' = [inbox EXCEPT ![c][r] = IF acked THEN 0 ELSE @ - 1]

\* The handler moves the command and its task in one commit.
HandleCommit(c, r, acked) ==
    /\ inbox[c][r] > 0
    /\ ~IsDuplicate(c, r)
    /\ r = "progress" => state[c] = "acknowledged"
    /\ Transition(c, state[c], Target[r], Key[r])
    /\ task' = [task EXCEPT ![c] = TaskAfter(r, @)]
    /\ Settle(c, r, acked)
    /\ UNCHANGED <<requires, approval, audit, outbox, clock, requests, ready,
                   gateway, received, sent>>

\* A duplicate, a StateTransitionError or a late progress report: the handler
\* returns normally and the message is acked.
HandleIgnore(c, r, acked) ==
    /\ inbox[c][r] > 0
    /\ \/ IsDuplicate(c, r)
       \/ r = "progress" /\ state[c] # "acknowledged"
       \/ r # "progress" /\ Outcome(state[c], state[c], Target[r])
                                = "StateTransitionError"
    /\ Settle(c, r, acked)
    /\ UNCHANGED <<rows, clock, requests, ready, gateway, received, sent>>

\* The trigger refuses what the state machine allowed: nak.
HandleRefused(c, r) ==
    /\ inbox[c][r] > 0
    /\ ~IsDuplicate(c, r) /\ r # "progress"
    /\ Outcome(state[c], state[c], Target[r]) = "DBError"
    /\ inbox' = [inbox EXCEPT ![c][r] = @ - 1]
    /\ UNCHANGED <<rows, clock, requests, ready, gateway, received, sent>>

\* The consumer stops or loses the database before its commit.
HandleFault(c, r) ==
    /\ inbox[c][r] > 0
    /\ inbox' = [inbox EXCEPT ![c][r] = @ - 1]
    /\ UNCHANGED <<rows, clock, requests, ready, gateway, received, sent>>

-----------------------------------------------------------------------------
(* SchedulerWorker.run_tasks *)

Expirable == {"queued", "awaiting_approval", "approved", "delivered"}

Due == {c \in Commands : expires[c] = "past" /\ state[c] \in Expirable}

\* Mutant of ExpiredTask: the task is left alone.
TaskLeft(old) == old

\* _expire_commands closes the task of an expired command as failed.
ExpiredTask(old) ==
    IF old \in {"succeeded", "failed", "cancelled"} THEN old ELSE "failed"

\* The approvals that expire_pending_approvals changes.
DueApprovals == {c \in Commands : approval[c] = "pending" /\ approvalDue[c]}

\* The log calls of the scheduler raise, because its logger takes no keyword
\* arguments: the warning about a command that may not expire always, the
\* counts of what expired when INFO records are enabled. The transaction then
\* rolls back, the worker ends, and its successor finds what it found.
LogsNothing(batch) ==
    /\ \A c \in batch : Outcome(state[c], state[c], "expired") = "ok"
    /\ InfoEnabled => batch = {} /\ DueApprovals = {}

\* expire_pending_approvals and _expire_commands in one transaction; rows
\* locked by others are skipped, so any batch of the due commands may be taken.
RunTasks(batch) ==
    /\ batch \subseteq Due
    /\ LogsNothing(batch)
    /\ TransitionAll(batch, "expired")
    /\ task' = [c \in Commands |->
                  IF state'[c] # state[c] THEN ExpiredTask(task[c])
                  ELSE task[c]]
    /\ approval' = [c \in Commands |->
                      IF c \in DueApprovals THEN "expired" ELSE approval[c]]
    /\ UNCHANGED <<requires, audit, outbox, clock, requests, wire>>

-----------------------------------------------------------------------------
(* EmergencyStopService.activate: _block_commands on the commands it found   *)
(* queued or approved before the commit.                                     *)

BlockCommands(batch) ==
    /\ ~serving
    /\ batch \subseteq {c \in Commands : state[c] \in {"queued", "approved"}}
    /\ batch # {}
    /\ TransitionAll(batch, "blocked_by_emergency_stop")
    /\ UNCHANGED <<requires, task, approval, audit, outbox, clock, requests,
                   wire>>

-----------------------------------------------------------------------------
(* What the processes do on their own when nothing fails. *)

Consume(c, r) ==
    HandleCommit(c, r, TRUE) \/ HandleIgnore(c, r, TRUE) \/ HandleRefused(c, r)

System ==
    \/ \E c \in Commands :
        \/ PublisherRead(c) \/ PublisherPublish(c, TRUE)
        \/ GatewayCheck(c) \/ GatewayInvalid(c) \/ GatewaySend(c)
        \/ GatewayDelivered(c, TRUE)
        \/ \E r \in Reports : Consume(c, r)
    \/ \E batch \in SUBSET Commands : RunTasks(batch)

\* What users ask for, an emergency stop included.
Requests ==
    \/ \E c \in Commands :
        \/ CancelRead(c)
        \/ \E view \in CommandState :
            CancelCommit(c, view) \/ CancelRefused(c, view)
        \/ \E d \in Decision : DecideRead(c, d) \/ DecideAbort(c, d)
        \/ DecideApprove(c) \/ DecideReject(c) \/ DecideExpire(c)
        \/ PublisherBlock(c)
    \/ \E batch \in SUBSET Commands : BlockCommands(batch)

\* Crashes, lost acks and unreachable services.
Faults ==
    \E c \in Commands :
        \/ PublisherAbort(c) \/ PublisherPublish(c, FALSE)
        \/ GatewayFault(c) \/ GatewayDelivered(c, FALSE)
        \/ \E r \in Reports :
            \/ HandleFault(c, r)
            \/ HandleCommit(c, r, FALSE) \/ HandleIgnore(c, r, FALSE)

\* Every step but a gateway that cannot reach the database.
ConnectedNext ==
    \/ \E c \in Commands :
        Create(c) \/ CommandDeadline(c) \/ ApprovalDeadline(c)
    \/ ServiceChanges
    \/ System
    \/ Requests
    \/ Faults
    \/ \E c \in Commands, r \in DeviceReports : DeviceSend(c, r)

Next == ConnectedNext \/ \E c \in Commands : GatewayCheckFails(c)

Spec == Init /\ [][Next]_vars

\* While serving, the publisher polls the outbox and it and the gateway's
\* listener finish what they took up: nothing is claimed of a batch that fails,
\* a stop in force or a device that is away.
PipelineFairness ==
    \A c \in Commands :
        /\ WF_vars(serving /\ PublisherRead(c))
        /\ WF_vars(serving /\ PublisherPublish(c, TRUE))
        /\ WF_vars(serving /\ GatewayCheck(c))
        /\ WF_vars(serving /\ GatewaySend(c))

FairSpec == Spec /\ PipelineFairness
ConnectedSpec == Init /\ [][ConnectedNext]_vars /\ PipelineFairness

-----------------------------------------------------------------------------
(* Safety *)

\* Only states that end a transaction are ever visible to another one:
\* received, validated and approved exist inside create_command and
\* decide_approval only, and no code sets timed_out.
CommittedStates ==
    {"none", "awaiting_approval", "rejected", "queued", "delivered",
     "acknowledged", "running", "succeeded", "failed", "cancelled", "expired",
     "blocked_by_emergency_stop"}

\* The task tells the same story as its command whatever the order in which
\* the consumer, the scheduler, an emergency stop and a cancellation commit:
\* it succeeded exactly when the command did, it failed exactly when the
\* command failed or expired, and it runs only from delivery on.
\* (_update_task_state, _expire_commands)
TaskAgrees ==
    \A c \in Commands :
        /\ task[c] = "succeeded" <=> state[c] = "succeeded"
        /\ task[c] = "failed" <=> state[c] \in {"failed", "expired"}
        /\ state[c] \in {"delivered", "acknowledged", "running"}
                => task[c] = "running"
        /\ task[c] = "running"
                => state[c] \in {"delivered", "acknowledged", "running",
                                 "cancelled"}

\* The states a command that needs approval may have without one.
Unapproved ==
    {"none", "awaiting_approval", "rejected", "cancelled", "expired"}

\* A command that needs approval is queued, run or sent to its device only
\* after an approve decision was committed with its audit row, also when two
\* decisions, a deadline and a cancellation race on the same approval.
\* (decide_approval reads the approval without a lock)
ApprovalGate ==
    \A c \in Commands :
        requires[c] /\ "approved" \notin audit[c] =>
            /\ state[c] \in Unapproved
            /\ outbox[c] = "none"
            /\ ~ready[c] /\ ~received[c]

\* Of the decisions that race on one approval, approvals and rejections never
\* both commit, and a rejected command never leaves "rejected".
\* (decide_approval)
OneVerdict ==
    \A c \in Commands :
        "rejected" \in audit[c] =>
            audit[c] = {"rejected"} /\ state[c] = "rejected"

\* A report that is redelivered, or sent by a device that repeats itself,
\* leaves at most one event with its deduplication key.
\* (_is_duplicate, _handle_progress)
OneEventPerKey ==
    \A c \in Commands : \A i, j \in 1..Len(events[c]) :
        events[c][i].dedup_key # "none"
            /\ events[c][i].dedup_key = events[c][j].dedup_key => i = j

\* The terminal states that both transition tables close.
FinalStates == TERMINAL_STATES \ {"blocked_by_emergency_stop"}

\* What a step may never do: move a command out of a final state, or a
\* blocked command to anything but cancelled, although cancel_command and the
\* publisher check a state they read before they held the lock.
FinalStatesStay ==
    [][\A c \in Commands :
        /\ state[c] \in FinalStates => state'[c] = state[c]
        /\ state[c] = "blocked_by_emergency_stop" =>
                state'[c] \in {state[c], "cancelled"}]_vars

\* The refinement mapping: the row's state is the command's stage.
Life == INSTANCE CommandLife WITH stage <- state, handed <- received

\* Everything the processes do to a command, with stale reads, redelivery and
\* the two transition tables that disagree, is a step of the life CommandLife
\* promises: what the session read before the lock, or a report that comes
\* late, takes no command where its stage may not go.
\* (transition_command, validate_command_state_transition)
LifeKept == Life!Spec

-----------------------------------------------------------------------------
(* Liveness *)

\* Once the pipeline serves for good, a queued command with an expiry date is
\* not forgotten: whatever crashes, lost acks, cancellations and stops there
\* were before, while it was on its way, it reaches the device, leaves
\* "queued", or the date passes. Nothing is promised while an event poisons
\* every batch, a stop lasts or the device stays away.
\* (outbox_events, process_batch, nats_listener)
NoCommandForgotten ==
    <>[]serving =>
        \A c \in Commands :
            state[c] = "queued" /\ expires[c] = "later"
                ~> received[c] \/ expires[c] = "past" \/ state[c] # "queued"
=============================================================================
