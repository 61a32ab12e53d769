------------------------ MODULE CommandLifecycleProofs ------------------------
(* Invariance proofs for CommandLifecycle, for any set of commands and any   *)
(* bounds.                                                                   *)
EXTENDS CommandLifecycle, SequenceTheorems, TLAPS

USE ReportsAssumption, MaxDeliverAssumption

\* The first state is well typed.
LEMMA InitTypeOK == Init => TypeOK
  BY DEF Init, TypeOK, Reports, OutboxStatus

\* The states an action stores are states.
LEMMA RowAfterType ==
    ASSUME NEW view \in CommandState, NEW row \in CommandState \cup {"none"},
           NEW new \in CommandState
    PROVE  RowAfter(view, row, new) \in CommandState \cup {"none"}
  BY DEF RowAfter

\* The rows written to command_state_events are well typed.
LEMMA EventType ==
    ASSUME NEW view \in CommandState \cup {"none"}, NEW new \in CommandState,
           NEW key \in DedupKey \cup {"none"}
    PROVE  Event(view, new, key) \in StateEvent
  BY DEF Event, StateEvent

\* A single transition_command keeps commands and their events well typed.
LEMMA TransitionType ==
    ASSUME TypeOK, NEW c \in Commands, NEW view \in CommandState,
           NEW new \in CommandState, NEW key \in DedupKey \cup {"none"},
           Transition(c, view, new, key)
    PROVE  /\ state' \in [Commands -> CommandState \cup {"none"}]
           /\ events' \in [Commands -> Seq(StateEvent)]
  <1>1. state' \in [Commands -> CommandState \cup {"none"}]
    BY RowAfterType DEF TypeOK, Transition
  <1>2. Event(view, new, key) \in StateEvent
    BY EventType
  <1>3. Append(events[c], Event(view, new, key)) \in Seq(StateEvent)
    BY <1>2, AppendProperties DEF TypeOK
  <1>4. events' \in [Commands -> Seq(StateEvent)]
    BY <1>3 DEF TypeOK, Transition
  <1> QED BY <1>1, <1>4

\* So does a batch of transitions.
LEMMA TransitionAllType ==
    ASSUME TypeOK, NEW batch \in SUBSET Commands, NEW new \in CommandState,
           TransitionAll(batch, new)
    PROVE  /\ state' \in [Commands -> CommandState \cup {"none"}]
           /\ events' \in [Commands -> Seq(StateEvent)]
  <1>1. state' \in [Commands -> CommandState \cup {"none"}]
    BY DEF TypeOK, TransitionAll
  <1>2. ASSUME NEW c \in Commands
        PROVE  Append(events[c], Event(state[c], new, "none")) \in Seq(StateEvent)
    <2>1. Event(state[c], new, "none") \in StateEvent
      BY EventType DEF TypeOK
    <2> QED BY <2>1, AppendProperties DEF TypeOK
  <1>3. events' \in [Commands -> Seq(StateEvent)]
    BY <1>2 DEF TypeOK, TransitionAll
  <1> QED BY <1>1, <1>3

\* A report asks for a state and leaves a deduplication key.
LEMMA TargetType ==
    ASSUME NEW r \in Reports
    PROVE  Target[r] \in CommandState /\ Key[r] \in DedupKey
  BY DEF Target, Key, Reports, AllDeviceReports, CommandState, DedupKey

\* Settling a delivery never counts below zero.
LEMMA SettleType ==
    ASSUME TypeOK, NEW c \in Commands, NEW r \in Reports, NEW acked,
           inbox[c][r] > 0, Settle(c, r, acked)
    PROVE  inbox' \in [Commands -> [Reports -> 0..MaxDeliver]]
  <1>1. \/ inbox' = [inbox EXCEPT ![c][r] = 0]
        \/ inbox' = [inbox EXCEPT ![c][r] = @ - 1]
    BY Zenon DEF Settle
  <1>2. inbox[c] \in [Reports -> 0..MaxDeliver]
    BY DEF TypeOK
  <1>3. inbox[c][r] - 1 \in 0..MaxDeliver /\ 0 \in 0..MaxDeliver
    BY <1>2
  <1>4. /\ [inbox[c] EXCEPT ![r] = 0] \in [Reports -> 0..MaxDeliver]
        /\ [inbox[c] EXCEPT ![r] = @ - 1] \in [Reports -> 0..MaxDeliver]
    BY <1>2, <1>3
  <1>5. inbox \in [Commands -> [Reports -> 0..MaxDeliver]]
    BY DEF TypeOK
  <1>6. CASE inbox' = [inbox EXCEPT ![c] = [inbox[c] EXCEPT ![r] = 0]]
    BY <1>4, <1>5, <1>6
  <1>7. CASE inbox' = [inbox EXCEPT ![c] = [inbox[c] EXCEPT ![r] = @ - 1]]
    BY <1>4, <1>5, <1>7
  <1> QED BY <1>1, <1>6, <1>7

\* The steps of the specification, one disjunct per kind of parameter.
LEMMA NextCases ==
    ASSUME [Next]_vars
    PROVE
      \/ \E c \in Commands :
          \/ Create(c) \/ CommandDeadline(c) \/ ApprovalDeadline(c)
          \/ CancelRead(c)
          \/ DecideApprove(c) \/ DecideReject(c) \/ DecideExpire(c)
          \/ PublisherRead(c) \/ PublisherBlock(c)
          \/ PublisherAbort(c)
          \/ GatewayCheck(c) \/ GatewayCheckFails(c) \/ GatewayInvalid(c)
          \/ GatewaySend(c) \/ GatewayFault(c)
      \/ \E c \in Commands, view \in CommandState :
          CancelCommit(c, view) \/ CancelRefused(c, view)
      \/ \E c \in Commands, d \in Decision : DecideRead(c, d) \/ DecideAbort(c, d)
      \/ \E c \in Commands, b \in BOOLEAN :
          PublisherPublish(c, b) \/ GatewayDelivered(c, b)
      \/ \E c \in Commands, r \in DeviceReports : DeviceSend(c, r)
      \/ \E c \in Commands, r \in Reports :
          HandleRefused(c, r) \/ HandleFault(c, r)
      \/ \E c \in Commands, r \in Reports, b \in BOOLEAN :
          HandleCommit(c, r, b) \/ HandleIgnore(c, r, b)
      \/ \E batch \in SUBSET Commands : RunTasks(batch) \/ BlockCommands(batch)
      \/ ServiceChanges
      \/ UNCHANGED vars
  <1>1. TRUE \in BOOLEAN /\ FALSE \in BOOLEAN OBVIOUS
  <1>2. CASE System BY <1>1, <1>2, Zenon DEF System, Consume
  <1>3. CASE Requests BY <1>3, Zenon DEF Requests
  <1>4. CASE Faults BY <1>1, <1>4, Zenon DEF Faults
  <1> QED BY <1>2, <1>3, <1>4, Zenon DEF Next, ConnectedNext

\* Every step keeps the types.
LEMMA NextTypeOK == TypeOK /\ [Next]_vars => TypeOK'
  <1> SUFFICES ASSUME TypeOK, [Next]_vars PROVE TypeOK'
    OBVIOUS
  <1> USE DEF rows, clock, requests, wire
  <1>1. ASSUME NEW c \in Commands, Create(c) PROVE TypeOK'
    <2> PICK approve \in BOOLEAN, first \in {"awaiting_approval", "queued"} :
          /\ state' = [state EXCEPT ![c] = first]
          /\ requires' = [requires EXCEPT ![c] = approve]
          /\ task' = [task EXCEPT ![c] = "pending"]
          /\ events' = [events EXCEPT ![c] =
                          <<Event("none", "received", "none"),
                            Event("received", "validated", "none"),
                            Event("validated", first, "none")>>]
          /\ approval' = [approval EXCEPT ![c] =
                             IF approve THEN "pending" ELSE "none"]
          /\ outbox' = [outbox EXCEPT ![c] =
                           IF approve THEN "none" ELSE "pending"]
      BY <1>1 DEF Create
    <2>1. {"received", "validated", "awaiting_approval", "queued"}
            \subseteq CommandState
      BY DEF CommandState
    <2>2. <<Event("none", "received", "none"),
            Event("received", "validated", "none"),
            Event("validated", first, "none")>> \in Seq(StateEvent)
      BY <2>1, EventType
    <2>3. state' \in [Commands -> CommandState \cup {"none"}]
      BY <2>1 DEF TypeOK
    <2>4. events' \in [Commands -> Seq(StateEvent)]
      BY <2>2 DEF TypeOK
    <2>5. task' \in [Commands -> TaskState \cup {"none"}]
      BY DEF TypeOK, TaskState
    <2>6. approval' \in [Commands -> ApprovalStatus \cup {"none"}]
      BY DEF TypeOK, ApprovalStatus
    <2>7. outbox' \in [Commands -> OutboxStatus]
      BY DEF TypeOK, OutboxStatus
    <2>8. requires' \in [Commands -> BOOLEAN]
      BY DEF TypeOK
    <2>9. expires' \in [Commands -> {"never", "later", "past"}]
      BY <1>1 DEF TypeOK, Create
    <2>10. UNCHANGED <<audit, approvalDue, serving, requests, wire>>
      BY <1>1, Zenon DEF Create
    <2> QED
      BY <2>3, <2>4, <2>5, <2>6, <2>7, <2>8, <2>9, <2>10 DEF TypeOK
  <1>2. ASSUME NEW c \in Commands, CommandDeadline(c) \/ ApprovalDeadline(c)
        PROVE  TypeOK'
    <2>1. CASE CommandDeadline(c)
      BY <2>1 DEF TypeOK, CommandDeadline
    <2>2. CASE ApprovalDeadline(c)
      BY <2>2 DEF TypeOK, ApprovalDeadline
    <2> QED BY <1>2, <2>1, <2>2
  <1>3. ASSUME NEW c \in Commands, CancelRead(c) PROVE TypeOK'
    BY <1>3 DEF TypeOK, CancelRead
  <1>4. ASSUME NEW c \in Commands, NEW view \in CommandState,
               CancelCommit(c, view) \/ CancelRefused(c, view)
        PROVE  TypeOK'
    <2>1. CASE CancelCommit(c, view)
      <3>1. /\ state' \in [Commands -> CommandState \cup {"none"}]
            /\ events' \in [Commands -> Seq(StateEvent)]
        <4>1. "cancelled" \in CommandState BY DEF CommandState
        <4> QED BY <2>1, <4>1, TransitionType DEF CancelCommit
      <3> QED BY <2>1, <3>1 DEF TypeOK, CancelCommit
    <2>2. CASE CancelRefused(c, view)
      BY <2>2 DEF TypeOK, CancelRefused
    <2> QED BY <1>4, <2>1, <2>2
  <1>5. ASSUME NEW c \in Commands, DecideApprove(c) PROVE TypeOK'
    <2>1. deciding' \in [Commands -> SUBSET Decision]
      BY <1>5 DEF TypeOK, DecideApprove, DecideDone
    <2>2. state' \in [Commands -> CommandState \cup {"none"}]
      BY <1>5 DEF TypeOK, DecideApprove, CommandState
    <2>3. events' \in [Commands -> Seq(StateEvent)]
      <3>1. /\ Event(state[c], "approved", "none") \in StateEvent
            /\ Event("approved", "queued", "none") \in StateEvent
        <4>1. {"approved", "queued"} \subseteq CommandState
          BY DEF CommandState
        <4> QED BY <4>1, EventType DEF TypeOK
      <3>2. <<Event(state[c], "approved", "none"),
              Event("approved", "queued", "none")>> \in Seq(StateEvent)
        BY <3>1
      <3>3. events[c] \o <<Event(state[c], "approved", "none"),
              Event("approved", "queued", "none")>> \in Seq(StateEvent)
        BY <3>2, ConcatProperties DEF TypeOK
      <3> QED BY <1>5, <3>3 DEF TypeOK, DecideApprove
    <2>4. approval' \in [Commands -> ApprovalStatus \cup {"none"}]
      BY <1>5 DEF TypeOK, DecideApprove, ApprovalStatus
    <2>5. audit' \in [Commands -> SUBSET {"approved", "rejected"}]
      BY <1>5 DEF TypeOK, DecideApprove
    <2>6. outbox' \in [Commands -> OutboxStatus]
      BY <1>5 DEF TypeOK, DecideApprove, OutboxStatus
    <2> QED
      BY <1>5, <2>1, <2>2, <2>3, <2>4, <2>5, <2>6 DEF TypeOK, DecideApprove
  <1>6. ASSUME NEW c \in Commands, DecideReject(c) PROVE TypeOK'
    <2>1. deciding' \in [Commands -> SUBSET Decision]
      BY <1>6 DEF TypeOK, DecideReject, DecideDone
    <2>2. state[c] \in CommandState /\ "rejected" \in CommandState
      BY <1>6 DEF TypeOK, DecideReject, Transition, Outcome, PythonAllows,
                 ALLOWED_TRANSITIONS, CommandState, TERMINAL_STATES
    <2>3. /\ state' \in [Commands -> CommandState \cup {"none"}]
          /\ events' \in [Commands -> Seq(StateEvent)]
      BY <1>6, <2>2, TransitionType DEF DecideReject
    <2>4. approval' \in [Commands -> ApprovalStatus \cup {"none"}]
      BY <1>6 DEF TypeOK, DecideReject, ApprovalStatus
    <2>5. audit' \in [Commands -> SUBSET {"approved", "rejected"}]
      BY <1>6 DEF TypeOK, DecideReject
    <2> QED BY <1>6, <2>1, <2>3, <2>4, <2>5 DEF TypeOK, DecideReject
  <1>7. ASSUME NEW c \in Commands, DecideExpire(c) PROVE TypeOK'
    <2>1. deciding' \in [Commands -> SUBSET Decision]
      BY <1>7 DEF TypeOK, DecideExpire, DecideDone
    <2>2. approval' \in [Commands -> ApprovalStatus \cup {"none"}]
      BY <1>7 DEF TypeOK, DecideExpire, ApprovalStatus
    <2> QED BY <1>7, <2>1, <2>2 DEF TypeOK, DecideExpire
  <1>8. ASSUME NEW c \in Commands, NEW d \in Decision,
               DecideRead(c, d) \/ DecideAbort(c, d)
        PROVE  TypeOK'
    <2>1. UNCHANGED <<rows, clock, cancelling, pubView, wire>>
      BY <1>8, Zenon DEF DecideRead, DecideAbort
    <2>2. deciding' \in [Commands -> SUBSET Decision]
      <3>1. CASE DecideRead(c, d)
        <4>1. deciding' = [deciding EXCEPT ![c] = @ \cup {d}]
          BY <3>1, Zenon DEF DecideRead
        <4> QED BY <4>1 DEF TypeOK
      <3>2. CASE DecideAbort(c, d)
        BY <3>2 DEF TypeOK, DecideAbort
      <3> QED BY <1>8, <3>1, <3>2
    <2> QED BY <2>1, <2>2 DEF TypeOK
  <1>9. ASSUME NEW c \in Commands, PublisherRead(c) PROVE TypeOK'
    BY <1>9 DEF TypeOK, PublisherRead
  <1>10. ASSUME NEW c \in Commands, PublisherBlock(c) PROVE TypeOK'
    <2>1. pubView[c] \in CommandState
          /\ "blocked_by_emergency_stop" \in CommandState
      BY <1>10 DEF TypeOK, PublisherBlock, CommandState
    <2>2. /\ state' \in [Commands -> CommandState \cup {"none"}]
          /\ events' \in [Commands -> Seq(StateEvent)]
      BY <1>10, <2>1, TransitionType DEF PublisherBlock
    <2>3. outbox' \in [Commands -> OutboxStatus]
      BY <1>10 DEF TypeOK, PublisherBlock, OutboxStatus
    <2> QED BY <1>10, <2>2, <2>3 DEF TypeOK, PublisherBlock
  <1>11. ASSUME NEW c \in Commands, PublisherAbort(c) PROVE TypeOK'
    BY <1>11 DEF TypeOK, PublisherAbort
  <1>18. ASSUME NEW c \in Commands, NEW b \in BOOLEAN,
                PublisherPublish(c, b) \/ GatewayDelivered(c, b)
         PROVE  TypeOK'
    <2>1. CASE PublisherPublish(c, b)
      BY <2>1 DEF TypeOK, PublisherPublish, OutboxStatus
    <2>2. CASE GatewayDelivered(c, b)
      <3>1. ready' \in [Commands -> BOOLEAN]
        BY <2>2 DEF TypeOK, GatewayDelivered
      <3>2. [inbox[c] EXCEPT !["delivered"] = MaxDeliver]
                \in [Reports -> 0..MaxDeliver]
        BY DEF TypeOK, Reports
      <3>3. inbox' \in [Commands -> [Reports -> 0..MaxDeliver]]
        BY <2>2, <3>2 DEF TypeOK, GatewayDelivered
      <3> QED BY <2>2, <3>1, <3>3 DEF TypeOK, GatewayDelivered
    <2> QED BY <1>18, <2>1, <2>2
  <1>19. ASSUME NEW c \in Commands,
                \/ GatewayCheck(c) \/ GatewayCheckFails(c) \/ GatewayInvalid(c)
                \/ GatewaySend(c) \/ GatewayFault(c)
         PROVE  TypeOK'
    <2>1. CASE GatewayCheck(c)
      <3>1. CASE state[c] = "queued" /\ expires[c] # "past"
        BY <2>1, <3>1 DEF TypeOK, GatewayCheck
      <3>2. CASE ~(state[c] = "queued" /\ expires[c] # "past")
        BY <2>1, <3>2 DEF TypeOK, GatewayCheck
      <3> QED BY <3>1, <3>2
    <2>2. CASE GatewaySend(c)
      BY <2>2 DEF TypeOK, GatewaySend
    <2>3. CASE GatewayFault(c)
      BY <2>3 DEF TypeOK, GatewayFault
    <2>4. CASE GatewayCheckFails(c)
      BY <2>4 DEF TypeOK, GatewayCheckFails
    <2>5. CASE GatewayInvalid(c)
      BY <2>5 DEF TypeOK, GatewayInvalid
    <2> QED BY <1>19, <2>1, <2>2, <2>3, <2>4, <2>5
  <1>12. ASSUME NEW c \in Commands, NEW r \in DeviceReports, DeviceSend(c, r)
         PROVE  TypeOK'
    <2>1. [inbox[c] EXCEPT ![r] = MaxDeliver] \in [Reports -> 0..MaxDeliver]
      BY DEF TypeOK, Reports
    <2>2. inbox' \in [Commands -> [Reports -> 0..MaxDeliver]]
      BY <1>12, <2>1 DEF TypeOK, DeviceSend
    <2>3. sent' \in [Commands -> SUBSET DeviceReports]
      BY <1>12 DEF TypeOK, DeviceSend
    <2> QED BY <1>12, <2>2, <2>3 DEF TypeOK, DeviceSend
  <1>13. ASSUME NEW c \in Commands, NEW r \in Reports, NEW acked \in BOOLEAN,
                HandleCommit(c, r, acked)
         PROVE  TypeOK'
    <2>1. state[c] \in CommandState
      BY <1>13, TargetType DEF TypeOK, HandleCommit, Transition, Outcome,
            PythonAllows, ALLOWED_TRANSITIONS, CommandState
    <2>2. /\ state' \in [Commands -> CommandState \cup {"none"}]
          /\ events' \in [Commands -> Seq(StateEvent)]
      BY <1>13, <2>1, TargetType, TransitionType DEF HandleCommit
    <2>3. task' \in [Commands -> TaskState \cup {"none"}]
      BY <1>13 DEF TypeOK, HandleCommit, TaskAfter, TaskState
    <2>4. inbox' \in [Commands -> [Reports -> 0..MaxDeliver]]
      BY <1>13, SettleType DEF HandleCommit
    <2> QED BY <1>13, <2>2, <2>3, <2>4 DEF TypeOK, HandleCommit
  <1>14. ASSUME NEW c \in Commands, NEW r \in Reports, NEW acked \in BOOLEAN,
                HandleIgnore(c, r, acked)
         PROVE  TypeOK'
    <2>1. /\ inbox[c][r] > 0
          /\ Settle(c, r, acked)
          /\ UNCHANGED <<rows, clock, requests, ready, gateway, received, sent>>
      BY <1>14, Zenon DEF HandleIgnore
    <2>2. inbox' \in [Commands -> [Reports -> 0..MaxDeliver]]
      BY <2>1, SettleType
    <2> QED BY <2>1, <2>2 DEF TypeOK
  <1>20. ASSUME NEW c \in Commands, NEW r \in Reports,
                HandleRefused(c, r) \/ HandleFault(c, r)
         PROVE  TypeOK'
    <2>1. /\ inbox[c][r] > 0
          /\ inbox' = [inbox EXCEPT ![c][r] = @ - 1]
          /\ UNCHANGED <<rows, clock, requests, ready, gateway, received, sent>>
      BY <1>20, Zenon DEF HandleRefused, HandleFault
    <2>2. Settle(c, r, FALSE)
      BY <2>1, Zenon DEF Settle
    <2>3. inbox' \in [Commands -> [Reports -> 0..MaxDeliver]]
      BY <2>1, <2>2, SettleType
    <2> QED BY <2>1, <2>3 DEF TypeOK
  <1>15. ASSUME NEW batch \in SUBSET Commands, RunTasks(batch) PROVE TypeOK'
    <2>1. /\ state' \in [Commands -> CommandState \cup {"none"}]
          /\ events' \in [Commands -> Seq(StateEvent)]
      <3>1. "expired" \in CommandState BY DEF CommandState
      <3> QED BY <1>15, <3>1, TransitionAllType DEF RunTasks
    <2>2. task' \in [Commands -> TaskState \cup {"none"}]
      BY <1>15 DEF TypeOK, RunTasks, ExpiredTask, TaskState
    <2>3. approval' \in [Commands -> ApprovalStatus \cup {"none"}]
      BY <1>15 DEF TypeOK, RunTasks, ApprovalStatus
    <2> QED BY <1>15, <2>1, <2>2, <2>3 DEF TypeOK, RunTasks
  <1>16. ASSUME NEW batch \in SUBSET Commands, BlockCommands(batch)
         PROVE  TypeOK'
    <2>1. /\ state' \in [Commands -> CommandState \cup {"none"}]
          /\ events' \in [Commands -> Seq(StateEvent)]
      <3>1. "blocked_by_emergency_stop" \in CommandState BY DEF CommandState
      <3> QED BY <1>16, <3>1, TransitionAllType DEF BlockCommands
    <2> QED BY <1>16, <2>1 DEF TypeOK, BlockCommands
  <1>17. CASE ServiceChanges \/ UNCHANGED vars
    <2>1. CASE ServiceChanges
      BY <2>1 DEF TypeOK, ServiceChanges
    <2>2. CASE UNCHANGED vars
      BY <2>2 DEF TypeOK, vars
    <2> QED BY <1>17, <2>1, <2>2
  <1> QED
    BY NextCases, <1>1, <1>2, <1>3, <1>4, <1>5, <1>6, <1>7, <1>8, <1>9, <1>10,
       <1>11, <1>12, <1>13, <1>14, <1>15, <1>16, <1>17, <1>18, <1>19, <1>20,
       Zenon

\* Type correctness of the lifecycle model.
THEOREM TypeCorrect == Spec => []TypeOK
  BY InitTypeOK, NextTypeOK, PTL DEF Spec
-----------------------------------------------------------------------------
(* How a step may change the state of one command *)

\* Whatever the session saw, the row moves only where the trigger lets it.
LEMMA OutcomeFollowsTrigger ==
    ASSUME NEW view, NEW row, NEW new, Outcome(view, row, new) = "ok"
    PROVE  \/ RowAfter(view, row, new) = row
           \/ RowAfter(view, row, new) = new /\ <<row, new>> \in TriggerTransitions
  BY DEF Outcome, RowAfter, TriggerAllows

\* The trigger starts no transition before the row exists, and rejects only
\* from awaiting_approval.
LEMMA TriggerStarts ==
    ASSUME NEW s, NEW t, <<s, t>> \in TriggerTransitions
    PROVE  s # "none" /\ (t = "rejected" => s = "awaiting_approval")
  BY DEF TriggerTransitions

\* What one transition_command may do to the rows, whatever its session saw.
LEMMA TransitionMoves ==
    ASSUME TypeOK, NEW c \in Commands, NEW view, NEW new, NEW key,
           Transition(c, view, new, key)
    PROVE  /\ \A d \in Commands : d # c => state'[d] = state[d]
           /\ \/ state'[c] = state[c]
              \/ state'[c] = new /\ <<state[c], new>> \in TriggerTransitions
  <1>1. Outcome(view, state[c], new) = "ok"
        /\ state' = [state EXCEPT ![c] = RowAfter(view, @, new)]
    BY DEF Transition
  <1>2. state'[c] = RowAfter(view, state[c], new)
    BY <1>1 DEF TypeOK
  <1> QED BY <1>1, <1>2, OutcomeFollowsTrigger DEF TypeOK

\* What a batch of transitions may do to one row.
LEMMA TransitionAllMoves ==
    ASSUME TypeOK, NEW batch \in SUBSET Commands, NEW new,
           TransitionAll(batch, new), NEW c \in Commands
    PROVE  \/ state'[c] = state[c]
           \/ /\ c \in batch /\ state'[c] = new
              /\ <<state[c], new>> \in TriggerTransitions
  <1>1. \/ state'[c] = state[c]
        \/ /\ c \in batch /\ state'[c] = new
           /\ Outcome(state[c], state[c], new) = "ok"
    BY DEF TransitionAll
  <1> QED BY <1>1, OutcomeFollowsTrigger DEF RowAfter

\* A step of the system takes c from s to t.
Move(s, t) ==
    \/ s = t
    \/ s = "none" /\ t \in {"awaiting_approval", "queued"}
    \/ <<s, t>> \in TriggerTransitions /\ t \notin {"approved", "queued", "timed_out"}
    \/ s \in {"awaiting_approval", "approved"} /\ t = "queued"

\* Every step of the system makes such a move.
LEMMA StepMoves ==
    ASSUME TypeOK, [Next]_vars, NEW c \in Commands
    PROVE  Move(state[c], state'[c])
  <1> USE DEF rows, clock, requests, wire
  <1>1. ASSUME NEW d \in Commands, Create(d) PROVE Move(state[c], state'[c])
    BY <1>1 DEF Create, TypeOK, Move
  <1>2. ASSUME NEW d \in Commands, DecideApprove(d)
        PROVE  Move(state[c], state'[c])
    <2>1. Outcome(state[d], state[d], "approved") = "ok"
          /\ state' = [state EXCEPT ![d] = "queued"]
      BY <1>2 DEF DecideApprove
    <2>2. <<state[d], "approved">> \in TriggerTransitions \/ state[d] = "approved"
      BY <2>1, OutcomeFollowsTrigger DEF RowAfter
    <2>3. state[d] \in {"awaiting_approval", "approved"}
      BY <2>2 DEF TriggerTransitions
    <2> QED BY <2>1, <2>3 DEF TypeOK, Move
  <1>3. ASSUME NEW d \in Commands, NEW view, NEW new, NEW key,
               new \notin {"approved", "queued", "timed_out"}, Transition(d, view, new, key)
        PROVE  Move(state[c], state'[c])
    BY <1>3, TransitionMoves DEF Move
  <1>4. ASSUME NEW batch \in SUBSET Commands, NEW new,
               new \notin {"approved", "queued", "timed_out"}, TransitionAll(batch, new)
        PROVE  Move(state[c], state'[c])
    BY <1>4, TransitionAllMoves DEF Move
  <1>5. ASSUME UNCHANGED state PROVE Move(state[c], state'[c])
    BY <1>5 DEF Move
  <1>6. ASSUME NEW d \in Commands, NEW r \in Reports, NEW b,
               HandleCommit(d, r, b)
        PROVE  Move(state[c], state'[c])
    <2>1. Target[r] \notin {"approved", "queued", "timed_out"}
      BY DEF Target, Reports, AllDeviceReports
    <2> QED BY <1>3, <1>6, <2>1 DEF HandleCommit
  <1>7. ASSUME NEW d \in Commands,
               \/ CommandDeadline(d) \/ ApprovalDeadline(d) \/ CancelRead(d)
               \/ DecideReject(d) \/ DecideExpire(d)
               \/ PublisherRead(d) \/ PublisherBlock(d)
               \/ PublisherAbort(d)
               \/ GatewayCheck(d) \/ GatewayCheckFails(d) \/ GatewayInvalid(d)
               \/ GatewaySend(d) \/ GatewayFault(d)
        PROVE  Move(state[c], state'[c])
    <2>1. CASE DecideReject(d)
      BY <1>3, <2>1 DEF DecideReject
    <2>2. CASE PublisherBlock(d)
      BY <1>3, <2>2 DEF PublisherBlock
    <2>3. CASE UNCHANGED state
      BY <1>5, <2>3
    <2> QED
      BY <1>7, <2>1, <2>2, <2>3, Zenon
      DEF CommandDeadline, ApprovalDeadline, CancelRead, DecideExpire,
          PublisherRead, PublisherAbort, GatewayCheck,
          GatewayCheckFails, GatewayInvalid, GatewaySend, GatewayFault
  <1>8. ASSUME NEW d \in Commands, NEW view \in CommandState,
               CancelCommit(d, view) \/ CancelRefused(d, view)
        PROVE  Move(state[c], state'[c])
    BY <1>3, <1>5, <1>8 DEF CancelCommit, CancelRefused
  <1>9. ASSUME NEW d \in Commands, NEW e, DecideRead(d, e) \/ DecideAbort(d, e)
        PROVE  Move(state[c], state'[c])
    BY <1>5, <1>9, Zenon DEF DecideRead, DecideAbort
  <1>10. ASSUME NEW d \in Commands, NEW b,
                PublisherPublish(d, b) \/ GatewayDelivered(d, b)
         PROVE  Move(state[c], state'[c])
    BY <1>5, <1>10, Zenon DEF PublisherPublish, GatewayDelivered
  <1>11. ASSUME NEW d \in Commands, NEW r, NEW b,
                \/ DeviceSend(d, r) \/ HandleRefused(d, r) \/ HandleFault(d, r)
                \/ HandleIgnore(d, r, b)
         PROVE  Move(state[c], state'[c])
    BY <1>5, <1>11, Zenon
    DEF DeviceSend, HandleRefused, HandleFault, HandleIgnore
  <1>12. ASSUME NEW batch \in SUBSET Commands,
                RunTasks(batch) \/ BlockCommands(batch)
         PROVE  Move(state[c], state'[c])
    BY <1>4, <1>12 DEF RunTasks, BlockCommands
  <1>13. CASE ServiceChanges \/ UNCHANGED vars
    BY <1>5, <1>13, Zenon DEF vars, ServiceChanges
  <1> QED
    BY NextCases, <1>1, <1>2, <1>6, <1>7, <1>8, <1>9, <1>10, <1>11, <1>12,
       <1>13, Zenon

\* No step moves a command out of a final state, and a blocked command can
\* only become cancelled: the trigger makes up for the checks that
\* cancel_command and the publisher do on a state read before the lock.
THEOREM FinalStatesAreFinal == Spec => FinalStatesStay
  <1> DEFINE Stays(c) ==
        /\ state[c] \in FinalStates => state'[c] = state[c]
        /\ state[c] = "blocked_by_emergency_stop" =>
                state'[c] \in {state[c], "cancelled"}
  <1>1. TypeOK /\ [Next]_vars => [\A c \in Commands : Stays(c)]_vars
    <2> SUFFICES ASSUME TypeOK, [Next]_vars, NEW c \in Commands PROVE Stays(c)
      OBVIOUS
    <2> QED
      BY StepMoves
      DEF Move, TriggerTransitions, FinalStates, TERMINAL_STATES
  <1> QED BY <1>1, TypeCorrect, PTL DEF Spec, FinalStatesStay
-----------------------------------------------------------------------------
(* Command and task *)

\* TaskAgrees for one command, with the task states the code stores.
Agrees(s, t) ==
    /\ t \in {"none", "pending", "running", "succeeded", "failed"}
    /\ t = "succeeded" <=> s = "succeeded"
    /\ t = "failed" <=> s \in {"failed", "expired"}
    /\ s \in {"delivered", "acknowledged", "running"} => t = "running"
    /\ t = "running" =>
            s \in {"delivered", "acknowledged", "running", "cancelled"}

TaskInv == \A c \in Commands : Agrees(state[c], task[c])

\* A move to new that leaves the task alone keeps them in agreement.
LEMMA QuietMove ==
    ASSUME NEW s, NEW t, NEW new \in
             {"cancelled", "rejected", "blocked_by_emergency_stop"},
           Agrees(s, t), <<s, new>> \in TriggerTransitions
    PROVE  Agrees(new, t)
  BY DEF Agrees, TriggerTransitions

\* What the consumer stores with a report.
LEMMA ReportMove ==
    ASSUME NEW s, NEW t, NEW r \in Reports, Agrees(s, t),
           s = Target[r] \/ <<s, Target[r]>> \in TriggerTransitions
    PROVE  Agrees(Target[r], TaskAfter(r, t))
  BY DEF Agrees, TriggerTransitions, Target, TaskAfter, Reports,
         AllDeviceReports

\* Every step keeps command and task in agreement.
LEMMA NextTaskInv == TypeOK /\ TaskInv /\ [Next]_vars => TaskInv'
  <1> SUFFICES ASSUME TypeOK, TaskInv, [Next]_vars, NEW c \in Commands
               PROVE  Agrees(state'[c], task'[c])
    BY DEF TaskInv
  <1> USE DEF rows, clock, requests, wire
  <1>0. Agrees(state[c], task[c])
    BY DEF TaskInv
  <1>1. ASSUME NEW d \in Commands, Create(d)
        PROVE  Agrees(state'[c], task'[c])
    BY <1>0, <1>1 DEF Create, TypeOK, Agrees
  <1>2. ASSUME NEW d \in Commands, DecideApprove(d)
        PROVE  Agrees(state'[c], task'[c])
    <2>1. Outcome(state[d], state[d], "approved") = "ok"
          /\ state' = [state EXCEPT ![d] = "queued"] /\ task' = task
      BY <1>2 DEF DecideApprove
    <2>2. <<state[d], "approved">> \in TriggerTransitions \/ state[d] = "approved"
      BY <2>1, OutcomeFollowsTrigger DEF RowAfter
    <2>3. state[d] \in {"awaiting_approval", "approved"}
      BY <2>2 DEF TriggerTransitions
    <2> QED BY <1>0, <2>1, <2>3 DEF TypeOK, Agrees
  <1>3. ASSUME NEW d \in Commands, NEW view, NEW key, UNCHANGED task,
               NEW new \in
                 {"cancelled", "rejected", "blocked_by_emergency_stop"},
               Transition(d, view, new, key)
        PROVE  Agrees(state'[c], task'[c])
    BY <1>0, <1>3, TransitionMoves, QuietMove
  <1>4. ASSUME UNCHANGED <<state, task>> PROVE Agrees(state'[c], task'[c])
    BY <1>0, <1>4
  <1>5. ASSUME NEW d \in Commands, NEW r \in Reports, NEW b,
               HandleCommit(d, r, b)
        PROVE  Agrees(state'[c], task'[c])
    <2>1. Transition(d, state[d], Target[r], Key[r])
          /\ task' = [task EXCEPT ![d] = TaskAfter(r, @)]
      BY <1>5 DEF HandleCommit
    <2>2. CASE c = d
      <3>1. /\ Outcome(state[c], state[c], Target[r]) = "ok"
            /\ state'[c] = RowAfter(state[c], state[c], Target[r])
            /\ task'[c] = TaskAfter(r, task[c])
        BY <2>1, <2>2 DEF Transition, TypeOK
      <3>2. /\ state'[c] = Target[r]
            /\ \/ state[c] = Target[r]
               \/ <<state[c], Target[r]>> \in TriggerTransitions
        BY <3>1, OutcomeFollowsTrigger DEF RowAfter
      <3> QED BY <1>0, <3>1, <3>2, ReportMove
    <2>3. CASE c # d
      BY <1>0, <2>1, <2>3, TransitionMoves DEF TypeOK
    <2> QED BY <2>2, <2>3
  <1>6. ASSUME NEW batch \in SUBSET Commands, RunTasks(batch)
        PROVE  Agrees(state'[c], task'[c])
    <2>1. /\ TransitionAll(batch, "expired")
          /\ task'[c] = IF state'[c] # state[c] THEN ExpiredTask(task[c])
                        ELSE task[c]
      BY <1>6 DEF RunTasks
    <2>2. \/ state'[c] = state[c]
          \/ /\ state'[c] = "expired"
             /\ <<state[c], "expired">> \in TriggerTransitions
             /\ c \in batch
      BY <2>1, TransitionAllMoves
    <2>3. c \in batch => state[c] \in Expirable
      BY <1>6 DEF RunTasks, Due
    <2> QED
      BY <1>0, <2>1, <2>2, <2>3
      DEF Agrees, ExpiredTask, TriggerTransitions, Expirable
  <1>7. ASSUME NEW batch \in SUBSET Commands, BlockCommands(batch)
        PROVE  Agrees(state'[c], task'[c])
    <2>1. TransitionAll(batch, "blocked_by_emergency_stop") /\ task' = task
      BY <1>7 DEF BlockCommands
    <2>2. \/ state'[c] = state[c]
          \/ /\ state'[c] = "blocked_by_emergency_stop"
             /\ <<state[c], "blocked_by_emergency_stop">> \in TriggerTransitions
      BY <2>1, TransitionAllMoves
    <2> QED BY <1>0, <2>1, <2>2, QuietMove
  <1>8. ASSUME NEW d \in Commands,
               \/ CommandDeadline(d) \/ ApprovalDeadline(d) \/ CancelRead(d)
               \/ DecideReject(d) \/ DecideExpire(d)
               \/ PublisherRead(d) \/ PublisherBlock(d)
               \/ PublisherAbort(d)
               \/ GatewayCheck(d) \/ GatewayCheckFails(d) \/ GatewayInvalid(d)
               \/ GatewaySend(d) \/ GatewayFault(d)
        PROVE  Agrees(state'[c], task'[c])
    <2>1. CASE DecideReject(d)
      BY <1>3, <2>1 DEF DecideReject
    <2>2. CASE PublisherBlock(d)
      BY <1>3, <2>2 DEF PublisherBlock
    <2>3. CASE UNCHANGED <<state, task>>
      BY <1>4, <2>3
    <2> QED
      BY <1>8, <2>1, <2>2, <2>3, Zenon
      DEF CommandDeadline, ApprovalDeadline, CancelRead, DecideExpire,
          PublisherRead, PublisherAbort, GatewayCheck,
          GatewayCheckFails, GatewayInvalid, GatewaySend, GatewayFault
  <1>9. ASSUME NEW d \in Commands, NEW view \in CommandState,
               CancelCommit(d, view) \/ CancelRefused(d, view)
        PROVE  Agrees(state'[c], task'[c])
    <2>1. CASE CancelCommit(d, view)
      BY <1>3, <2>1 DEF CancelCommit
    <2>2. CASE CancelRefused(d, view)
      BY <1>4, <2>2 DEF CancelRefused
    <2> QED BY <1>9, <2>1, <2>2
  <1>10. ASSUME NEW d \in Commands, NEW e, DecideRead(d, e) \/ DecideAbort(d, e)
         PROVE  Agrees(state'[c], task'[c])
    BY <1>4, <1>10, Zenon DEF DecideRead, DecideAbort
  <1>11. ASSUME NEW d \in Commands, NEW b,
                PublisherPublish(d, b) \/ GatewayDelivered(d, b)
         PROVE  Agrees(state'[c], task'[c])
    BY <1>4, <1>11, Zenon DEF PublisherPublish, GatewayDelivered
  <1>12. ASSUME NEW d \in Commands, NEW r, NEW b,
                \/ DeviceSend(d, r) \/ HandleRefused(d, r) \/ HandleFault(d, r)
                \/ HandleIgnore(d, r, b)
         PROVE  Agrees(state'[c], task'[c])
    BY <1>4, <1>12, Zenon
    DEF DeviceSend, HandleRefused, HandleFault, HandleIgnore
  <1>13. CASE ServiceChanges \/ UNCHANGED vars
    BY <1>4, <1>13, Zenon DEF vars, ServiceChanges
  <1> QED
    BY NextCases, <1>1, <1>2, <1>5, <1>6, <1>7, <1>8, <1>9, <1>10, <1>11,
       <1>12, <1>13, Zenon

\* The task agrees with its command in every state the processes can reach,
\* in whatever order their transactions commit.
THEOREM TaskAgreement == Spec => []TaskAgrees
  <1>1. Init => TaskInv
    BY DEF Init, TaskInv, Agrees
  <1>2. TaskInv => TaskAgrees
    BY DEF TaskInv, TaskAgrees, Agrees
  <1> QED BY <1>1, <1>2, NextTaskInv, TypeCorrect, PTL DEF Spec
-----------------------------------------------------------------------------
(* Approval *)

\* What is known of a command in state s that requires approval (q) and has
\* the decisions a audited, the outbox row o, the queue message w, the receipt
\* x, the gateway at g and the publisher's view p.
Gate(s, q, a, o, w, x, g, p) ==
    /\ s \in CommittedStates
    /\ s = "none" \/ (q = TRUE /\ "approved" \notin a) =>
            /\ s \in Unapproved
            /\ o = "none" /\ w = FALSE /\ x = FALSE
            /\ g = "idle" /\ p = "none"
    /\ s = "none" => a = {}
    /\ "rejected" \in a => a = {"rejected"} /\ s = "rejected"
    /\ "approved" \in a => s \notin {"awaiting_approval", "rejected"}

GateOf(c) ==
    Gate(state[c], requires[c], audit[c], outbox[c], ready[c], received[c],
         gateway[c], pubView[c])

GateInv == \A c \in Commands : GateOf(c)

\* A move other than creation and approval keeps the gate.
LEMMA GateMove ==
    ASSUME NEW s, NEW t, NEW q, NEW a, NEW o, NEW w, NEW x, NEW g, NEW p,
           Gate(s, q, a, o, w, x, g, p), Move(s, t),
           s = t \/ (s # "none" /\ t # "queued")
    PROVE  Gate(t, q, a, o, w, x, g, p)
  BY DEF Gate, Move, TriggerTransitions, CommittedStates, Unapproved

\* Once the gate is open the pipeline may do anything with the command.
LEMMA GateOpen ==
    ASSUME NEW s, NEW q, NEW a, NEW o, NEW w, NEW x, NEW g, NEW p,
           Gate(s, q, a, o, w, x, g, p),
           p # "none" \/ w = TRUE \/ g # "idle" \/ o # "none",
           NEW o2, NEW w2, NEW x2, NEW g2, NEW p2
    PROVE  Gate(s, q, a, o2, w2, x2, g2, p2)
  BY DEF Gate

\* Every step keeps the gate.
LEMMA NextGateInv == TypeOK /\ GateInv /\ [Next]_vars => GateInv'
  <1> SUFFICES ASSUME TypeOK, GateInv, [Next]_vars, NEW c \in Commands
               PROVE  GateOf(c)'
    BY DEF GateInv
  <1> USE DEF rows, clock, requests, wire
  <1>0. GateOf(c) /\ Move(state[c], state'[c])
    BY StepMoves DEF GateInv
  <1>1. ASSUME NEW d \in Commands, Create(d) PROVE GateOf(c)'
    <2>1. CASE c = d
      <3>1. PICK approve \in BOOLEAN :
              /\ state' = [state EXCEPT ![d] =
                    IF approve THEN "awaiting_approval" ELSE "queued"]
              /\ requires' = [requires EXCEPT ![d] = approve]
              /\ outbox' = [outbox EXCEPT ![d] =
                    IF approve THEN "none" ELSE "pending"]
        BY <1>1 DEF Create
      <3>2. state[c] = "none"
            /\ UNCHANGED <<audit, ready, received, gateway, pubView>>
        BY <1>1, <2>1 DEF Create
      <3>3. CASE approve = TRUE
        BY <1>0, <2>1, <3>1, <3>2, <3>3
        DEF GateOf, Gate, TypeOK, CommittedStates, Unapproved
      <3>4. CASE approve = FALSE
        BY <1>0, <2>1, <3>1, <3>2, <3>4
        DEF GateOf, Gate, TypeOK, CommittedStates, Unapproved
      <3> QED BY <3>3, <3>4
    <2>2. CASE c # d
      BY <1>0, <1>1, <2>2 DEF Create, GateOf, TypeOK
    <2> QED BY <2>1, <2>2
  <1>2. ASSUME NEW d \in Commands, DecideApprove(d) PROVE GateOf(c)'
    <2>1. /\ Outcome(state[d], state[d], "approved") = "ok"
          /\ state' = [state EXCEPT ![d] = "queued"]
          /\ audit' = [audit EXCEPT ![d] = @ \cup {"approved"}]
          /\ outbox' = [outbox EXCEPT ![d] = "pending"]
          /\ UNCHANGED <<requires, ready, received, gateway, pubView>>
      BY <1>2 DEF DecideApprove
    <2>2. <<state[d], "approved">> \in TriggerTransitions \/ state[d] = "approved"
      BY <2>1, OutcomeFollowsTrigger DEF RowAfter
    <2>3. state[d] \in {"awaiting_approval", "approved"}
      BY <2>2 DEF TriggerTransitions
    <2>4. CASE c = d
      BY <1>0, <2>1, <2>3, <2>4 DEF GateOf, Gate, TypeOK, CommittedStates
    <2>5. CASE c # d
      BY <1>0, <2>1, <2>5 DEF GateOf, TypeOK
    <2> QED BY <2>4, <2>5
  <1>3. ASSUME NEW d \in Commands, DecideReject(d) PROVE GateOf(c)'
    <2>1. /\ Transition(d, state[d], "rejected", "none")
          /\ audit' = [audit EXCEPT ![d] = @ \cup {"rejected"}]
          /\ UNCHANGED <<requires, outbox, ready, received, gateway, pubView>>
      BY <1>3 DEF DecideReject
    <2>2. CASE c = d
      <3>1. /\ Outcome(state[c], state[c], "rejected") = "ok"
            /\ state'[c] = RowAfter(state[c], state[c], "rejected")
        BY <2>1, <2>2 DEF Transition, TypeOK
      <3>2. state'[c] = "rejected" /\ state[c] \in {"awaiting_approval", "rejected"}
        <4>1. state'[c] = "rejected"
          BY <3>1 DEF RowAfter
        <4>2. state[c] = "rejected" \/ <<state[c], "rejected">> \in TriggerTransitions
          BY <3>1, OutcomeFollowsTrigger DEF RowAfter
        <4> QED BY <4>1, <4>2, TriggerStarts
      <3>3. audit[c] \subseteq {"rejected"}
        BY <1>0, <3>2 DEF GateOf, Gate, TypeOK
      <3>4. audit'[c] = {"rejected"}
        BY <2>1, <2>2, <3>3 DEF TypeOK
      <3> QED
        BY <1>0, <2>1, <2>2, <3>2, <3>3, <3>4
        DEF GateOf, Gate, TypeOK, CommittedStates, Unapproved
    <2>3. CASE c # d
      <3>1. state'[c] = state[c]
        BY <2>1, <2>3, TransitionMoves
      <3>2. audit'[c] = audit[c]
        BY <2>1, <2>3 DEF TypeOK
      <3> QED BY <1>0, <2>1, <3>1, <3>2 DEF GateOf
    <2> QED BY <2>2, <2>3
  <1>4. ASSUME UNCHANGED <<requires, audit, outbox, ready, received, gateway,
                           pubView>>,
               state'[c] = state[c]
                 \/ (state[c] # "none" /\ state'[c] # "queued")
        PROVE  GateOf(c)'
    BY <1>0, <1>4, GateMove DEF GateOf
  <1>5. ASSUME NEW d \in Commands, NEW view, NEW new, NEW key,
               new \notin {"queued", "none"}, Transition(d, view, new, key)
        PROVE  state'[c] = state[c]
                 \/ (state[c] # "none" /\ state'[c] # "queued")
    BY <1>5, TransitionMoves, TriggerStarts
  <1>6. ASSUME NEW batch \in SUBSET Commands, NEW new,
               new \notin {"queued", "none"}, TransitionAll(batch, new)
        PROVE  state'[c] = state[c]
                 \/ (state[c] # "none" /\ state'[c] # "queued")
    BY <1>6, TransitionAllMoves, TriggerStarts
  \* The publisher works on an event, the gateway on a message: the gate is open.
  <1>7. ASSUME UNCHANGED <<requires, audit>>,
               pubView[c] # "none" \/ ready[c] = TRUE \/ gateway[c] # "idle"
                 \/ outbox[c] # "none",
               state'[c] = state[c]
                 \/ (state[c] # "none" /\ state'[c] # "queued")
        PROVE  GateOf(c)'
    <2>1. Gate(state'[c], requires[c], audit[c], outbox[c], ready[c],
               received[c], gateway[c], pubView[c])
      BY <1>0, <1>7, GateMove DEF GateOf
    <2> QED BY <1>7, <2>1, GateOpen DEF GateOf
  <1>8. ASSUME NEW d \in Commands,
               CommandDeadline(d) \/ ApprovalDeadline(d) \/ CancelRead(d)
                 \/ DecideExpire(d)
        PROVE  GateOf(c)'
    BY <1>4, <1>8, Zenon
    DEF CommandDeadline, ApprovalDeadline, CancelRead, DecideExpire
  <1>9. ASSUME NEW d \in Commands, PublisherRead(d) PROVE GateOf(c)'
    <2>1. /\ outbox[d] = "pending"
          /\ pubView' = [pubView EXCEPT ![d] = state[d]]
          /\ UNCHANGED <<state, requires, audit, outbox, ready, received, gateway>>
      BY <1>9 DEF PublisherRead
    <2>2. CASE c = d
      BY <1>7, <2>1, <2>2
    <2>3. CASE c # d
      BY <1>0, <2>1, <2>3 DEF GateOf, TypeOK
    <2> QED BY <2>2, <2>3
  <1>10. ASSUME NEW d \in Commands, NEW b,
                PublisherBlock(d) \/ PublisherAbort(d) \/ PublisherPublish(d, b)
         PROVE  GateOf(c)'
    <2>1. /\ pubView[d] # "none"
          /\ UNCHANGED <<requires, audit, received, gateway>>
          /\ UNCHANGED state
             \/ Transition(d, pubView[d], "blocked_by_emergency_stop", "none")
      BY <1>10, Zenon DEF PublisherBlock, PublisherAbort, PublisherPublish
    <2>2. state'[c] = state[c] \/ (state[c] # "none" /\ state'[c] # "queued")
      <3>1. CASE UNCHANGED state
        BY <3>1
      <3>2. CASE Transition(d, pubView[d], "blocked_by_emergency_stop", "none")
        BY <1>5, <3>2
      <3> QED BY <2>1, <3>1, <3>2
    <2>3. CASE c = d
      BY <1>7, <2>1, <2>2, <2>3
    <2>4. CASE c # d
      <3>1. state'[c] = state[c]
        <4>1. CASE UNCHANGED state
          BY <4>1
        <4>2. CASE Transition(d, pubView[d], "blocked_by_emergency_stop", "none")
          BY <2>4, <4>2, TransitionMoves
        <4> QED BY <2>1, <4>1, <4>2
      <3>2. outbox'[c] = outbox[c] /\ pubView'[c] = pubView[c]
            /\ ready'[c] = ready[c]
        <4>1. CASE PublisherBlock(d)
          BY <2>4, <4>1 DEF PublisherBlock, TypeOK
        <4>2. CASE PublisherAbort(d)
          BY <2>4, <4>2 DEF PublisherAbort, TypeOK
        <4>3. CASE PublisherPublish(d, b)
          BY <2>4, <4>3 DEF PublisherPublish, TypeOK
        <4> QED BY <1>10, <4>1, <4>2, <4>3
      <3> QED BY <1>0, <2>1, <3>1, <3>2 DEF GateOf
    <2> QED BY <2>3, <2>4
  <1>11. ASSUME NEW d \in Commands, NEW b,
                \/ GatewayCheck(d) \/ GatewayCheckFails(d) \/ GatewayInvalid(d)
                \/ GatewaySend(d) \/ GatewayFault(d) \/ GatewayDelivered(d, b)
         PROVE  GateOf(c)'
    <2>1. UNCHANGED <<state, requires, audit, outbox, pubView>>
      BY <1>11, Zenon
      DEF GatewayCheck, GatewayCheckFails, GatewayInvalid, GatewaySend,
          GatewayFault, GatewayDelivered
    <2>2. ready[d] = TRUE \/ gateway[d] # "idle"
      BY <1>11
      DEF GatewayCheck, GatewayCheckFails, GatewayInvalid, GatewaySend,
          GatewayFault, GatewayDelivered, TypeOK
    <2>3. CASE c = d
      BY <1>7, <2>1, <2>2, <2>3
    <2>4. CASE c # d
      <3>1. ready'[c] = ready[c] /\ gateway'[c] = gateway[c]
            /\ received'[c] = received[c]
        <4>1. CASE GatewayCheck(d)
          BY <2>4, <4>1 DEF GatewayCheck, TypeOK
        <4>2. CASE GatewaySend(d)
          BY <2>4, <4>2 DEF GatewaySend, TypeOK
        <4>3. CASE GatewayFault(d)
          BY <2>4, <4>3 DEF GatewayFault, TypeOK
        <4>4. CASE GatewayDelivered(d, b)
          BY <2>4, <4>4 DEF GatewayDelivered, TypeOK
        <4>5. CASE GatewayCheckFails(d)
          BY <2>4, <4>5 DEF GatewayCheckFails, TypeOK
        <4>6. CASE GatewayInvalid(d)
          BY <2>4, <4>6 DEF GatewayInvalid, TypeOK
        <4> QED BY <1>11, <4>1, <4>2, <4>3, <4>4, <4>5, <4>6
      <3> QED BY <1>0, <2>1, <3>1 DEF GateOf
    <2> QED BY <2>3, <2>4
  <1>12. ASSUME NEW d \in Commands, NEW view,
                CancelCommit(d, view) \/ CancelRefused(d, view)
         PROVE  GateOf(c)'
    <2>1. CASE CancelCommit(d, view)
      <3>1. /\ Transition(d, view, "cancelled", "none")
            /\ UNCHANGED <<requires, audit, outbox, ready, received, gateway,
                           pubView>>
        BY <2>1 DEF CancelCommit
      <3> QED BY <1>4, <1>5, <3>1
    <2>2. CASE CancelRefused(d, view)
      BY <1>4, <2>2, Zenon DEF CancelRefused
    <2> QED BY <1>12, <2>1, <2>2
  <1>13. ASSUME NEW d \in Commands, NEW e, DecideRead(d, e) \/ DecideAbort(d, e)
         PROVE  GateOf(c)'
    BY <1>4, <1>13, Zenon DEF DecideRead, DecideAbort
  <1>14. ASSUME NEW d \in Commands, NEW r, NEW b,
                \/ DeviceSend(d, r) \/ HandleRefused(d, r) \/ HandleFault(d, r)
                \/ HandleIgnore(d, r, b)
         PROVE  GateOf(c)'
    BY <1>4, <1>14, Zenon
    DEF DeviceSend, HandleRefused, HandleFault, HandleIgnore
  <1>15. ASSUME NEW d \in Commands, NEW r \in Reports, NEW b,
                HandleCommit(d, r, b)
         PROVE  GateOf(c)'
    <2>1. Target[r] \notin {"queued", "none"}
      BY DEF Target, Reports, AllDeviceReports
    <2>2. /\ Transition(d, state[d], Target[r], Key[r])
          /\ UNCHANGED <<requires, audit, outbox, ready, received, gateway,
                         pubView>>
      BY <1>15, Zenon DEF HandleCommit
    <2> QED BY <1>4, <1>5, <2>1, <2>2
  <1>16. ASSUME NEW batch \in SUBSET Commands,
                RunTasks(batch) \/ BlockCommands(batch)
         PROVE  GateOf(c)'
    <2>1. /\ \/ TransitionAll(batch, "expired")
             \/ TransitionAll(batch, "blocked_by_emergency_stop")
          /\ UNCHANGED <<requires, audit, outbox, ready, received, gateway,
                         pubView>>
      BY <1>16, Zenon DEF RunTasks, BlockCommands
    <2> QED BY <1>4, <1>6, <2>1
  <1>17. CASE ServiceChanges \/ UNCHANGED vars
    BY <1>4, <1>17, Zenon DEF vars, ServiceChanges
  <1> QED
    BY NextCases, <1>1, <1>2, <1>3, <1>8, <1>9, <1>10, <1>11, <1>12, <1>13,
       <1>14, <1>15, <1>16, <1>17, Zenon

\* The inductive invariant behind the two theorems on approval.
LEMMA GateAlways == Spec => []GateInv
  <1>1. Init => GateInv
    BY DEF Init, GateInv, GateOf, Gate, CommittedStates, Unapproved
  <1> QED BY <1>1, NextGateInv, TypeCorrect, PTL DEF Spec

\* A command that needs approval is queued, published or sent to its device
\* only after an approve decision was committed (decide_approval).
THEOREM ApprovalGateHolds == Spec => []ApprovalGate
  <1>1. GateInv => ApprovalGate
    BY DEF GateInv, GateOf, Gate, ApprovalGate
  <1> QED BY <1>1, GateAlways, PTL

\* Racing decisions on one approval never commit both verdicts, and a rejected
\* command stays rejected (decide_approval).
THEOREM OneVerdictHolds == Spec => []OneVerdict
  <1>1. GateInv => OneVerdict
    BY DEF GateInv, GateOf, Gate, OneVerdict
  <1> QED BY <1>1, GateAlways, PTL
-----------------------------------------------------------------------------
(* Deduplication of reports *)

\* A row of the history s carries the key k.
HasKey(s, k) == \E i \in 1..Len(s) : s[i].dedup_key = k

\* No two rows of the history s carry the same key.
KeysUnique(s) ==
    \A i, j \in 1..Len(s) :
        s[i].dedup_key # "none" /\ s[i].dedup_key = s[j].dedup_key => i = j

\* Every row with a key of the history t is that row of the history s.
AddsNoKey(s, t) ==
    \A i \in 1..Len(t) :
        t[i].dedup_key # "none" => i \in 1..Len(s) /\ t[i] = s[i]

\* The states a command may have once it ran.
Started == {"running", "succeeded", "failed", "cancelled"}

\* _handle_progress looks for no duplicate: what keeps it from a second row is
\* that a command which made progress is not acknowledged again.
KeyInv ==
    \A c \in Commands :
        /\ KeysUnique(events[c])
        /\ HasKey(events[c], "progress_first") => state[c] \in Started

\* A command that ran stays one that ran.
LEMMA StartedStays ==
    ASSUME NEW s \in Started, NEW t, Move(s, t)
    PROVE  t \in Started
  BY DEF Started, Move, TriggerTransitions

\* Rows without a key change nothing for the keys.
LEMMA NoKeyAdded ==
    ASSUME NEW s, NEW t, AddsNoKey(s, t), KeysUnique(s)
    PROVE  KeysUnique(t) /\ \A k \in DedupKey : HasKey(t, k) => HasKey(s, k)
  <1>1. KeysUnique(t)
    <2> SUFFICES ASSUME NEW i \in 1..Len(t), NEW j \in 1..Len(t),
                        t[i].dedup_key # "none",
                        t[i].dedup_key = t[j].dedup_key
                 PROVE  i = j
      BY DEF KeysUnique
    <2>1. /\ i \in 1..Len(s) /\ t[i] = s[i]
          /\ j \in 1..Len(s) /\ t[j] = s[j]
      BY DEF AddsNoKey
    <2> QED BY <2>1 DEF KeysUnique
  <1>2. ASSUME NEW k \in DedupKey, HasKey(t, k) PROVE HasKey(s, k)
    <2>1. k # "none"
      BY DEF DedupKey
    <2> QED BY <1>2, <2>1 DEF HasKey, AddsNoKey
  <1> QED BY <1>1, <1>2

\* The rows of a history with one more row.
LEMMA AppendRows ==
    ASSUME NEW s \in Seq(StateEvent), NEW e \in StateEvent
    PROVE  /\ Len(Append(s, e)) = Len(s) + 1
           /\ Len(s) \in Nat
           /\ \A i \in 1..Len(s) : Append(s, e)[i] = s[i]
           /\ Append(s, e)[Len(s) + 1] = e
  OBVIOUS

\* A row without a key adds no key.
LEMMA AppendNoKey ==
    ASSUME NEW s \in Seq(StateEvent), NEW view \in CommandState \cup {"none"},
           NEW new \in CommandState
    PROVE  AddsNoKey(s, Append(s, Event(view, new, "none")))
  <1> DEFINE e == Event(view, new, "none")
  <1>1. e \in StateEvent /\ e.dedup_key = "none"
    BY EventType DEF Event
  <1> HIDE DEF e
  <1>2. ASSUME NEW i \in 1..Len(Append(s, e)), i \notin 1..Len(s)
        PROVE  Append(s, e)[i] = e
    BY <1>1, <1>2, AppendRows
  <1>3. AddsNoKey(s, Append(s, e))
    BY <1>1, <1>2, AppendRows DEF AddsNoKey
  <1> QED BY <1>3 DEF e

\* A row with a new key leaves the keys unique.
LEMMA AppendKey ==
    ASSUME NEW s \in Seq(StateEvent), NEW e \in StateEvent, KeysUnique(s),
           ~HasKey(s, e.dedup_key)
    PROVE  /\ KeysUnique(Append(s, e))
           /\ \A k \in DedupKey : HasKey(Append(s, e), k)
                                     => HasKey(s, k) \/ k = e.dedup_key
  <1> DEFINE t == Append(s, e)
  <1>1. /\ Len(t) = Len(s) + 1 /\ Len(s) \in Nat /\ t[Len(s) + 1] = e
        /\ \A i \in 1..Len(s) : t[i] = s[i]
    BY AppendRows
  <1> HIDE DEF t
  <1>2. \A i \in 1..Len(t) : i \in 1..Len(s) \/ i = Len(s) + 1
    BY <1>1
  <1>3. KeysUnique(t)
    <2> SUFFICES ASSUME NEW i \in 1..Len(t), NEW j \in 1..Len(t),
                        t[i].dedup_key # "none",
                        t[i].dedup_key = t[j].dedup_key
                 PROVE  i = j
      BY DEF KeysUnique
    <2>1. CASE i \in 1..Len(s) /\ j \in 1..Len(s)
      BY <1>1, <2>1 DEF KeysUnique
    <2>2. CASE i \in 1..Len(s) /\ j = Len(s) + 1
      BY <1>1, <2>2 DEF HasKey
    <2>3. CASE i = Len(s) + 1 /\ j \in 1..Len(s)
      BY <1>1, <2>3 DEF HasKey
    <2> QED BY <1>2, <2>1, <2>2, <2>3
  <1>4. ASSUME NEW k \in DedupKey, HasKey(t, k)
        PROVE  HasKey(s, k) \/ k = e.dedup_key
    BY <1>1, <1>2, <1>4 DEF HasKey
  <1> QED BY <1>3, <1>4 DEF t

\* A step adds rows without a key to the history of c, or is the consumer's
\* commit on a report about c.
LEMMA StepKeys ==
    ASSUME TypeOK, [Next]_vars, NEW c \in Commands
    PROVE  \/ AddsNoKey(events[c], events'[c])
           \/ \E r \in Reports, b \in BOOLEAN : HandleCommit(c, r, b)
  <1> DEFINE Goal == \/ AddsNoKey(events[c], events'[c])
                     \/ \E r \in Reports, b \in BOOLEAN : HandleCommit(c, r, b)
  <1> USE DEF rows, clock, requests, wire
  <1>0. /\ events[c] \in Seq(StateEvent)
        /\ \A d \in Commands : state[d] \in CommandState \cup {"none"}
        /\ {"approved", "queued", "cancelled", "rejected", "expired",
            "blocked_by_emergency_stop"} \subseteq CommandState
    BY DEF TypeOK, CommandState
  <1>1. ASSUME events'[c] = events[c] PROVE Goal
    BY <1>1 DEF AddsNoKey
  <1>2. ASSUME NEW view \in CommandState \cup {"none"}, NEW new \in CommandState,
               events'[c] = Append(events[c], Event(view, new, "none"))
        PROVE  Goal
    BY <1>0, <1>2, AppendNoKey
  <1>3. ASSUME NEW d \in Commands, NEW view \in CommandState \cup {"none"},
               NEW new \in CommandState, Transition(d, view, new, "none")
        PROVE  Goal
    <2>1. events' = [events EXCEPT ![d] = Append(@, Event(view, new, "none"))]
      BY <1>3 DEF Transition
    <2>2. CASE d = c
      <3>1. events'[c] = Append(events[c], Event(view, new, "none"))
        BY <2>1, <2>2 DEF TypeOK
      <3> QED BY <1>2, <3>1
    <2>3. CASE d # c
      <3>1. events'[c] = events[c]
        BY <2>1, <2>3 DEF TypeOK
      <3> QED BY <1>1, <3>1
    <2> QED BY <2>2, <2>3
  <1>4. ASSUME NEW batch \in SUBSET Commands, NEW new \in CommandState,
               TransitionAll(batch, new)
        PROVE  Goal
    <2>1. \/ events'[c] = events[c]
          \/ events'[c] = Append(events[c], Event(state[c], new, "none"))
      BY <1>4 DEF TransitionAll
    <2> QED BY <1>0, <1>1, <1>2, <2>1
  <1>5. ASSUME NEW d \in Commands, Create(d) PROVE Goal
    <2>1. PICK first \in {"awaiting_approval", "queued"} :
            events' = [events EXCEPT ![d] =
                          <<Event("none", "received", "none"),
                            Event("received", "validated", "none"),
                            Event("validated", first, "none")>>]
      BY <1>5 DEF Create
    <2>2. CASE d = c
      <3>1. events'[c] = <<Event("none", "received", "none"),
                           Event("received", "validated", "none"),
                           Event("validated", first, "none")>>
        BY <2>1, <2>2 DEF TypeOK
      <3>2. \A i \in 1..Len(events'[c]) : events'[c][i].dedup_key = "none"
        BY <3>1 DEF Event
      <3> QED BY <3>2 DEF AddsNoKey
    <2>3. CASE d # c
      <3>1. events'[c] = events[c]
        BY <2>1, <2>3 DEF TypeOK
      <3> QED BY <1>1, <3>1
    <2> QED BY <2>2, <2>3
  <1>6. ASSUME NEW d \in Commands, DecideApprove(d) PROVE Goal
    <2>1. events' = [events EXCEPT ![d] =
                        @ \o <<Event(state[d], "approved", "none"),
                               Event("approved", "queued", "none")>>]
      BY <1>6 DEF DecideApprove
    <2>2. CASE d = c
      <3> DEFINE e == Event(state[c], "approved", "none")
                 f == Event("approved", "queued", "none")
                 t == events[c] \o <<e, f>>
      <3>1. e \in StateEvent /\ f \in StateEvent
        BY <1>0, EventType
      <3>2. e.dedup_key = "none" /\ f.dedup_key = "none"
        BY DEF Event
      <3>3. events'[c] = t
        BY <2>1, <2>2 DEF TypeOK
      <3> HIDE DEF e, f
      <3>4. /\ Len(events[c]) \in Nat /\ Len(t) = Len(events[c]) + 2
            /\ \A i \in 1..Len(events[c]) : t[i] = events[c][i]
            /\ t[Len(events[c]) + 1] = e /\ t[Len(events[c]) + 2] = f
        BY <1>0, <3>1
      <3> HIDE DEF t
      <3>5. \A i \in 1..Len(t) : \/ i \in 1..Len(events[c])
                                 \/ i = Len(events[c]) + 1
                                 \/ i = Len(events[c]) + 2
        BY <3>4
      <3>6. AddsNoKey(events[c], t)
        BY <3>2, <3>4, <3>5 DEF AddsNoKey
      <3> QED BY <3>3, <3>6
    <2>3. CASE d # c
      <3>1. events'[c] = events[c]
        BY <2>1, <2>3 DEF TypeOK
      <3> QED BY <1>1, <3>1
    <2> QED BY <2>2, <2>3
  <1>7. ASSUME NEW d \in Commands, NEW r \in Reports, NEW b \in BOOLEAN,
               HandleCommit(d, r, b)
        PROVE  Goal
    <2>1. CASE d = c
      BY <1>7, <2>1
    <2>2. CASE d # c
      <3>1. events'[c] = events[c]
        BY <1>7, <2>2 DEF HandleCommit, Transition, TypeOK
      <3> QED BY <1>1, <3>1
    <2> QED BY <2>1, <2>2
  <1>8. ASSUME UNCHANGED events PROVE Goal
    BY <1>1, <1>8
  <1>9. ASSUME NEW d \in Commands,
               \/ CommandDeadline(d) \/ ApprovalDeadline(d) \/ CancelRead(d)
               \/ DecideReject(d) \/ DecideExpire(d)
               \/ PublisherRead(d) \/ PublisherBlock(d)
               \/ PublisherAbort(d)
               \/ GatewayCheck(d) \/ GatewayCheckFails(d) \/ GatewayInvalid(d)
               \/ GatewaySend(d) \/ GatewayFault(d)
        PROVE  Goal
    <2>1. CASE DecideReject(d)
      BY <1>0, <1>3, <2>1 DEF DecideReject
    <2>2. CASE PublisherBlock(d)
      <3>1. pubView[d] \in CommandState \cup {"none"}
        BY DEF TypeOK
      <3> QED BY <1>0, <1>3, <2>2, <3>1 DEF PublisherBlock
    <2>3. CASE UNCHANGED events
      BY <1>8, <2>3
    <2> QED
      BY <1>9, <2>1, <2>2, <2>3, Zenon
      DEF CommandDeadline, ApprovalDeadline, CancelRead, DecideExpire,
          PublisherRead, PublisherAbort, GatewayCheck,
          GatewayCheckFails, GatewayInvalid, GatewaySend, GatewayFault
  <1>10. ASSUME NEW d \in Commands, NEW view \in CommandState,
                CancelCommit(d, view) \/ CancelRefused(d, view)
         PROVE  Goal
    BY <1>0, <1>3, <1>8, <1>10 DEF CancelCommit, CancelRefused
  <1>11. ASSUME NEW d \in Commands, NEW e, DecideRead(d, e) \/ DecideAbort(d, e)
         PROVE  Goal
    BY <1>8, <1>11, Zenon DEF DecideRead, DecideAbort
  <1>12. ASSUME NEW d \in Commands, NEW b,
                PublisherPublish(d, b) \/ GatewayDelivered(d, b)
         PROVE  Goal
    BY <1>8, <1>12, Zenon DEF PublisherPublish, GatewayDelivered
  <1>13. ASSUME NEW d \in Commands, NEW r, NEW b,
                \/ DeviceSend(d, r) \/ HandleRefused(d, r) \/ HandleFault(d, r)
                \/ HandleIgnore(d, r, b)
         PROVE  Goal
    BY <1>8, <1>13, Zenon
    DEF DeviceSend, HandleRefused, HandleFault, HandleIgnore
  <1>14. ASSUME NEW batch \in SUBSET Commands,
                RunTasks(batch) \/ BlockCommands(batch)
         PROVE  Goal
    BY <1>0, <1>4, <1>14 DEF RunTasks, BlockCommands
  <1>15. CASE ServiceChanges \/ UNCHANGED vars
    BY <1>8, <1>15, Zenon DEF vars, ServiceChanges
  <1> QED
    BY NextCases, <1>5, <1>6, <1>7, <1>9, <1>10, <1>11, <1>12, <1>13, <1>14,
       <1>15, Zenon

\* Every step keeps the keys unique, the progress handler's included.
LEMMA NextKeyInv == TypeOK /\ KeyInv /\ [Next]_vars => KeyInv'
  <1> SUFFICES ASSUME TypeOK, KeyInv, [Next]_vars, NEW c \in Commands
               PROVE  /\ KeysUnique(events'[c])
                      /\ HasKey(events'[c], "progress_first")
                            => state'[c] \in Started
    BY DEF KeyInv
  <1>1. /\ KeysUnique(events[c])
        /\ HasKey(events[c], "progress_first") => state[c] \in Started
    BY DEF KeyInv
  <1>2. state[c] \in Started => state'[c] \in Started
    BY StepMoves, StartedStays
  <1>3. "progress_first" \in DedupKey
    BY DEF DedupKey
  <1>4. CASE AddsNoKey(events[c], events'[c])
    BY <1>1, <1>2, <1>3, <1>4, NoKeyAdded
  <1>5. ASSUME NEW r \in Reports, NEW b \in BOOLEAN, HandleCommit(c, r, b)
        PROVE  /\ KeysUnique(events'[c])
               /\ HasKey(events'[c], "progress_first") => state'[c] \in Started
    <2> DEFINE e == Event(state[c], Target[r], Key[r])
    <2>1. /\ ~IsDuplicate(c, r)
          /\ r = "progress" => state[c] = "acknowledged"
          /\ Transition(c, state[c], Target[r], Key[r])
      BY <1>5 DEF HandleCommit
    <2>2. events'[c] = Append(events[c], e) /\ events[c] \in Seq(StateEvent)
      BY <2>1 DEF Transition, TypeOK
    <2>3. e \in StateEvent /\ e.dedup_key = Key[r]
      <3>1. state[c] \in CommandState \cup {"none"}
        BY DEF TypeOK
      <3> QED BY <3>1, TargetType, EventType DEF Event
    <2>4. Key[r] = "progress_first" <=> r = "progress"
      BY DEF Key, Reports, AllDeviceReports
    <2>5. ~HasKey(events[c], Key[r])
      <3>1. CASE r = "progress"
        BY <1>1, <2>1, <2>4, <3>1 DEF Started
      <3>2. CASE r # "progress"
        BY <2>1, <3>2 DEF IsDuplicate, HasKey
      <3> QED BY <3>1, <3>2
    <2> HIDE DEF e
    <2>6. /\ KeysUnique(events'[c])
          /\ HasKey(events'[c], "progress_first")
                => HasKey(events[c], "progress_first") \/ r = "progress"
      BY <1>1, <1>3, <2>2, <2>3, <2>4, <2>5, AppendKey
    <2>7. ASSUME r = "progress" PROVE state'[c] \in Started
      <3>1. Target[r] = "running" /\ state[c] = "acknowledged"
        BY <2>1, <2>7 DEF Target
      <3>2. state'[c] = RowAfter(state[c], state[c], Target[r])
        BY <2>1 DEF Transition, TypeOK
      <3> QED BY <3>1, <3>2 DEF RowAfter, Started
    <2> QED BY <1>1, <1>2, <2>6, <2>7
  <1> QED BY <1>4, <1>5, StepKeys

\* At most one row of the history of a command carries a deduplication key,
\* whatever is redelivered or sent twice, although the progress handler checks
\* only the state (_is_duplicate, _handle_progress).
THEOREM OneEventPerKeyHolds == Spec => []OneEventPerKey
  <1>1. Init => KeyInv
    <2> SUFFICES ASSUME Init, NEW c \in Commands
                 PROVE  KeysUnique(events[c])
                          /\ ~HasKey(events[c], "progress_first")
      BY DEF KeyInv
    <2>1. events[c] = <<>>
      BY DEF Init
    <2> QED BY <2>1 DEF KeysUnique, HasKey
  <1>2. KeyInv => OneEventPerKey
    BY DEF KeyInv, KeysUnique, OneEventPerKey
  <1> QED BY <1>1, <1>2, NextKeyInv, TypeCorrect, PTL DEF Spec
-----------------------------------------------------------------------------
(* The life of a command *)

\* The stages of a command that was queued.
Queued ==
    CommittedStates \ {"none", "awaiting_approval", "rejected"}

\* The stages that a report of the device or of the gateway leads to.
Reported == {"delivered", "acknowledged", "running", "succeeded", "failed"}

\* What the refinement needs to know of a command in state s with the verdicts
\* a, the receipt x, the gateway at g and n deliveries left of its delivered
\* report: a check that was passed was passed by a queued command, and nothing
\* is reported as delivered that the device was not sent.
Hands(s, a, x, g, n) ==
    /\ g # "idle" => s \in Queued
    /\ g = "sent" \/ n # 0 \/ s \in Reported => x = TRUE
    /\ s = "rejected" => a = {"rejected"}

HandsOf(c) ==
    Hands(state[c], audit[c], received[c], gateway[c], inbox[c]["delivered"])

HandInv == \A c \in Commands : HandsOf(c)

\* A command that was queued is never again before the queue.
LEMMA QueuedStays ==
    ASSUME NEW s \in Queued, NEW t, Move(s, t)
    PROVE  t \in Queued
  BY DEF Queued, CommittedStates, Move, TriggerTransitions

\* The moves of one transition that saw the row as it is: both tables agree.
LEMMA SharedMove ==
    ASSUME NEW s, NEW t, Outcome(s, s, t) = "ok", s # t
    PROVE  <<s, t>> \in ALLOWED_TRANSITIONS \cap TriggerTransitions
  BY DEF Outcome, PythonAllows, TriggerAllows

\* What a report can do to a command: nothing, or one step of its way on the
\* device; one that is delivered was sent.
LEMMA ReportStep ==
    ASSUME TypeOK, HandInv, NEW c \in Commands, NEW r \in Reports, NEW b,
           HandleCommit(c, r, b)
    PROVE  /\ \A d \in Commands : d # c => state'[d] = state[d]
           /\ \/ state'[c] = state[c]
              \/ /\ <<state[c], state'[c]>> \in Life!Progress
                 /\ state'[c] \in Reported
                 /\ state' = [state EXCEPT ![c] = state'[c]]
                 /\ received[c] = TRUE
  <1>1. /\ inbox[c][r] > 0
        /\ Outcome(state[c], state[c], Target[r]) = "ok"
        /\ state' = [state EXCEPT ![c] = RowAfter(state[c], @, Target[r])]
    BY DEF HandleCommit, Transition
  <1>2. state'[c] = RowAfter(state[c], state[c], Target[r])
        /\ \A d \in Commands : d # c => state'[d] = state[d]
    BY <1>1 DEF TypeOK
  <1>3. CASE state[c] = Target[r]
    BY <1>2, <1>3 DEF RowAfter
  <1>4. CASE state[c] # Target[r]
    <2>1. state'[c] = Target[r] /\ state' = [state EXCEPT ![c] = Target[r]]
      BY <1>1, <1>2, <1>4 DEF RowAfter
    <2>2. <<state[c], Target[r]>> \in ALLOWED_TRANSITIONS \cap TriggerTransitions
      BY <1>1, <1>4, SharedMove
    <2>3. Target[r] \in Reported
      BY DEF Target, Reports, AllDeviceReports, Reported
    <2>4. <<state[c], Target[r]>> \in Life!Progress
      BY <2>2, <2>3 DEF ALLOWED_TRANSITIONS, TriggerTransitions, Reported,
                        Life!Progress
    <2>5. state[c] \in Reported \/ r = "delivered"
      BY <2>4 DEF Life!Progress, Reported, Target, Reports, AllDeviceReports
    <2>6. received[c] = TRUE
      <3>1. CASE state[c] \in Reported
        BY <3>1 DEF HandInv, HandsOf, Hands
      <3>2. CASE r = "delivered"
        <4>1. inbox[c]["delivered"] # 0
          BY <1>1, <3>2 DEF TypeOK
        <4> QED BY <4>1 DEF HandInv, HandsOf, Hands
      <3> QED BY <2>5, <3>1, <3>2
    <2> QED BY <1>2, <2>1, <2>3, <2>4, <2>6
  <1> QED BY <1>3, <1>4

\* Handling a report adds no delivered report to the stream.
LEMMA InboxShrinks ==
    ASSUME TypeOK, NEW c \in Commands, NEW d \in Commands, NEW r \in Reports,
           inbox[d][r] > 0, NEW n, inbox' = [inbox EXCEPT ![d][r] = n],
           inbox'[c]["delivered"] # 0
    PROVE  inbox[c]["delivered"] # 0
  <1>1. inbox \in [Commands -> [Reports -> 0..MaxDeliver]]
    BY DEF TypeOK
  <1>2. inbox' = [inbox EXCEPT ![d] = [inbox[d] EXCEPT ![r] = n]]
    OBVIOUS
  <1>3. CASE c # d
    BY <1>1, <1>2, <1>3
  <1>4. CASE c = d /\ r # "delivered"
    <2>1. inbox'[c] = [inbox[c] EXCEPT ![r] = n]
      BY <1>1, <1>2, <1>4
    <2>2. "delivered" \in Reports
      BY DEF Reports
    <2>3. inbox'[c]["delivered"] = inbox[c]["delivered"]
      BY <1>1, <1>4, <2>1, <2>2
    <2> QED BY <2>3
  <1>5. CASE c = d /\ r = "delivered"
    BY <1>1, <1>5
  <1> QED BY <1>3, <1>4, <1>5

\* A step that reports nothing new keeps what is known of a command.
LEMMA HandsMove ==
    ASSUME NEW s, NEW t, NEW a, NEW b, NEW x, NEW g, NEW n, NEW m,
           Hands(s, a, x, g, n), s \in CommittedStates, Move(s, t),
           t \in Reported => s \in Reported,
           t = "rejected" => b = {"rejected"},
           m # 0 => n # 0
    PROVE  Hands(t, b, x, g, m)
  BY QueuedStays DEF Hands

\* Every step keeps what is known of hand-over and verdict.
LEMMA NextHandInv == TypeOK /\ GateInv /\ HandInv /\ [Next]_vars => HandInv'
  <1> SUFFICES ASSUME TypeOK, GateInv, HandInv, [Next]_vars, NEW c \in Commands
               PROVE  HandsOf(c)'
    BY DEF HandInv
  <1> USE DEF rows, clock, requests, wire
  <1>0. /\ HandsOf(c) /\ Move(state[c], state'[c])
        /\ state[c] \in CommittedStates
    BY StepMoves DEF HandInv, GateInv, GateOf, Gate
  <1>1. ASSUME received'[c] = received[c], gateway'[c] = gateway[c],
               inbox'[c]["delivered"] # 0 => inbox[c]["delivered"] # 0,
               state'[c] \in Reported => state[c] \in Reported,
               state'[c] = "rejected" => audit'[c] = {"rejected"}
        PROVE  HandsOf(c)'
    BY <1>0, <1>1, HandsMove DEF HandsOf
  <1>2. ASSUME UNCHANGED <<audit, wire>>,
               \/ state'[c] = state[c]
               \/ state'[c] \in {"awaiting_approval", "queued", "cancelled",
                                 "expired", "blocked_by_emergency_stop"}
        PROVE  HandsOf(c)'
    <2>1. state'[c] \in Reported => state[c] \in Reported
      BY <1>2 DEF Reported
    <2>2. state'[c] = "rejected" => audit'[c] = {"rejected"}
      BY <1>0, <1>2 DEF HandsOf, Hands
    <2>3. UNCHANGED <<received, gateway, inbox>>
      BY <1>2
    <2> QED BY <1>1, <2>1, <2>2, <2>3
  <1>3. ASSUME NEW d \in Commands, Create(d) PROVE HandsOf(c)'
    <2>1. /\ UNCHANGED <<audit, wire>>
          /\ \E first \in {"awaiting_approval", "queued"} :
                state' = [state EXCEPT ![d] = first]
      BY <1>3 DEF Create
    <2>2. \/ state'[c] = state[c]
          \/ state'[c] \in {"awaiting_approval", "queued"}
      BY <2>1 DEF TypeOK
    <2> QED BY <1>2, <2>1, <2>2
  <1>4. ASSUME NEW d \in Commands, DecideApprove(d) PROVE HandsOf(c)'
    <2>1. /\ UNCHANGED <<received, gateway, inbox>>
          /\ state' = [state EXCEPT ![d] = "queued"]
          /\ audit' = [audit EXCEPT ![d] = @ \cup {"approved"}]
      BY <1>4 DEF DecideApprove
    <2>2. CASE c = d
      <3>1. state'[c] = "queued"
        BY <2>1, <2>2 DEF TypeOK
      <3> QED BY <1>1, <2>1, <3>1 DEF Reported
    <2>3. CASE c # d
      <3>1. state'[c] = state[c] /\ audit'[c] = audit[c]
        BY <2>1, <2>3 DEF TypeOK
      <3> QED BY <1>0, <2>1, <3>1 DEF HandsOf
    <2> QED BY <2>2, <2>3
  <1>5. ASSUME NEW d \in Commands, DecideReject(d) PROVE HandsOf(c)'
    <2>1. /\ Transition(d, state[d], "rejected", "none")
          /\ audit' = [audit EXCEPT ![d] = @ \cup {"rejected"}]
          /\ UNCHANGED <<received, gateway, inbox>>
      BY <1>5 DEF DecideReject
    <2>2. CASE c = d
      <3>1. /\ Outcome(state[c], state[c], "rejected") = "ok"
            /\ state'[c] = RowAfter(state[c], state[c], "rejected")
        BY <2>1, <2>2 DEF Transition, TypeOK
      <3>2. state'[c] = "rejected"
        BY <3>1 DEF RowAfter
      <3>3. state[c] = "rejected" \/ <<state[c], "rejected">> \in TriggerTransitions
        BY <3>1, OutcomeFollowsTrigger DEF RowAfter
      <3>4. state[c] \in {"rejected", "awaiting_approval"}
        BY <3>3, TriggerStarts
      <3>5. audit[c] \subseteq {"rejected"}
        BY <3>4 DEF GateInv, GateOf, Gate, TypeOK
      <3>6. audit'[c] = {"rejected"}
        BY <2>1, <2>2, <3>5 DEF TypeOK
      <3> QED BY <1>1, <2>1, <3>2, <3>6 DEF Reported
    <2>3. CASE c # d
      <3>1. state'[c] = state[c]
        BY <2>1, <2>3, TransitionMoves
      <3>2. audit'[c] = audit[c]
        BY <2>1, <2>3 DEF TypeOK
      <3> QED BY <1>0, <2>1, <3>1, <3>2 DEF HandsOf
    <2> QED BY <2>2, <2>3
  <1>6. ASSUME NEW d \in Commands, NEW r \in Reports, NEW b,
               HandleCommit(d, r, b)
        PROVE  HandsOf(c)'
    <2>1. /\ inbox[d][r] > 0 /\ Settle(d, r, b)
          /\ UNCHANGED <<audit, received, gateway>>
      BY <1>6 DEF HandleCommit
    <2>2. inbox'[c]["delivered"] # 0 => inbox[c]["delivered"] # 0
      BY <2>1, InboxShrinks DEF Settle
    <2>3. \/ state'[c] = state[c]
          \/ state'[c] \in Reported /\ received[c] = TRUE
      BY <1>6, ReportStep
    <2>4. CASE state'[c] = state[c]
      BY <1>0, <2>1, <2>2, <2>4 DEF HandsOf, Hands
    <2>5. CASE state'[c] \in Reported /\ received[c] = TRUE
      BY <1>0, <2>1, <2>5, QueuedStays DEF HandsOf, Hands, Reported
    <2> QED BY <2>3, <2>4, <2>5
  <1>7. ASSUME NEW d \in Commands, NEW r \in Reports, inbox[d][r] > 0, NEW n,
               inbox' = [inbox EXCEPT ![d][r] = n],
               UNCHANGED <<state, audit, received, gateway>>
        PROVE  HandsOf(c)'
    <2>1. inbox'[c]["delivered"] # 0 => inbox[c]["delivered"] # 0
      BY <1>7, InboxShrinks
    <2> QED BY <1>0, <1>7, <2>1 DEF HandsOf, Hands
  <1>8. ASSUME NEW d \in Commands, NEW r \in DeviceReports, DeviceSend(d, r)
        PROVE  HandsOf(c)'
    <2>1. /\ UNCHANGED <<state, audit, received, gateway>>
          /\ inbox' = [inbox EXCEPT ![d][r] = MaxDeliver]
      BY <1>8 DEF DeviceSend
    <2>2. r # "delivered" /\ "delivered" \in Reports /\ r \in Reports
      BY DEF AllDeviceReports, Reports
    <2>3. inbox'[c]["delivered"] = inbox[c]["delivered"]
      BY <2>1, <2>2 DEF TypeOK
    <2> QED BY <1>0, <2>1, <2>3 DEF HandsOf
  <1>9. ASSUME NEW d \in Commands, GatewayCheck(d) PROVE HandsOf(c)'
    <2>1. UNCHANGED <<state, audit, received, inbox>>
      BY <1>9 DEF GatewayCheck
    <2>2. CASE gateway'[c] = gateway[c]
      BY <1>0, <2>1, <2>2 DEF HandsOf
    <2>3. CASE state[c] = "queued" /\ gateway[c] = "idle" /\ gateway'[c] = "checked"
      BY <1>0, <2>1, <2>3 DEF HandsOf, Hands, Queued, CommittedStates
    <2>4. \/ gateway'[c] = gateway[c]
          \/ state[c] = "queued" /\ gateway[c] = "idle" /\ gateway'[c] = "checked"
      BY <1>9 DEF GatewayCheck, TypeOK
    <2> QED BY <2>2, <2>3, <2>4
  <1>10. ASSUME NEW d \in Commands, GatewaySend(d) PROVE HandsOf(c)'
    <2>1. /\ UNCHANGED <<state, audit, inbox>> /\ gateway[d] = "checked"
          /\ gateway' = [gateway EXCEPT ![d] = "sent"]
          /\ received' = [received EXCEPT ![d] = TRUE]
      BY <1>10 DEF GatewaySend
    <2>2. CASE c = d
      <3>1. gateway'[c] = "sent" /\ received'[c] = TRUE
        BY <2>1, <2>2 DEF TypeOK
      <3> QED BY <1>0, <2>1, <2>2, <3>1 DEF HandsOf, Hands
    <2>3. CASE c # d
      BY <1>0, <2>1, <2>3 DEF HandsOf, TypeOK
    <2> QED BY <2>2, <2>3
  <1>11. ASSUME NEW d \in Commands, NEW b \in BOOLEAN, GatewayDelivered(d, b)
         PROVE  HandsOf(c)'
    <2>1. /\ UNCHANGED <<state, audit, received>> /\ gateway[d] = "sent"
          /\ gateway' = [gateway EXCEPT ![d] = "idle"]
          /\ inbox' = [inbox EXCEPT ![d]["delivered"] = MaxDeliver]
      BY <1>11 DEF GatewayDelivered
    <2>2. CASE c = d
      BY <1>0, <2>1, <2>2 DEF HandsOf, Hands, TypeOK
    <2>3. CASE c # d
      BY <1>0, <2>1, <2>3 DEF HandsOf, TypeOK
    <2> QED BY <2>2, <2>3
  <1>12. ASSUME NEW d \in Commands, GatewayInvalid(d) \/ GatewayFault(d)
         PROVE  HandsOf(c)'
    <2>1. /\ UNCHANGED <<state, audit, received, inbox>>
          /\ gateway' = [gateway EXCEPT ![d] = "idle"]
      BY <1>12, Zenon DEF GatewayInvalid, GatewayFault
    <2>2. gateway'[c] \in {gateway[c], "idle"}
      BY <2>1 DEF TypeOK
    <2> QED BY <1>0, <2>1, <2>2 DEF HandsOf, Hands
  <1>13. ASSUME UNCHANGED <<state, audit, received, gateway, inbox>>
         PROVE  HandsOf(c)'
    BY <1>0, <1>13 DEF HandsOf
  <1>14. ASSUME NEW d \in Commands,
                \/ CommandDeadline(d) \/ ApprovalDeadline(d) \/ CancelRead(d)
                \/ DecideExpire(d) \/ PublisherRead(d) \/ PublisherAbort(d)
                \/ GatewayCheckFails(d)
         PROVE  HandsOf(c)'
    BY <1>13, <1>14, Zenon
    DEF CommandDeadline, ApprovalDeadline, CancelRead, DecideExpire,
        PublisherRead, PublisherAbort, GatewayCheckFails
  <1>15. ASSUME NEW d \in Commands, PublisherBlock(d) PROVE HandsOf(c)'
    <2>1. /\ Transition(d, pubView[d], "blocked_by_emergency_stop", "none")
          /\ UNCHANGED <<audit, wire>>
      BY <1>15 DEF PublisherBlock
    <2> QED BY <1>2, <2>1, TransitionMoves
  <1>16. ASSUME NEW d \in Commands, NEW view \in CommandState,
                CancelCommit(d, view) \/ CancelRefused(d, view)
         PROVE  HandsOf(c)'
    <2>1. CASE CancelCommit(d, view)
      <3>1. Transition(d, view, "cancelled", "none") /\ UNCHANGED <<audit, wire>>
        BY <2>1 DEF CancelCommit
      <3> QED BY <1>2, <3>1, TransitionMoves
    <2>2. CASE CancelRefused(d, view)
      BY <1>13, <2>2, Zenon DEF CancelRefused
    <2> QED BY <1>16, <2>1, <2>2
  <1>17. ASSUME NEW d \in Commands, NEW e, DecideRead(d, e) \/ DecideAbort(d, e)
         PROVE  HandsOf(c)'
    BY <1>13, <1>17, Zenon DEF DecideRead, DecideAbort
  <1>18. ASSUME NEW d \in Commands, NEW b, PublisherPublish(d, b)
         PROVE  HandsOf(c)'
    BY <1>13, <1>18, Zenon DEF PublisherPublish
  <1>19. ASSUME NEW d \in Commands, NEW r \in Reports, NEW b,
                \/ HandleRefused(d, r) \/ HandleFault(d, r)
                \/ HandleIgnore(d, r, b)
         PROVE  HandsOf(c)'
    <2>1. /\ UNCHANGED <<state, audit, received, gateway>> /\ inbox[d][r] > 0
          /\ \E n : inbox' = [inbox EXCEPT ![d][r] = n]
      BY <1>19, Zenon DEF HandleRefused, HandleFault, HandleIgnore, Settle
    <2> QED BY <1>7, <2>1
  <1>20. ASSUME NEW batch \in SUBSET Commands,
                RunTasks(batch) \/ BlockCommands(batch)
         PROVE  HandsOf(c)'
    <2>1. \E new \in {"expired", "blocked_by_emergency_stop"} :
            TransitionAll(batch, new)
      BY <1>20, Zenon DEF RunTasks, BlockCommands
    <2>2. UNCHANGED <<audit, wire>>
      BY <1>20, Zenon DEF RunTasks, BlockCommands
    <2> QED BY <1>2, <2>1, <2>2, TransitionAllMoves
  <1>21. CASE ServiceChanges \/ UNCHANGED vars
    BY <1>13, <1>21, Zenon DEF vars, ServiceChanges
  <1> QED
    BY NextCases, <1>3, <1>4, <1>5, <1>6, <1>8, <1>9, <1>10, <1>11, <1>12,
       <1>14, <1>15, <1>16, <1>17, <1>18, <1>19, <1>20, <1>21, Zenon

\* One transition to new moves c there or leaves every row as it is.
LEMMA TransitionRow ==
    ASSUME TypeOK, NEW c \in Commands, NEW view, NEW new, NEW key,
           Transition(c, view, new, key)
    PROVE  \/ state' = state
           \/ /\ state' = [state EXCEPT ![c] = new]
              /\ <<state[c], new>> \in TriggerTransitions
  <1>1. /\ Outcome(view, state[c], new) = "ok"
        /\ state' = [state EXCEPT ![c] = RowAfter(view, state[c], new)]
    BY DEF Transition
  <1>2. CASE RowAfter(view, state[c], new) = state[c]
    BY <1>1, <1>2 DEF TypeOK
  <1>3. CASE RowAfter(view, state[c], new) # state[c]
    BY <1>1, <1>3, OutcomeFollowsTrigger
  <1> QED BY <1>2, <1>3

\* A batch of transitions moves some of its commands together, each as both
\* tables allow.
LEMMA TransitionAllRows ==
    ASSUME TypeOK, NEW batch \in SUBSET Commands, NEW new,
           TransitionAll(batch, new), \A c \in batch : state[c] # new
    PROVE  \E moved \in SUBSET Commands :
             /\ state' = [c \in Commands |->
                            IF c \in moved THEN new ELSE state[c]]
             /\ \A c \in moved :
                  <<state[c], new>> \in ALLOWED_TRANSITIONS \cap TriggerTransitions
  <1> DEFINE moved == {c \in batch : Outcome(state[c], state[c], new) = "ok"}
  <1>1. state' = [c \in Commands |-> IF c \in moved THEN new ELSE state[c]]
    BY DEF TransitionAll
  <1>2. \A c \in moved :
          <<state[c], new>> \in ALLOWED_TRANSITIONS \cap TriggerTransitions
    BY SharedMove
  <1>3. moved \in SUBSET Commands
    OBVIOUS
  <1> HIDE DEF moved
  <1> QED BY <1>1, <1>2, <1>3

\* Every step of the processes is a step of the command's life, or leaves it.
LEMMA StepKeepsLife ==
    ASSUME TypeOK, GateInv, HandInv, [Next]_vars
    PROVE  [Life!Next]_(Life!vars)
  <1> USE DEF rows, clock, requests, wire
  <1>0. \A c \in Commands :
          /\ state[c] \in CommittedStates
          /\ state[c] = "awaiting_approval" => audit[c] = {}
    <2> SUFFICES ASSUME NEW c \in Commands
                 PROVE  /\ state[c] \in CommittedStates
                        /\ state[c] = "awaiting_approval" => audit[c] = {}
      OBVIOUS
    <2>1. audit[c] \subseteq {"approved", "rejected"}
      BY DEF TypeOK
    <2> QED BY <2>1 DEF GateInv, GateOf, Gate
  <1>1. ASSUME UNCHANGED <<state, audit, received>>
        PROVE  [Life!Next]_(Life!vars)
    BY <1>1 DEF Life!vars
  <1>2. ASSUME NEW c \in Commands, Create(c) PROVE Life!Next
    <2>1. Life!Submit(c)
      BY <1>2 DEF Create, Life!Submit
    <2> QED BY <2>1, Zenon DEF Life!Next
  <1>3. ASSUME NEW c \in Commands, DecideApprove(c) PROVE Life!Next
    <2>1. /\ Outcome(state[c], state[c], "approved") = "ok"
          /\ state' = [state EXCEPT ![c] = "queued"]
          /\ audit' = [audit EXCEPT ![c] = @ \cup {"approved"}]
          /\ UNCHANGED received
      BY <1>3 DEF DecideApprove
    <2>2. <<state[c], "approved">> \in TriggerTransitions \/ state[c] = "approved"
      BY <2>1, OutcomeFollowsTrigger DEF RowAfter
    <2>3. state[c] = "awaiting_approval" /\ audit[c] = {}
      BY <1>0, <2>2 DEF TriggerTransitions, CommittedStates
    <2>4. audit' = [audit EXCEPT ![c] = {"approved"}]
      BY <2>1, <2>3
    <2>5. Life!Approve(c)
      BY <2>1, <2>3, <2>4 DEF Life!Approve, Life!Decide
    <2> QED BY <2>5, Zenon DEF Life!Next
  <1>4. ASSUME NEW c \in Commands, DecideReject(c)
        PROVE  [Life!Next]_(Life!vars)
    <2>1. /\ Transition(c, state[c], "rejected", "none")
          /\ audit' = [audit EXCEPT ![c] = @ \cup {"rejected"}]
          /\ UNCHANGED received
      BY <1>4 DEF DecideReject
    <2>2. CASE state[c] = "rejected"
      <3>1. audit[c] = {"rejected"}
        BY <2>2 DEF HandInv, HandsOf, Hands
      <3>2. audit' = audit
        BY <2>1, <3>1 DEF TypeOK
      <3>3. state' = state
        BY <2>1, <2>2, TransitionRow, TriggerStarts
      <3> QED BY <1>1, <2>1, <3>2, <3>3
    <2>3. CASE state[c] # "rejected"
      <3>1. /\ Outcome(state[c], state[c], "rejected") = "ok"
            /\ state' = [state EXCEPT ![c] = "rejected"]
        BY <2>1, <2>3 DEF Transition, RowAfter
      <3>2. <<state[c], "rejected">> \in TriggerTransitions
        BY <2>3, <3>1, SharedMove
      <3>3. state[c] = "awaiting_approval" /\ audit[c] = {}
        BY <1>0, <3>2, TriggerStarts
      <3>4. audit' = [audit EXCEPT ![c] = {"rejected"}]
        BY <2>1, <3>3
      <3>5. Life!Reject(c)
        BY <2>1, <3>1, <3>3, <3>4 DEF Life!Reject, Life!Decide
      <3> QED BY <3>5, Zenon DEF Life!Next
    <2> QED BY <2>2, <2>3
  <1>5. ASSUME NEW c \in Commands, NEW r \in Reports, NEW b,
               HandleCommit(c, r, b)
        PROVE  [Life!Next]_(Life!vars)
    <2>1. UNCHANGED <<audit, received>>
      BY <1>5 DEF HandleCommit
    <2>2. CASE state'[c] = state[c]
      <3>1. state' = state
        BY <1>5, <2>2 DEF HandleCommit, Transition, TypeOK
      <3> QED BY <1>1, <2>1, <3>1
    <2>3. CASE state'[c] # state[c]
      <3>1. /\ <<state[c], state'[c]>> \in Life!Progress
            /\ state'[c] \in Reported
            /\ state' = [state EXCEPT ![c] = state'[c]]
            /\ received[c] = TRUE
        BY <1>5, <2>3, ReportStep
      <3>2. Life!Report(c)
        BY <2>1, <3>1 DEF Life!Report, Reported
      <3> QED BY <3>2, Zenon DEF Life!Next
    <2> QED BY <2>2, <2>3
  <1>6. ASSUME NEW c \in Commands, NEW view, CancelCommit(c, view)
        PROVE  [Life!Next]_(Life!vars)
    <2>1. /\ Transition(c, view, "cancelled", "none")
          /\ UNCHANGED <<audit, received>>
      BY <1>6 DEF CancelCommit
    <2>2. CASE state' = state
      BY <1>1, <2>1, <2>2
    <2>3. CASE /\ state' = [state EXCEPT ![c] = "cancelled"]
               /\ <<state[c], "cancelled">> \in TriggerTransitions
      <3>1. Life!Cancel(c)
        BY <1>0, <2>1, <2>3
        DEF Life!Cancel, TriggerTransitions, CommittedStates
      <3> QED BY <3>1, Zenon DEF Life!Next
    <2> QED BY <2>1, <2>2, <2>3, TransitionRow
  <1>7. ASSUME NEW c \in Commands, PublisherBlock(c)
        PROVE  [Life!Next]_(Life!vars)
    <2>1. /\ Transition(c, pubView[c], "blocked_by_emergency_stop", "none")
          /\ UNCHANGED <<audit, received>>
      BY <1>7 DEF PublisherBlock
    <2>2. CASE state' = state
      BY <1>1, <2>1, <2>2
    <2>3. CASE /\ state' = [state EXCEPT ![c] = "blocked_by_emergency_stop"]
               /\ <<state[c], "blocked_by_emergency_stop">> \in TriggerTransitions
      <3>1. state[c] = "queued"
        BY <2>3 DEF TriggerTransitions
      <3>2. state' = [d \in Commands |->
                        IF d \in {c} THEN "blocked_by_emergency_stop"
                        ELSE state[d]]
        BY <2>3 DEF TypeOK
      <3>3. Life!Block({c})
        BY <2>1, <3>1, <3>2 DEF Life!Block, Life!EndAll
      <3>4. {c} \in SUBSET Commands
        OBVIOUS
      <3> QED BY <3>3, <3>4, Zenon DEF Life!Next
    <2> QED BY <2>1, <2>2, <2>3, TransitionRow
  <1>8. ASSUME NEW batch \in SUBSET Commands, RunTasks(batch) PROVE Life!Next
    <2>1. /\ TransitionAll(batch, "expired") /\ batch \subseteq Due
          /\ UNCHANGED <<audit, received>>
      BY <1>8 DEF RunTasks
    <2>2. \A c \in batch : state[c] # "expired"
      BY <2>1 DEF Due, Expirable
    <2>3. PICK moved \in SUBSET Commands :
            /\ state' = [c \in Commands |->
                           IF c \in moved THEN "expired" ELSE state[c]]
            /\ \A c \in moved : <<state[c], "expired">>
                                  \in ALLOWED_TRANSITIONS \cap TriggerTransitions
      BY <2>1, <2>2, TransitionAllRows
    <2>4. \A c \in moved : state[c] \in {"awaiting_approval", "queued"}
      BY <2>3 DEF ALLOWED_TRANSITIONS, TriggerTransitions
    <2>5. Life!Expire(moved)
      BY <2>1, <2>3, <2>4 DEF Life!Expire, Life!EndAll
    <2> QED BY <2>5, Zenon DEF Life!Next
  <1>9. ASSUME NEW batch \in SUBSET Commands, BlockCommands(batch)
        PROVE  Life!Next
    <2>1. /\ TransitionAll(batch, "blocked_by_emergency_stop")
          /\ \A c \in batch : state[c] \in {"queued", "approved"}
          /\ UNCHANGED <<audit, received>>
      BY <1>9 DEF BlockCommands
    <2>2. \A c \in batch : state[c] # "blocked_by_emergency_stop"
      BY <2>1
    <2>3. PICK moved \in SUBSET Commands :
            /\ state' = [c \in Commands |->
                           IF c \in moved THEN "blocked_by_emergency_stop"
                           ELSE state[c]]
            /\ \A c \in moved : <<state[c], "blocked_by_emergency_stop">>
                                  \in ALLOWED_TRANSITIONS \cap TriggerTransitions
      BY <2>1, <2>2, TransitionAllRows
    <2>4. \A c \in moved : state[c] \in {"queued"}
      BY <2>3 DEF TriggerTransitions
    <2>5. Life!Block(moved)
      BY <2>1, <2>3, <2>4 DEF Life!Block, Life!EndAll
    <2> QED BY <2>5, Zenon DEF Life!Next
  <1>10. ASSUME NEW c \in Commands, GatewaySend(c) PROVE Life!Next
    <2>1. /\ UNCHANGED <<state, audit>> /\ gateway[c] = "checked"
          /\ received' = [received EXCEPT ![c] = TRUE]
      BY <1>10 DEF GatewaySend
    <2>2. state[c] \in Queued
      BY <2>1 DEF HandInv, HandsOf, Hands
    <2>3. Life!Hand(c)
      BY <2>1, <2>2 DEF Life!Hand, Queued
    <2> QED BY <2>3, Zenon DEF Life!Next
  <1>11. ASSUME NEW c \in Commands,
                \/ CommandDeadline(c) \/ ApprovalDeadline(c) \/ CancelRead(c)
                \/ DecideExpire(c) \/ PublisherRead(c) \/ PublisherAbort(c)
                \/ GatewayCheck(c) \/ GatewayCheckFails(c) \/ GatewayInvalid(c)
                \/ GatewayFault(c)
         PROVE  [Life!Next]_(Life!vars)
    BY <1>1, <1>11, Zenon
    DEF CommandDeadline, ApprovalDeadline, CancelRead, DecideExpire,
        PublisherRead, PublisherAbort, GatewayCheck, GatewayCheckFails,
        GatewayInvalid, GatewayFault
  <1>12. ASSUME NEW c, NEW e, \/ CancelRefused(c, e) \/ DecideRead(c, e)
                              \/ DecideAbort(c, e) \/ PublisherPublish(c, e)
                              \/ GatewayDelivered(c, e)
         PROVE  [Life!Next]_(Life!vars)
    BY <1>1, <1>12, Zenon
    DEF CancelRefused, DecideRead, DecideAbort, PublisherPublish,
        GatewayDelivered
  <1>13. ASSUME NEW c, NEW r, NEW b,
                \/ DeviceSend(c, r) \/ HandleRefused(c, r) \/ HandleFault(c, r)
                \/ HandleIgnore(c, r, b)
         PROVE  [Life!Next]_(Life!vars)
    BY <1>1, <1>13, Zenon
    DEF DeviceSend, HandleRefused, HandleFault, HandleIgnore
  <1>14. CASE ServiceChanges \/ UNCHANGED vars
    BY <1>1, <1>14, Zenon DEF vars, ServiceChanges
  <1> QED
    BY NextCases, <1>2, <1>3, <1>4, <1>5, <1>6, <1>7, <1>8, <1>9, <1>10, <1>11,
       <1>12, <1>13, <1>14, Zenon

\* The lifecycle implements CommandLife: whatever the API, the publisher, the
\* gateway, the consumer, the scheduler and an emergency stop do, in any order
\* and with stale reads, is a step of the command's life
\* (transition_command, validate_command_state_transition).
THEOREM LifeRefined == Spec => LifeKept
  <1>1. Init => Life!Init
    BY DEF Init, Life!Init
  <1>2. Init => HandInv
    BY DEF Init, HandInv, HandsOf, Hands, Reports, Reported
  <1>3. TypeOK /\ GateInv /\ HandInv /\ [Next]_vars => [Life!Next]_(Life!vars)
    BY StepKeepsLife
  <1> QED
    BY <1>1, <1>2, <1>3, NextHandInv, TypeCorrect, GateAlways, PTL
    DEF Spec, LifeKept, Life!Spec
=============================================================================
