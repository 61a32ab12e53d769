---------------------------- MODULE OutboxPublisher ----------------------------
(***************************************************************************)
(* The transactional outbox: rows of outbox_events and the workers that    *)
(* publish them to JetStream, a batch of rows per transaction.             *)
(*                                                                         *)
(* A worker publishes the events of its batch one by one and marks them in *)
(* a transaction it commits at the end. Its error handler reports through  *)
(* a standard-library logger with keyword arguments, which raises: an      *)
(* event that fails ends the worker, and the transaction is rolled back.   *)
(***************************************************************************)
EXTENDS Naturals, FiniteSets

CONSTANTS
    Events,      \* outbox rows, numbered in the order of created_at
    Workers,     \* publisher processes
    BatchSize,   \* rows one transaction takes (100)
    Restarted,   \* a worker that ended is started again (compose "restart")
    MaxCrashes,  \* bound: workers killed in a behaviour
    MaxStored    \* bound: messages of one event

ASSUME EventsAssumption == Events \subseteq Nat
ASSUME BatchAssumption == BatchSize \in Nat \ {0}
ASSUME RestartedAssumption == Restarted \in BOOLEAN

VARIABLES
    status,   \* outbox_events.status, "none" before the row exists
    kind,     \* "command": command.queued of one owner; "other": the rest
    command,  \* commands.state of the event's command
    stop,     \* is_active answers True for that owner
    nats,     \* JetStream can be reached
    stored,   \* messages of the event that the stream has stored
    window,   \* events whose id is in the stream's duplicate window
    up,       \* workers that run
    batch,    \* rows a worker has locked
    todo,     \* rows of its batch it has not come to
    done,     \* rows it marked published, not yet committed
    blocked,  \* rows it marked failed, not yet committed
    crashes

rows == <<status, kind, command>>
stream == <<nats, stored, window>>
transaction == <<batch, todo, done, blocked>>
vars == <<rows, stop, stream, up, transaction, crashes>>

Row == {"none", "queued", "cancelled", "blocked_by_emergency_stop"}

TypeOK ==
    /\ status \in [Events -> {"none", "pending", "published", "failed"}]
    /\ kind \in [Events -> {"command", "other"}]
    /\ command \in [Events -> Row]
    /\ stop \in BOOLEAN
    /\ nats \in BOOLEAN
    /\ stored \in [Events -> Nat]
    /\ window \in SUBSET Events
    /\ up \in SUBSET Workers
    /\ batch \in [Workers -> SUBSET Events]
    /\ todo \in [Workers -> SUBSET Events]
    /\ done \in [Workers -> SUBSET Events]
    /\ blocked \in [Workers -> SUBSET Events]
    /\ crashes \in Nat

Nothing == [w \in Workers |-> {}]

Init ==
    /\ status = [e \in Events |-> "none"]
    /\ kind = [e \in Events |-> "other"]
    /\ command = [e \in Events |-> "none"]
    /\ stop = FALSE /\ nats = TRUE
    /\ stored = [e \in Events |-> 0] /\ window = {}
    /\ up = Workers
    /\ batch = Nothing /\ todo = Nothing /\ done = Nothing /\ blocked = Nothing
    /\ crashes = 0

-----------------------------------------------------------------------------
(* The rest of the backend, as far as the publisher sees it *)

\* OutboxRepository.add_event, in the transaction of the change it reports.
AddEvent(e) ==
    /\ status[e] = "none"
    /\ \E k \in {"command", "other"} :
        /\ kind' = [kind EXCEPT ![e] = k]
        /\ command' = [command EXCEPT ![e] =
                         IF k = "command" THEN "queued" ELSE "none"]
    /\ status' = [status EXCEPT ![e] = "pending"]
    /\ UNCHANGED <<stop, stream, up, transaction, crashes>>

\* The command rows that an open publisher transaction has updated.
LockedCommands == UNION {blocked[w] : w \in Workers}

\* cancel_command; of a blocked command by a request that read it queued. From
\* "queued" it also stands for a delivery or an expiry: the command is in a
\* state that cannot be blocked.
Cancel(e) ==
    /\ command[e] \in {"queued", "blocked_by_emergency_stop"}
    /\ e \notin LockedCommands
    /\ command' = [command EXCEPT ![e] = "cancelled"]
    /\ UNCHANGED <<status, kind, stop, stream, up, transaction, crashes>>

\* EmergencyStopService.activate and release; an activation while one is in
\* force only writes another notice and blocks nothing.
Activate ==
    /\ ~stop /\ LockedCommands = {}
    /\ stop' = TRUE
    /\ command' = [e \in Events |->
                     IF command[e] = "queued" THEN "blocked_by_emergency_stop"
                     ELSE command[e]]
    /\ UNCHANGED <<status, kind, stream, up, transaction, crashes>>

Release ==
    /\ stop
    /\ stop' = FALSE
    /\ UNCHANGED <<rows, stream, up, transaction, crashes>>

NatsChange ==
    /\ nats' = ~nats
    /\ UNCHANGED <<rows, stop, stored, window, up, transaction, crashes>>

\* duplicate_window: the stream forgets the id of a stored message.
WindowPasses(e) ==
    /\ e \in window /\ stored[e] < MaxStored
    /\ window' = window \ {e}
    /\ UNCHANGED <<rows, stop, nats, stored, up, transaction, crashes>>

-----------------------------------------------------------------------------
(* OutboxPublisher.process_batch *)

Locked == UNION {batch[w] : w \in Workers}

Oldest(S) == {e \in S : Cardinality({f \in S : f < e}) < BatchSize}

\* Mutant of Unpublished: get_unpublished without FOR UPDATE SKIP LOCKED.
UnpublishedByAnyone == Oldest({e \in Events : status[e] = "pending"})

\* get_unpublished: the oldest pending rows that nobody has locked.
Unpublished == Oldest({e \in Events : status[e] = "pending"} \ Locked)

Fetch(w) ==
    /\ w \in up /\ batch[w] = {}
    /\ Unpublished # {}
    /\ batch' = [batch EXCEPT ![w] = Unpublished]
    /\ todo' = [todo EXCEPT ![w] = Unpublished]
    /\ UNCHANGED <<rows, stop, stream, up, done, blocked, crashes>>

\* The event the loop has come to.
IsNext(w, e) == e \in todo[w] /\ \A f \in todo[w] : e <= f

Stopped(e) == kind[e] = "command" /\ stop

\* publish_js with the row's id as message id, then mark_published. The stream
\* drops an id that is in its duplicate window.
Publish(w, e) ==
    /\ IsNext(w, e) /\ ~Stopped(e)
    /\ nats
    /\ stored' = [stored EXCEPT ![e] = IF e \in window THEN @ ELSE @ + 1]
    /\ window' = window \cup {e}
    /\ done' = [done EXCEPT ![w] = @ \cup {e}]
    /\ todo' = [todo EXCEPT ![w] = @ \ {e}]
    /\ UNCHANGED <<rows, stop, nats, up, batch, blocked, crashes>>

\* Mutant of Block: an event whose command is blocked already stays in the batch.
BlockQueued(w, e) ==
    /\ IsNext(w, e) /\ Stopped(e)
    /\ command[e] = "queued"
    /\ blocked' = [blocked EXCEPT ![w] = @ \cup {e}]
    /\ todo' = [todo EXCEPT ![w] = @ \ {e}]
    /\ UNCHANGED <<rows, stop, stream, up, batch, done, crashes>>

\* The owner's stop is active: transition_command, then mark_failed. The row is
\* read and locked in one step; CommandLifecycle has the read apart.
Block(w, e) ==
    /\ IsNext(w, e) /\ Stopped(e)
    /\ command[e] \in {"queued", "blocked_by_emergency_stop"}
    /\ blocked' = [blocked EXCEPT ![w] = @ \cup {e}]
    /\ todo' = [todo EXCEPT ![w] = @ \ {e}]
    /\ UNCHANGED <<rows, stop, stream, up, batch, done, crashes>>

\* Rollback and end of worker w.
Ends(w) ==
    /\ up' = up \ {w}
    /\ batch' = [batch EXCEPT ![w] = {}]
    /\ todo' = [todo EXCEPT ![w] = {}]
    /\ done' = [done EXCEPT ![w] = {}]
    /\ blocked' = [blocked EXCEPT ![w] = {}]
    /\ UNCHANGED <<rows, stop, stream>>

\* The publish raises, or transition_command does (a cancelled command cannot
\* be blocked): the log call of the handler raises, that of start() as well.
Fail(w, e) ==
    /\ IsNext(w, e)
    /\ \/ ~Stopped(e) /\ ~nats
       \/ Stopped(e) /\ command[e] = "cancelled"
    /\ Ends(w)
    /\ UNCHANGED crashes

\* The process is killed, between two messages or before its commit.
Crash(w) ==
    /\ w \in up /\ crashes < MaxCrashes
    /\ Ends(w)
    /\ crashes' = crashes + 1

\* session.commit, and the unlocking of the rows.
Commit(w) ==
    /\ batch[w] # {} /\ todo[w] = {}
    /\ status' = [e \in Events |->
                    IF e \in done[w] THEN "published"
                    ELSE IF e \in blocked[w] THEN "failed"
                    ELSE status[e]]
    /\ command' = [e \in Events |->
                     IF e \in blocked[w] THEN "blocked_by_emergency_stop"
                     ELSE command[e]]
    /\ batch' = [batch EXCEPT ![w] = {}]
    /\ done' = [done EXCEPT ![w] = {}]
    /\ blocked' = [blocked EXCEPT ![w] = {}]
    /\ UNCHANGED <<kind, stop, stream, up, todo, crashes>>

\* Mutant of Restart: the worker waits for somebody to start it.
StaysDown(w) == FALSE /\ UNCHANGED vars

\* main() connects to NATS before it starts to poll.
Restart(w) ==
    /\ Restarted /\ w \notin up /\ nats
    /\ up' = up \cup {w}
    /\ UNCHANGED <<rows, stop, stream, transaction, crashes>>

Turn(w) == \E e \in Events : Publish(w, e) \/ Block(w, e) \/ Fail(w, e)

Next ==
    \/ \E e \in Events : AddEvent(e) \/ Cancel(e) \/ WindowPasses(e)
    \/ Activate \/ Release \/ NatsChange
    \/ \E w \in Workers :
        Fetch(w) \/ Turn(w) \/ Commit(w) \/ Crash(w) \/ Restart(w)

Spec == Init /\ [][Next]_vars

\* A running worker keeps polling and a batch takes finite time.
FairSpec ==
    /\ Spec
    /\ \A w \in Workers :
        /\ WF_vars(Fetch(w)) /\ WF_vars(Turn(w))
        /\ WF_vars(Commit(w)) /\ WF_vars(Restart(w))

-----------------------------------------------------------------------------
(* Properties *)

\* Nothing is marked published that the stream has not stored, and only the
\* event of a command that a stop blocked is given up: crashes, outages and a
\* second worker never lose an event. (process_batch)
NothingLost ==
    \A e \in Events :
        /\ status[e] = "published" => stored[e] > 0
        /\ status[e] = "failed" =>
                command[e] \in {"blocked_by_emergency_stop", "cancelled"}

\* An event is published again only while its transaction has not committed:
\* a second worker never sends what the first has committed, and sends nothing
\* of a blocked command. (get_unpublished locks the rows it returns)
NoRepublish ==
    [][\A e \in Events :
        status[e] \in {"published", "failed"} => stored'[e] = stored[e]]_vars

\* Once NATS stays up and the stop is released, every pending event goes out.
\* "the outbox publisher will automatically pick up pending events"
PendingGoOut ==
    <>[]nats /\ <>[]~stop =>
        \A e \in Events : status[e] = "pending" ~> status[e] # "pending"

\* The refinement mapping: messages in the stream are copies sent, and an event
\* is halted with its command.
Halted ==
    {e \in Events : command[e] \in {"blocked_by_emergency_stop", "cancelled"}}

Delivery ==
    INSTANCE OutboxDelivery WITH copies <- stored, halted <- Halted

\* Workers, batches, locks, the duplicate window and crashes implement the
\* delivery that OutboxDelivery promises: every step is a write, a sending of a
\* pending event, a settlement that is covered, or no step at all.
\* (outbox_events, process_batch)
DeliveryKept == Delivery!Spec

\* A pending event on which process_batch raises under a stop: its command is
\* cancelled and cannot be blocked.
Poison == \E e \in Events : status[e] = "pending" /\ command[e] = "cancelled"

\* Under a stop that stays, the events of others go out all the same, as long
\* as no pending event is that of a cancelled command: such an event raises in
\* every batch that holds it and takes the marks of the others with it.
\* "Always commit after processing a batch" (process_batch)
OthersGoOut ==
    <>[]nats /\ <>[](stop /\ ~Poison) =>
        \A e \in Events :
            status[e] = "pending" /\ kind[e] = "other" ~> status[e] # "pending"
=============================================================================
