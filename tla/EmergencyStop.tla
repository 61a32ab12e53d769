----------------------------- MODULE EmergencyStop -----------------------------
(***************************************************************************)
(* The emergency stop of one owner: the row in the database, its copy in   *)
(* Valkey, and the three places that ask is_active before they let a       *)
(* command go on: create_command, the outbox publisher and the gateway.    *)
(*                                                                         *)
(* is_active is not atomic (cache, then database, then cache again), the   *)
(* cache is written after the commits of activate and release, and every   *)
(* caller acts on the answer later. The steps are modelled apart.          *)
(***************************************************************************)
EXTENDS Naturals, FiniteSets

CONSTANTS
    Commands,        \* commands of the owner
    MaxActivations   \* bound: activations in a behaviour

ASSUME ActivationsAssumption == MaxActivations \in Nat

VARIABLES
    active,      \* emergency_stops.active
    cache,       \* Valkey holds the key emergency_stop:{owner}
    open,        \* an activation holds the row's lock
    found,       \* commands it found queued
    begun,       \* commands the gateway was about to send at the last commit
    activations, \* activations committed so far
    sets,        \* committed activations that have yet to set the cache
    deletes,     \* committed releases that have yet to delete the key
    call,        \* where the is_active call made for a command stands
    covered,     \* the stop was active when that call began and ever since
    row,         \* commands.state
    pipe,        \* where the command is between create_command and the device
    sends        \* sends of a command since the stop in force was committed

stop == <<active, cache, open, found, begun, activations, sets, deletes>>
checks == <<call, covered>>
pipeline == <<row, pipe, sends>>
vars == <<stop, checks, pipeline>>

Row == {"none", "queued", "blocked_by_emergency_stop"}

TypeOK ==
    /\ active \in BOOLEAN
    /\ cache \in BOOLEAN
    /\ open \in BOOLEAN
    /\ found \in SUBSET Commands
    /\ begun \in SUBSET Commands
    /\ activations \in Nat
    /\ sets \in Nat
    /\ deletes \in Nat
    /\ call \in [Commands -> {"idle", "miss", "fill", "yes", "no"}]
    /\ covered \in [Commands -> BOOLEAN]
    /\ row \in [Commands -> Row]
    /\ pipe \in [Commands -> {"api", "outbox", "nats", "checked", "gone"}]
    /\ sends \in [Commands -> Nat]

Init ==
    /\ active = FALSE /\ cache = FALSE /\ open = FALSE /\ found = {}
    /\ begun = {}
    /\ activations = 0 /\ sets = 0 /\ deletes = 0
    /\ call = [c \in Commands |-> "idle"]
    /\ covered = [c \in Commands |-> FALSE]
    /\ row = [c \in Commands |-> "none"]
    /\ pipe = [c \in Commands |-> "api"]
    /\ sends = [c \in Commands |-> 0]

-----------------------------------------------------------------------------
(* EmergencyStopService.activate *)

\* Lock the owner's row, flag it, and list the queued commands. An activation
\* that finds the stop active only adds another notification.
ActivateBegin ==
    /\ ~open /\ ~active
    /\ activations < MaxActivations
    /\ open' = TRUE
    /\ found' = {c \in Commands : row[c] = "queued"}
    /\ UNCHANGED <<active, cache, begun, activations, sets, deletes, checks,
                   pipeline>>

\* _block_commands: the commands found, if they are still queued.
Blocked(ids) ==
    [c \in Commands |->
        IF c \in ids /\ row[c] = "queued" THEN "blocked_by_emergency_stop"
        ELSE row[c]]

\* The gateway is past its checks of c, or in them with a cache miss or a "no",
\* and the state the row gets lets c pass.
Underway(c, state) ==
    \/ pipe[c] = "checked"
    \/ pipe[c] = "nats" /\ call[c] \in {"miss", "no"} /\ state = "queued"

\* One commit for the stop and the commands; the cache is set afterwards.
ActivateCommit ==
    /\ open
    /\ active' = TRUE
    /\ row' = Blocked(found)
    /\ open' = FALSE /\ found' = {}
    /\ begun' = {c \in Commands : Underway(c, Blocked(found)[c])}
    /\ sends' = [c \in Commands |-> 0]
    /\ activations' = activations + 1
    /\ sets' = sets + 1
    /\ UNCHANGED <<cache, deletes, checks, pipe>>

ActivateCacheSet ==
    /\ sets > 0
    /\ sets' = sets - 1
    /\ cache' = TRUE
    /\ UNCHANGED <<active, open, found, begun, activations, deletes, checks,
                   pipeline>>

-----------------------------------------------------------------------------
(* EmergencyStopService.release *)

\* The row lock keeps a release out of an open activation.
ReleaseCommit ==
    /\ active /\ ~open
    /\ active' = FALSE
    /\ deletes' = deletes + 1
    /\ covered' = [c \in Commands |-> FALSE]
    /\ begun' = {} /\ sends' = [c \in Commands |-> 0]
    /\ UNCHANGED <<cache, open, found, activations, sets, call, row, pipe>>

ReleaseCacheDelete ==
    /\ deletes > 0
    /\ deletes' = deletes - 1
    /\ cache' = FALSE
    /\ UNCHANGED <<active, open, found, begun, activations, sets, checks, pipeline>>

\* The API process stops between a commit and the cache operation after it.
CacheStepLost ==
    /\ \/ sets > 0 /\ sets' = sets - 1 /\ UNCHANGED deletes
       \/ deletes > 0 /\ deletes' = deletes - 1 /\ UNCHANGED sets
    /\ UNCHANGED <<active, cache, open, found, begun, activations, checks, pipeline>>

\* Mutant of CacheExpire: the entries are written without a TTL.
CacheKept == cache /\ UNCHANGED vars

\* Every write has a TTL, and Valkey evicts under memory pressure.
CacheExpire ==
    /\ cache
    /\ cache' = FALSE
    /\ UNCHANGED <<active, open, found, begun, activations, sets, deletes, checks,
                   pipeline>>

-----------------------------------------------------------------------------
(* EmergencyStopService.is_active, called for command c *)

CheckCache(c) ==
    /\ pipe[c] \in {"api", "outbox", "nats"}
    /\ call[c] = "idle"
    /\ call' = [call EXCEPT ![c] = IF cache THEN "yes" ELSE "miss"]
    /\ covered' = [covered EXCEPT ![c] = active]
    /\ UNCHANGED <<stop, pipeline>>

\* Mutant of CheckDatabase: a miss is answered without the database.
CheckCacheOnly(c) ==
    /\ call[c] = "miss"
    /\ call' = [call EXCEPT ![c] = "no"]
    /\ UNCHANGED <<stop, covered, pipeline>>

CheckDatabase(c) ==
    /\ call[c] = "miss"
    /\ call' = [call EXCEPT ![c] = IF active THEN "fill" ELSE "no"]
    /\ UNCHANGED <<stop, covered, pipeline>>

CheckFill(c) ==
    /\ call[c] = "fill"
    /\ cache' = TRUE
    /\ call' = [call EXCEPT ![c] = "yes"]
    /\ UNCHANGED <<active, open, found, begun, activations, sets, deletes, covered,
                   pipeline>>

\* The caller drops the answer: a stop it has nothing to block for (create is
\* refused, the gateway naks the message), or Valkey or the database raised.
CheckDropped(c) ==
    /\ call[c] # "idle" /\ pipe[c] # "checked"
    /\ call' = [call EXCEPT ![c] = "idle"]
    /\ covered' = [covered EXCEPT ![c] = FALSE]
    /\ UNCHANGED <<stop, pipeline>>

Answered(c, answer, at) ==
    /\ call[c] = answer /\ pipe[c] = at
    /\ call' = [call EXCEPT ![c] = "idle"]
    /\ covered' = [covered EXCEPT ![c] = FALSE]

-----------------------------------------------------------------------------
(* The callers *)

\* create_command past its trust check (module CommandRequests), or an
\* approval: the row and its outbox event.
CreateCommit(c) ==
    /\ Answered(c, "no", "api")
    /\ row' = [row EXCEPT ![c] = "queued"]
    /\ pipe' = [pipe EXCEPT ![c] = "outbox"]
    /\ UNCHANGED <<stop, sends>>

\* OutboxPublisher: block the command if it is still queued, fail the event.
PublisherBlock(c) ==
    /\ Answered(c, "yes", "outbox")
    /\ row' = Blocked({c})
    /\ pipe' = [pipe EXCEPT ![c] = "gone"]
    /\ UNCHANGED <<stop, sends>>

PublisherPublish(c) ==
    /\ Answered(c, "no", "outbox")
    /\ pipe' = [pipe EXCEPT ![c] = "nats"]
    /\ UNCHANGED <<stop, row, sends>>

\* nats_listener: a command whose pre-delivery check finds a row that is not
\* queued, or fails itself, is acked and gone.
GatewayDiscard(c) ==
    /\ Answered(c, "no", "nats")
    /\ pipe' = [pipe EXCEPT ![c] = "gone"]
    /\ UNCHANGED <<stop, row, sends>>

\* A queued command passes; the answer stays in use until the send.
GatewayCheck(c) ==
    /\ row[c] = "queued"
    /\ call[c] = "no" /\ pipe[c] = "nats"
    /\ pipe' = [pipe EXCEPT ![c] = "checked"]
    /\ UNCHANGED <<stop, checks, row, sends>>

\* The sends that count are those under a stop.
Counted(c) ==
    sends' = IF active THEN [sends EXCEPT ![c] = @ + 1] ELSE sends

\* Mutant of GatewaySend: a message that comes again is sent on the answer
\* its first delivery got.
GatewayResend(c, acked) ==
    /\ call[c] = "no" /\ pipe[c] = "checked"
    /\ Counted(c)
    /\ pipe' = [pipe EXCEPT ![c] = IF acked THEN "gone" ELSE "nats"]
    /\ UNCHANGED <<stop, checks, row>>

\* The message is acked, or comes again when the publish of the delivery or
\* the ack fails after the send.
GatewaySend(c, acked) ==
    /\ Answered(c, "no", "checked")
    /\ Counted(c)
    /\ pipe' = [pipe EXCEPT ![c] = IF acked THEN "gone" ELSE "nats"]
    /\ UNCHANGED <<stop, row>>

\* The send fails: nak, the message comes again.
GatewayNak(c) ==
    /\ Answered(c, "no", "checked")
    /\ pipe' = [pipe EXCEPT ![c] = "nats"]
    /\ UNCHANGED <<stop, row, sends>>

Owner == ActivateBegin \/ ReleaseCommit

Service ==
    \/ ActivateCommit \/ ActivateCacheSet \/ ReleaseCacheDelete \/ CacheExpire
    \/ \E c \in Commands :
        \/ CheckCache(c) \/ CheckDatabase(c) \/ CheckFill(c) \/ CheckDropped(c)
        \/ CreateCommit(c) \/ PublisherBlock(c) \/ PublisherPublish(c)
        \/ GatewayDiscard(c) \/ GatewayCheck(c)
        \/ GatewaySend(c, TRUE) \/ GatewaySend(c, FALSE) \/ GatewayNak(c)

Next == Owner \/ Service \/ CacheStepLost

Spec == Init /\ [][Next]_vars

\* The cache entry always has a TTL; a request runs to its end or dies.
FairSpec ==
    /\ Spec
    /\ WF_vars(CacheExpire)
    /\ WF_vars(ActivateCacheSet \/ ReleaseCacheDelete \/ CacheStepLost)
    /\ \A c \in Commands : WF_vars(CheckDatabase(c)) /\ WF_vars(CheckFill(c))

-----------------------------------------------------------------------------
(* Properties *)

\* is_active never answers "no" when the stop was in force for the whole call,
\* wherever the cache is between the commits of activate and release, and so
\* no command is past the gateway's check under a stop that covers the check.
NoStopOverlooked ==
    \A c \in Commands :
        covered[c] => active /\ call[c] # "no" /\ pipe[c] # "checked"

\* nats_listener does not look again between its checks and the send, so a
\* stop does not hold back everything; but it lets through at most one send of
\* a command, redeliveries included, and only if the gateway was already asking
\* for that command, and the stop did not block it, when the stop was
\* committed. A command created or published late, on an answer from before
\* the commit, does not reach the device under the stop.
OneStaleSend ==
    \A c \in Commands : sends[c] <= (IF c \in begun THEN 1 ELSE 0)

\* A cache entry that outlived its stop goes away for good once the stop stays
\* released: owners are not locked out for ever. (TTL of the two writers)
StaleEntryGoes == <>[]~active => <>[]~cache
=============================================================================
