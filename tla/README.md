# Formal models of veyaan-core-backend

TLA+ models of the backend's concurrent core, checked with TLC on small
instances and, where marked, proved with TLAPS for every value of the constants.
Every definition is written from the code under `src/app` and
`src/migrations`; `PROJECT.json` maps definitions to the lines they stand for.

Contents: [1 The system](#1-the-system), [2 Modules](#2-modules-and-the-code),
[3 Runs](#3-runs), [4 Fairness](#4-fairness), [5 Proofs](#5-proofs),
[6 Findings](#6-where-code-and-its-texts-disagree),
[7 What is not modelled](#7-what-is-not-modelled), [8 Plan](#8-plan).

## 1 The system

The backend takes commands from users, keeps them in PostgreSQL, and hands them
to devices over WebSockets. It runs as separate processes: the API, the
WebSocket gateway, the outbox publisher, the lifecycle consumer and the
scheduler. They share PostgreSQL and Valkey and talk over NATS.

| Component | State | Operations | Talks to |
|---|---|---|---|
| command state machine (`commands/state_machine.py`, migration 007) | `commands.state`, `command_state_events` | `transition_command`, the database trigger | all that move a command |
| command service (`commands/service.py`) | commands, tasks, idempotency keys | `create_command`, `cancel_command` | emergency stop, outbox, approvals |
| approvals (`approvals/service.py`) | `approvals.status`, deadline | `decide_approval` | commands, outbox, audit |
| emergency stop (`emergency_stop/service.py`) | one row per owner, its copy in Valkey | `activate`, `release`, `is_active` | commands, outbox, gateway |
| outbox and publisher (`events/outbox.py`, `workers/outbox_publisher.py`) | `outbox_events` | `get_unpublished`, `process_batch` | JetStream, emergency stop |
| gateway, connections (`websocket/gateway.py`) | `active_connections`, hash and presence keys in Valkey | handshake, `register`, `unregister`, notice callbacks | Valkey, devices, NATS |
| gateway, commands (`websocket/gateway.py`) | messages in flight | `nats_listener`, `_pre_delivery_check`, reports of the device | JetStream, PostgreSQL |
| lifecycle consumer (`workers/command_consumer.py`) | command and task states, dedup keys | four handlers, one per subject | JetStream, PostgreSQL |
| scheduler (`workers/scheduler.py`) | | expiry of approvals, commands, pairing requests | PostgreSQL |
| pairing and revocation (`devices/service.py`) | `pairing_requests`, `devices` | `start_pairing`, `confirm_pairing`, `revoke_device` | outbox, gateway |
| rate limiter (`security/rate_limiter.py`, `cache/__init__.py`) | a counter per client | `rate_limit_check` | Valkey |
| token check (`auth/supabase.py`) | the provider's keys, cached for an hour in each process | `verify_token`, `get_jwks` | the identity provider |
| users and sessions (`auth/dependencies.py`, `users/repository.py`, `database/session.py`) | `users`, the connections of the pool | `get_current_user_context`, `get_db_session` | every route |
| lists (`commands`, `approvals`, `audit`, `notifications`) | rows by `created_at` | the paged `GET` routes | PostgreSQL |

How they interact: a command is created with an outbox row in one transaction
(or with an approval, whose approval writes the row); the publisher sends the
row to the `COMMANDS` work queue; the gateway checks the stop, the device and the
command and sends it; the device's reports go through JetStream to the consumer,
which moves the command on. Stops and revocations are outbox events too, and
reach the gateway as core NATS messages.

What is hard here, and what correctness means for each part:

* **Commands.** Six actors move one row. `cancel_command` and the publisher
  check a view loaded before they hold the lock (SQLAlchemy's identity map keeps
  it), `decide_approval` locks nothing, and the Python table and the trigger's
  table differ. Wanted: final states are final, nothing that needs approval goes
  out without it, two decisions do not both count, the task tells the same story
  as the command, a redelivered report counts once, no queued command is
  forgotten.
* **Emergency stop.** The cache is written after the commits, `is_active` is
  three steps, and each caller acts on the answer later. Wanted: a stop that
  covers the whole check is not overlooked, what slips through between check
  and send is bounded, a stale entry goes.
* **Outbox.** Workers die between a publish and the commit; several run at once.
  Wanted: nothing lost, nothing committed is sent again, pending events go out.
* **Connections.** Every await lets other handlers run; Valkey fails; notices
  are lost. Wanted: who is served is in the table, where notices find it, an
  old connection's clean-up leaves the new one alone, dead entries go.
* **Requests and pairing.** Repeated and concurrent calls meet on one key or one
  row. Wanted: one command per key, one device per request, every tried code
  counted, answers that are true.
* **Rate limit.** Routes share a counter. Wanted: no stretch of time lets more
  through than a route's limit, and a client is told how long to wait.
* **Token check.** Key sets are used long after they were fetched, and concurrent
  fetches overtake each other. Wanted: a key that was replaced dies, its
  successor is known, both within a bounded time.
* **Users and sessions.** A request has two transactions and holds up to two
  connections; the account made by the first is invisible to the second. Wanted:
  one account per user, true answers, connections given back, nobody waits for
  ever.
* **Lists.** Total and rows are two snapshots, offsets shift under the client.
  Wanted: what a client that follows `has_next` can miss is bounded by what
  moved.

`PROJECT.json` lists these as hazards, each at its line with the properties that
cover it.

## 2 Modules and the code

A transaction that locks a row before reading it is one step. Code that reads,
awaits or unlocks, and uses what it read later, is several steps. The gateway is
one event loop: the code between two awaits is one step.

| Module | Models | Proofs in |
|---|---|---|
| `CommandStates` | states, the Python table, the trigger's table, `Outcome` of a transition for a given view and row | used by the next |
| `CommandLife` | abstract: which stage of a command can follow which, with its verdict and its hand-over, without queues, processes or stale reads | refined by the next, `LifeRefined` |
| `CommandLifecycle` | commands through API, approvals, publisher, gateway, device, consumer, scheduler and stop | `CommandLifecycleProofs` |
| `EmergencyStop` | one owner's row and cache, `is_active` and its three callers | `EmergencyStopProofs` |
| `OutboxPublisher` | rows, batches of several workers, JetStream and its duplicate window | `OutboxPublisherProofs` |
| `DeviceGateway` | one device's connections at one gateway, revocation, stop notices | `DeviceGatewayProofs` |
| `DevicePairing` | pairing requests of one identity, confirm calls, the sweep | `DevicePairingProofs` |
| `CommandRequests` | concurrent `POST /v1/commands` with idempotency keys | `CommandRequestsProofs` |
| `OutboxDelivery` | abstract: what the outbox promises, without workers, batches, locks or crashes | refined by `OutboxPublisher`, `DeliveryRefined` |
| `RateLimiter` | one client's counter, routes with limits and windows | with the next |
| `ApiEdge` | the limiter and, behind it, the token check with its key cache | `ApiProofs` |
| `RequestSessions` | authenticated requests: account, sessions, pool | `RequestSessionsProofs` |
| `Listings` | a client reading a list page by page under writers | `ApiProofs` |

`MC*` modules are the instances for TLC: the sets that a `.cfg` cannot write and,
for the gateway's safety run, the symmetry of connections.

**CommandLifecycle.** `state`, `task`, `events`, `approval`, `outbox` are
columns; `audit` is the decisions with an audit row; `cancelling`, `deciding`
and `pubView` are requests that hold a view; `ready`, `gateway`, `received` are
the message in the work queue, where the gateway is with it, and whether the
device has it; `sent` and `inbox` are the device's reports and the deliveries
each has left. `Transition` applies `Outcome`: a refusal by Python is acked, a
refusal by the trigger rolls back and is naked. `serving` says that nothing keeps
publisher and gateway from their work: the device is connected, no stop of its
owner is in force, no pending event makes the publisher's batch fail, and the
services answer; it may change at any time, and only while it is FALSE do the
publisher block or abort, the gateway nak, its check fail, and `_block_commands`
run. `RunTasks` is a whole sweep of
the scheduler: with `InfoEnabled` (what `main()` configures) the report of what
was expired raises before the commit and everything is rolled back. Abstracted:
`is_active` may answer anything (module `EmergencyStop` says what it answers), the
publisher's batch is one row (module `OutboxPublisher` has batches), a process
that dies is the rollback of its transaction, and `create_command` gets past its
trust check (module `CommandRequests` has the check). `Life` maps its state to
`CommandLife`: the row's state is the stage, `received` the hand-over. Of the two
transition tables that promise has what both admit (a delivered command neither
expires nor fails), and beside it the cancellation of a blocked command, which
only a stale view makes possible.

**EmergencyStop.** `call` is where an `is_active` call stands (`miss` after the
cache, `fill` before the write). `sets` and `deletes` count committed
activations and releases whose cache operation is outstanding; `covered` is a
history variable, TRUE while the stop has been in force since the call began.
`begun` and `sends` are history too: the commands that the gateway was already
asking for when the stop was committed (`Underway`), and how often a command was
sent under the stop, redeliveries included.

**OutboxPublisher.** `batch`, `todo`, `done`, `blocked` are a worker's open
transaction. `Turn` is one event of the batch: published, blocked under a stop,
or failed; a failure ends the worker because its handler calls a standard-library
logger with keyword arguments, which raises `TypeError`. `Restarted` says whether
the container is started again (`restart: unless-stopped` in the production
compose file, nothing in `docker-compose.yml`). JetStream is external: a message
whose id is in the window is dropped. `Delivery` maps its state to
`OutboxDelivery`: messages stored are copies sent, and an event is halted when its
command is blocked or cancelled.

**DeviceGateway.** `phase` follows `websocket_endpoint`; `leaving` follows the
two calls of `unregister` that can run for a connection. `overlapped` is a
history variable: the connections whose `register` call ran while another one
waited for the close of an old connection (`Meets`). `security` and
`notices` are messages that can be lost. A signature or nonce that fails is the
choice of leaving the handshake.

**DevicePairing.** `lock` is PostgreSQL's row lock, `seen` what a call read under
it. The sweep keeps its rows locked until the scheduler's transaction ends.

**CommandRequests.** `inserted` are uncommitted rows: an insert waits for one
with the same key and fails if it commits. A request can be turned away for its
key ("conflict", or "taken", which is a 500), for what it asks ("refused"), or by
another Python error ("error"): parameters that the schema of their type refuses
raise a `ValidationError`, which `ErrorHandlingMiddleware` answers with 500, an
unknown type is a refusal (`Invalid` has both). `StatusIsEnum` says whether a loaded
row has an enum in `trust_status`; the column is a `String`, so in production it
does not, and every request of a trusted device ends at
`device.trust_status.value`. RequestKeys assumes TRUE, what the unit tests
assume, so that the rest of the handler can be studied (section 6).

**RateLimiter.** Time is ticks; `admitted` is a sliding log that only the
properties read: of each request passed on its route, what it was counted as, and
its age.

**ApiEdge** extends `RateLimiter`: `Call` is the limiter's `Request`, and what it
admits goes to a handler in `verify_token`, in the order of the middleware in
`main.py`. Keys are numbered in the order the provider takes them into use; it
publishes the present one, the hardest case. `Verify` reads the cache or sends
the fetch, `Respond` is the provider, `Store` the receipt of its answer, in any
order among the handlers. `FetchTime` is how long an answer may be on its way
before httpx gives up: the clock does not pass it. Tokens have nothing wrong but,
perhaps, a key that the set does not have. `_find_key` converts a key it finds
with `jwt.algorithms`, which python-jose 3.3.0 does not have: such a request ends
in a 500, in the model at "error" (`JoseHasAlgorithms = FALSE`, in the run; a
library with the attribute would give "accepted"). The properties are about which
key is found (`Found`), so they hold of either; the proofs take both.

**RequestSessions.** `at` follows a request from the token to its answer.
`inserting` are uncommitted accounts: the unique index makes another insert wait,
then fail. `session` and `service` are the connections of the request's session
and of the one its service opens; `get_db_session` commits after the handler has
returned and before the answer goes out. Kinds of requests: "context" needs no
second session, "read" and "write" do, and a write stores a row with a foreign
key to `users`. `Break` is a database error, or the process dying with its
transactions. Its requests start past the token check, which is taken to let
them in (module `ApiEdge` has what it does with the pinned library). `creators`
and `late` are read by properties only. A user who is
"inactive" passes like an active one.

**Listings.** Rows are numbered by `created_at`, which is `now()` and so the start
of the transaction; each of the four tables gets at most one row of a user from
one transaction, so the numbers differ. `match` is the row's relation to the
client's filter: on columns that never change it is fixed, on the state it goes
from "no" to "yes" to "left". A command does not come back into a state, the
trigger sees to that; an approval does, when a decision that read it as pending
writes over what the sweep or another decision made of it: `Return`, at most
`MaxReturns` times. `Count` and
`Select` are the two statements of a page; `Select` includes the client's next
request. `arrived` and `left` count what moved.

## 3 Runs

`tlc -config <cfg> <module>`; names, modules and properties are in
`PROJECT.json`. Deadlock is not checked: every behaviour may end with all
requests answered and all bounds used up. Sizes are distinct states.

| Run | Bounds | States | Shows |
|---|---|---|---|
| LifecycleReports | 1 command, reports accepted, progress, success, 2 deliveries each, 8 events, `DisturbedSpec` | 765 000 | `TaskAgrees`, `OneEventPerKey`, `LifeKept` |
| LifecycleRaces | 1 command, 1 cancellation in flight, a device that may decline, `ConnectedSpec` | 396 000 | `ApprovalGate`, `OneVerdict`, `FinalStatesStay`, `NoCommandForgotten` |
| StopChecks | 2 commands, 2 activations, fair | 92 000 | `NoStopOverlooked`, `OneStaleSend`, `StaleEntryGoes` |
| OutboxWorkers | 2 events, 2 workers, batches of up to 2, 1 kill, 2 messages per event, fair | 56 000 | `PendingGoOut`, `OthersGoOut`, `DeliveryKept` |
| GatewaySafety | 3 connections, 1 revocation, 1 stop, every fault | 1 446 000 | `ServedIsMapped`, `OpenStaysMapped` |
| GatewayLiveness | 2 connections, 2 revocations, 1 stop, no faults, fair | 157 000 | `DeadEntriesGo`, `StopHeard`, `RevocationHeard` |
| PairingCalls | 1 request, 4 calls, 2 attempts, fair | 118 000 | `AttemptsCounted`, `PairedOnce`, `DecidedStays`, `CallsAnswered` |
| RequestKeys | 3 requests, 2 keys, 2 types, fair | 245 000 | `OneCommandPerKey`, `AnswerIsTrue`, `LosesToACommand`, `RequestsAnswered` |
| EdgeRequests | 2 routes, limits 2 and 3, windows 3 and 2, 5 requests, 2 handlers, cache life 2, answers take up to 1, 2 keys | 2 230 000 | `WindowBounded`, `RetryAfterHolds`, `ReplacedKeyDies`, `NewKeyLearned` |
| AccountRaces | 3 requests, 2 users, 2 connections, fair | 316 000 | `AccountOnce`, `AnswersHold`, `PoolReturned`, `SuspendedShutOut`, `RequestsEnd` |
| PageWalks | 5 rows, pages of 2, 1 return, every list and filter | 8 719 000 | `NoHoles`, `LossBounded`, `NextPageHasRows` |

The type invariants are proved (section 5) and not repeated in the runs.
`DeliveryKept` contains the proved `NothingLost` and `NoRepublish`. `LifeKept` is
the refinement of `CommandLife`; cancellations and decisions, which the bounds of
LifecycleReports leave out or keep few, are in its proof. `DisturbedSpec` is
`Spec` with the service disturbed from the first step on: faults need
`~serving`, nothing else reads it, so no other step is lost and half the states
go.

One more run, LifecycleLost, ends in a counterexample on purpose: section 6.

Why the bounds are enough for what they are for:

* No action of `CommandLifecycle` relates two commands except the sweep and the
  activation, which treat each by itself (a refused one rolls all back, a
  subset of the behaviours of one). The races are among actors on one row, and
  all of them are there: two decisions, a cancellation, publisher, gateway,
  consumer, scheduler, stop. Two deliveries give the redelivery after a lost ack
  as well as a report that is given up. `MaxEvents` (7 and 8) is as long as a
  history with those reports gets.
* `InfoEnabled = FALSE` in the passing runs of the lifecycle and of pairing lets
  the sweep commit: with TRUE a sweep that finds something changes nothing, so
  the behaviours are a subset.
* Two activations give an activation, a release and a second stop, which is what
  a late cache operation needs; each command passes the three callers, and the
  second command makes calls of `is_active` overlap.
* Two events in batches of up to two: both in one batch, or one with each
  worker. Two messages per event is a duplicate after a lost commit.
* Three connections give an old one and two that replace it at once, each with
  two calls of `unregister`; two are enough for the clean-up of an old one beside
  a new one (GatewayLiveness). The proofs cover any number. GatewaySafety has
  every fault, the expiry of the hash included; `CalmSpec`, which GatewayLiveness
  checks, leaves out lost notices, expiries, restarts and failures of Valkey.
* Three calls reach the limit of two attempts and pass it, the fourth comes
  after.
* Only requests with one key meet; three of them give one that inserts, one that
  waits and one that comes later, and the second key one that none of it touches.
* Five requests pass the higher limit and pass the lower one twice; the log
  keeps three ticks, as long as the longest window. Two handlers give a fetch
  that overtakes another across a rotation; the proofs cover any number.
* Three requests on two connections: two that hold one each and wait for the
  other's, with a third that finds none, and, with two users, a wait for a
  connection and a wait for an account in one circle.
* Five rows in pages of two: three pages, a row that is pushed or pulled across
  the edge of a page, and rows left over after either.

## 4 Fairness

* Worker loops (publisher, gateway listener) poll for ever: `PipelineFairness` is
  weak fairness of their steps while `serving`. Nothing is assumed of them while
  the device is away, a stop is in force, a poisoned event rolls back every batch,
  or a service does not answer: these may last, and then the command waits.
  `NoCommandForgotten` promises the hand-over only if `serving` holds from some
  time on; what happened before may have been anything, but for the database
  error in the gateway's check, which `ConnectedSpec` leaves out and run
  LifecycleLost has.
* `EmergencyStop`: an entry in Valkey always has a TTL; a request goes on or
  dies.
* `OutboxPublisher`: a running worker polls, a batch ends, a worker is started
  again if `Restarted`. Nothing is assumed of NATS; the property assumes it
  stays up from some point.
* `DeviceGateway`: the event loop serves every handler and callback. Nothing
  makes a device connect or an owner act, and a closed socket is noticed.
* `DevicePairing`: transactions end, and PostgreSQL grants a row lock in the
  order of its queue, so a waiter is not passed over for ever (strong fairness
  of `Lock`).
* `CommandRequests`: handlers are served; an insert goes on when the one it
  waits for has ended.
* `RequestSessions`: handlers are served, and a session that waits for a
  connection while none is free gives up after the pool's timeout (30 s, the
  default that `get_engine` leaves in place). Nothing makes a client send a
  request. Without the timeout `RequestsEnd` fails, which is its mutant.
* `Listings` and `ApiEdge` state safety only.

## 5 Proofs

Check with `tlapm <module>`. The constants are only assumed to be what the
`ASSUME`s of each module say (any sets of commands, events, workers, connections,
calls or requests, finite or not; any bounds).

* **CommandLifecycleProofs.** `TypeCorrect`. `FinalStatesAreFinal`: every change
  of a state is one the trigger allows or the creation of the row
  (`StepMoves`, from `OutcomeFollowsTrigger`), and the trigger leaves no final
  state; no invariant beyond types is needed, which is why stale views do no
  harm here. `TaskAgreement` from `TaskInv`, the property with the states in
  which a task is untouched spelled out. `ApprovalGateHolds` and `OneVerdictHolds`
  from `GateInv`: without a committed approval the outbox row, the message, the
  gateway and the publisher know nothing of the command; a rejection excludes
  an approval because both have to move the command out of
  `awaiting_approval` under the row's lock. `OneEventPerKeyHolds` from `KeyInv`:
  three handlers look for the key, the fourth, for progress, only at the state,
  so the invariant adds that a `progress_first` row means a state from running
  on, which no move leaves for acknowledged (`StartedStays`); every other step
  appends rows without a key (`StepKeys`). `LifeRefined` from `GateInv` and
  `HandInv`: a message past the gateway's check belongs to a command that was
  queued, a delivered report in the stream and every state it leads to mean that
  the device has the command, and a rejected row has its verdict. With these,
  each step is a step of `CommandLife` or none (`StepKeepsLife`); a transition
  that saw the row as it is moves where both tables agree (`SharedMove`), one
  with a stale view where the trigger lets it (`TransitionRow`).
* **EmergencyStopProofs.** `TypeCorrect`. `StopNeverOverlooked` from `Sound`: a
  covered call has not answered no, and a command past the gateway's check
  still holds the no it was let through with. `StaleSendIsOne` from `Graced`: under
  a stop, a command that the gateway can still send (`Able`) is one of `begun`
  that has not been sent; a redelivery asks again, and a call that began under the
  stop does not answer no (`Sound`).
* **OutboxPublisherProofs.** `TypeCorrect`. `NothingIsLost` and
  `CommittedNotResent` from `OutboxInv`: rows of a batch are pending, batches of
  two workers are disjoint (SKIP LOCKED), what a worker marked published is
  stored, and so is every id in the duplicate window. `DeliveryRefined`:
  the same invariant, with the fact that what is not written has not been sent,
  makes every step a step of `OutboxDelivery` or none (`StepKeepsDelivery`).
* **DeviceGatewayProofs.** `TypeCorrect`. `ServedAreMapped` from `Alone`: when
  two connections that did not meet another are past the head of `register`, one
  of them is closed, so nobody takes the entry of an open one; the clean-up that
  could take it is excluded by `Owned`. `OpenConnectionsStay` from `Owned`: the handler calls
  `unregister` last, and the callback closes the socket first, so nobody
  unregisters a connection that is open and served.
* **DevicePairingProofs.** `TypeCorrect`, `PairedOnceHolds`, `DecidedStaysHolds`
  from `IInv`: a call that runs holds the row and has seen it as it is
  (`SeesRow`, the point of the lock), the sweep holds pending rows only, and
  counters of pending requests are in range. `AttemptsCountedHolds` from
  `Counted`: each answer that judges a code raises the counter of the row the
  call has locked, so the calls told so are finitely many and no more than the
  counter and the limit.
* **CommandRequestsProofs.** `TypeCorrect`; `OneCommandPerKeyHolds` from
  `Distinct` (committed and uncommitted rows have different keys, which the
  unique index maintains); `AnswerIsTrueHolds` with `Unanswered`;
  `LosersLoseToACommand`: who is turned away for a key met a committed command,
  and commands stay. These hold for either reading of `trust_status`; for the
  string that the column loads as, `StringColumnCreatesNothing`, from
  `PassedCheck`, says that nobody gets past the device check.
* **RequestSessionsProofs.** Types and the four safety properties, from `IInv`: where a
  request stands says what it holds (`Places`), connections are disjoint
  (`Held`), there is one open insert per user and none beside a committed
  account (`Inserts`), and a late request has not passed the lookup (`Late`).
  Every failing branch goes through one lemma, `FailKeeps`.
* **ApiProofs.** Of `ApiEdge`: `TypeCorrect`; `RetryAfterTrue` from `KeyLives`
  (after a refusal, time to live and quiet time add up to what was told);
  `WindowsBounded` from `Log`: what was passed on within the shortest window was
  counted by the key Valkey has now, each under a number of its own, so a route
  has no more than its limit of them; `ReplacedKeysDie` and `NewKeysLearned` from
  `Answers` and `Cache`: an answer is as outdated as it has been on its way, the
  cache at most its age and one answer more. No assumption on the order of answers is needed.
  Of `Listings`: `ListTypeCorrect`, `NoHolesHolds`, `LossBoundedHolds` and
  `NextPagesHaveRows` from `ListIInv`, for any number of rows and any page size.
  Its parts: a row comes and goes once, and once more for each return (`RowsInv`);
  of the rows that were there from the start, those at a place the offset has
  passed are received, have left and come back, or were pushed there by one that
  left (`Holes`); the total is too low by at most what
  arrived after the count (`Loss`) and too high only if rows left
  (`Announced`). The `Rank` lemmas say how the place of a row, a cardinality,
  moves when one row is added to or taken from the list; they take the place of
  an induction over rows.

Only model-checked: everything under fairness (`NoCommandForgotten`,
`StaleEntryGoes`, `PendingGoOut`, `DeadEntriesGo`, `StopHeard`,
`RevocationHeard`, `CallsAnswered`, `RequestsAnswered`, `RequestsEnd`,
`OthersGoOut`), which the prover does not handle. Every safety property of a
passing run is stated by a theorem.

## 6 Where code and its texts disagree

Run LifecycleLost is expected to end in a counterexample to `NoCommandForgotten`:
a database error in `_pre_delivery_check` acks the message (`gateway.py:626`), so
the command stays queued and is never sent, though the runbook says no commands
are lost. `PROJECT.json` quotes the sentence under `findings`.

The models contain more behaviour of this kind, each at the action named:

* Under a stop, the event of a cancelled command cannot be blocked; the handler
  raises and rolls back every batch that holds it (`outbox_publisher.py:74`), the
  events of other owners with it, though line 104 says that a batch is always
  committed. `OthersGoOut` says what holds: they go out when no such event is
  pending.
* `trust_status` is a `String` column and loads as `str`, which has no `value`:
  every request of a trusted device ends in an error (`commands/service.py:35`;
  `CheckDevice` with `StatusIsEnum = FALSE`), though `QA_TEST_PLAN.md:94` expects
  201.
* The first request of a new user cannot store anything that refers to the
  account: the service's session does not see it, the foreign key fails, and the
  rollback takes the account away, so a client that only repeats such a request
  never gets through (`auth/dependencies.py:30`; `Write`), though
  `QA_TEST_PLAN.md:85` expects 200 of a confirmed pairing.
* Every token whose key is found ends in a 500: `_find_key` uses `jwt.algorithms`
  (`supabase.py:52`; `Judge`), which python-jose 3.3.0, the version that
  `requirements.txt:9` pins, does not have, and an `AttributeError` is no
  `JWTError`; `QA_TEST_PLAN.md:76` expects 200 of a valid token. Read so, no
  authenticated route works, and the modules of what lies behind show what the
  code does once this is repaired.
* Parameters that the schema of their type refuses are answered with 500, not as
  an invalid request (`commands/service.py:71`; `Invalid`).
* An answer of the provider that was overtaken is stored over the newer one and
  counts as fresh (`supabase.py:24`; `Store`). `ReplacedKeyDies` says what holds.
* A list can lose rows to a commit between its two statements or to rows that
  leave the filter (`commands/repository.py:167`; `Count`, `Move`, `Return`), and pages of
  notifications can be empty (`notifications/service.py:73`; `NotificationList`).
* A command without `expires_at` is never sent, because the message requires one
  (`messages.py:71`; `GatewaySend`, `GatewayFault`).
* The scheduler's report raises before its commit, so nothing expires while INFO
  records are enabled (`scheduler.py:51`; `LogsNothing`).
* A device's refusal does not close its command: the trigger does not know
  delivered to failed (`command_consumer.py:191`; `Outcome`).
* A result handled before the progress report is acked and dropped
  (`command_consumer.py:311`; `HandleRefused`).
* A cancellation that read the command before a stop moves it from blocked to
  cancelled, although the state is in `TERMINAL_STATES`
  (`commands/service.py:162`; `CancelCommit`). `FinalStatesStay` says what holds.
* A stop that commits between the gateway's check and its send does not hold the
  command back (`gateway.py:368`). `OneStaleSend` says what holds.
* A cache write of an activation may land after the delete of a release
  (`emergency_stop/service.py:159`). `StaleEntryGoes` says that it goes.
* Without a restart policy a failed publish ends the worker for good
  (`outbox_publisher.py:94`; `Restarted = FALSE`).
* Two connections that replace a third both end up served, one of them in no
  table (`gateway.py:69`; `Welcome`, `Replace`). `ServedIsMapped` says what holds.
* `unregister` may delete the hash that a new connection has just written
  (`gateway.py:86`; `UnregisterRead`, `UnregisterHash`).
* A connection between its trust check and its registration misses the notice of
  a revocation and stays open (`gateway.py:294`). `RevocationHeard` says what
  holds.
* A second pairing request of an identity makes a second trusted device
  (`devices/service.py:142`; `Pair`).
* A repeated request with its own key ends in an error, because `repo.get_task`
  does not exist (`commands/service.py:55`; `Lookup`), and one that loses at the
  constraint in an unhandled `IntegrityError` (`Insert`), though
  `QA_TEST_PLAN.md:99` expects the same command for the same key.
* Routes with different windows share one expiry, so the longer window is not
  kept (`cache/__init__.py:127`). `WindowBounded` says what holds.

## 7 What is not modelled

* `_detect_stale_device_presence` of the scheduler, which writes only
  `last_seen_at`.
* A second consumer process: the deployment files start one, and `_is_duplicate`
  relies on it (it looks for a key in the event's metadata; the unique column
  `deduplication_key` is never written).
* `ApprovalService.create_approval`, which no route calls.
* Object storage, health, metrics and logging: pure I/O or read-only.
* `NotificationService.create`, `mark_delivered` and `mark_failed`, `UserService`,
  `get_optional_user_context`, the classes of `domain_errors.py`, and the reading
  and moving methods of `CommandRepository` that the services have replaced:
  nothing in the repository calls them.
* Rows that share a `created_at`: the state events of one transaction are listed
  in no particular order (`commands/repository.py:180`).
* Several API processes: each has its own pool and key cache; accounts are
  shared, and the requests of `RequestSessions` may as well be those of several
  processes as far as accounts are concerned.
* The contents of messages, signatures, codes and tokens; a check of one is a
  choice between its outcomes.
* Valkey losing its data while it runs, and NATS losing a stored message.

## 8 Plan

Done, in this order: state machine and lifecycle; stop; outbox; gateway; pairing;
requests; rate limiter; their safety theorems; the outbox as a refinement of
`OutboxDelivery`; the edge of the API; sessions and accounts; lists; theorems for
the remaining safety properties; the lifecycle as a refinement of `CommandLife`.

Next:

1. Consequences of `CommandLife` proved once on the abstract level (what was
   handed over was approved if it had to be).
2. Safety cores of the liveness properties: what a step may not undo on the way
   (a pending outbox row, a queued request), as action properties.
3. A composition of `EmergencyStop` with the notices of `OutboxPublisher` and
   `DeviceGateway`, so that a stop's whole way to the device is one behaviour.
4. The stale presence sweep of the scheduler.
