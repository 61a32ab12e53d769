---------------------------- MODULE CommandRequests ----------------------------
(***************************************************************************)
(* POST /v1/commands for one device: concurrent and repeated requests that *)
(* carry idempotency keys. The lookup of the key and the insert are two    *)
(* statements of one transaction; what orders two requests with one key is *)
(* the constraint uq_device_idempotency alone, whose index makes an insert *)
(* wait for an uncommitted one of the same key.                            *)
(***************************************************************************)
EXTENDS Naturals

CONSTANTS
    Requests,      \* requests, a client's repetitions included
    Keys,          \* idempotency keys
    Types,         \* command types
    StatusIsEnum   \* a loaded row has a DeviceStatus in trust_status

\* devices.trust_status is a String column, which loads as str; the unit
\* tests give create_command an object with a "value", as for an Enum column.
ASSUME StatusAssumption == StatusIsEnum \in BOOLEAN

VARIABLES
    trusted,   \* devices.trust_status is trusted
    stop,      \* is_active answers True
    key,       \* idempotency_key of the request
    type,      \* its command_type
    at,        \* where the handler is
    reply,     \* its answer
    inserted,  \* commands inserted by open transactions, named by request
    commands   \* commands committed, each with its task, its first events and
               \* an outbox row or an approval (module CommandLifecycle)

inputs == <<key, type>>
vars == <<trusted, stop, inputs, at, reply, inserted, commands>>

\* "refused" 403, 404, 422 or 423; "conflict" 409; "taken" a 500 because the key
\* is there; "error" a 500 from another Python error; "failed" a service or the
\* process is lost.
Reply == {"none", "created", "refused", "conflict", "taken", "error", "failed"}

TypeOK ==
    /\ trusted \in BOOLEAN
    /\ stop \in BOOLEAN
    /\ key \in [Requests -> Keys]
    /\ type \in [Requests -> Types]
    /\ at \in [Requests -> {"start", "stop", "lookup", "insert", "commit", "done"}]
    /\ reply \in [Requests -> Reply]
    /\ inserted = {r \in Requests : at[r] = "commit"}
    /\ commands \in SUBSET Requests

Init ==
    /\ trusted = TRUE /\ stop = FALSE
    /\ key \in [Requests -> Keys]
    /\ type \in [Requests -> Types]
    /\ at = [r \in Requests |-> "start"]
    /\ reply = [r \in Requests |-> "none"]
    /\ inserted = {}
    /\ commands = {}

-----------------------------------------------------------------------------
(* CommandService.create_command *)

Goes(r, place) ==
    /\ at' = [at EXCEPT ![r] = place]
    /\ UNCHANGED reply

Replies(r, answer) ==
    /\ at' = [at EXCEPT ![r] = "done"]
    /\ reply' = [reply EXCEPT ![r] = answer]

\* The device row, then its trust_status.value.
CheckDevice(r) ==
    /\ at[r] = "start"
    /\ IF StatusIsEnum /\ trusted THEN Goes(r, "stop")
       ELSE Replies(r, IF StatusIsEnum THEN "refused" ELSE "error")
    /\ UNCHANGED <<trusted, stop, inputs, inserted, commands>>

\* is_active, taken as exact (module EmergencyStop).
CheckStop(r) ==
    /\ at[r] = "stop"
    /\ IF stop THEN Replies(r, "refused") ELSE Goes(r, "lookup")
    /\ UNCHANGED <<trusted, stop, inputs, inserted, commands>>

\* A key that is there answers for itself: another type is a conflict, the same
\* type goes to repo.get_task, which CommandRepository does not define.
Lookup(r) ==
    /\ at[r] = "lookup"
    /\ \/ /\ \A q \in commands : key[q] # key[r]
          /\ Goes(r, "insert")
       \/ \E q \in commands :
            /\ key[q] = key[r]
            /\ Replies(r, IF type[q] # type[r] THEN "conflict" ELSE "taken")
    /\ UNCHANGED <<trusted, stop, inputs, inserted, commands>>

\* An unknown type is an ApiError; parameters that its schema refuses raise a
\* ValidationError that no handler of the API maps.
Invalid(r) ==
    /\ at[r] = "insert"
    /\ Replies(r, "refused") \/ Replies(r, "error")
    /\ UNCHANGED <<trusted, stop, inputs, inserted, commands>>

\* Mutant of Insert: the table has no constraint on the key.
InsertFreely(r) ==
    /\ at[r] = "insert"
    /\ Goes(r, "commit")
    /\ inserted' = inserted \cup {r}
    /\ UNCHANGED <<trusted, stop, inputs, commands>>

\* Mutant of Insert: it does not wait for a transaction that may roll back.
InsertNoWait(r) ==
    /\ at[r] = "insert"
    /\ \/ /\ \A q \in commands \cup inserted : key[q] # key[r]
          /\ Goes(r, "commit")
          /\ inserted' = inserted \cup {r}
       \/ /\ \E q \in commands \cup inserted : key[q] = key[r]
          /\ Replies(r, "taken")
          /\ UNCHANGED inserted
    /\ UNCHANGED <<trusted, stop, inputs, commands>>

\* Mutant of Insert: the IntegrityError is taken for success.
InsertSwallowed(r) ==
    /\ at[r] = "insert"
    /\ \A q \in inserted : key[q] # key[r]
    /\ \/ /\ \A q \in commands : key[q] # key[r]
          /\ Goes(r, "commit")
          /\ inserted' = inserted \cup {r}
       \/ /\ \E q \in commands : key[q] = key[r]
          /\ Replies(r, "created")
          /\ UNCHANGED inserted
    /\ UNCHANGED <<trusted, stop, inputs, commands>>

\* The flush of the command waits for an uncommitted insert of the key; a
\* committed one makes it fail.
Insert(r) ==
    /\ at[r] = "insert"
    /\ \A q \in inserted : key[q] # key[r]
    /\ \/ /\ \A q \in commands : key[q] # key[r]
          /\ Goes(r, "commit")
          /\ inserted' = inserted \cup {r}
       \/ /\ \E q \in commands : key[q] = key[r]
          /\ Replies(r, "taken")
          /\ UNCHANGED inserted
    /\ UNCHANGED <<trusted, stop, inputs, commands>>

\* Command, task, events and approval or outbox row, in one commit; the client
\* may not get the answer.
Commit(r) ==
    /\ at[r] = "commit"
    /\ inserted' = inserted \ {r}
    /\ commands' = commands \cup {r}
    /\ Replies(r, "created") \/ Replies(r, "failed")
    /\ UNCHANGED <<trusted, stop, inputs>>

\* Mutant of Fail: the transaction is left open.
FailOpen(r) ==
    /\ at[r] # "done"
    /\ Replies(r, "failed")
    /\ UNCHANGED <<trusted, stop, inputs, inserted, commands>>

\* A statement fails or the process dies: the transaction is rolled back.
Fail(r) ==
    /\ at[r] # "done"
    /\ Replies(r, "failed")
    /\ inserted' = inserted \ {r}
    /\ UNCHANGED <<trusted, stop, inputs, commands>>

-----------------------------------------------------------------------------
\* revoke_device, and activate and release of the owner's stop.
Revoke ==
    /\ trusted
    /\ trusted' = FALSE
    /\ UNCHANGED <<stop, inputs, at, reply, inserted, commands>>

ToggleStop ==
    /\ stop' = ~stop
    /\ UNCHANGED <<trusted, inputs, at, reply, inserted, commands>>

Handle(r) ==
    CheckDevice(r) \/ CheckStop(r) \/ Lookup(r) \/ Insert(r) \/ Commit(r)

Next ==
    \/ \E r \in Requests : Handle(r) \/ Invalid(r) \/ Fail(r)
    \/ Revoke \/ ToggleStop

Spec == Init /\ [][Next]_vars

\* The event loop and the database serve every request; an insert that waits
\* goes on when the transaction it waits for has ended.
FairSpec == Spec /\ \A r \in Requests : WF_vars(Handle(r))

-----------------------------------------------------------------------------
(* Properties *)

\* One key makes at most one command, however many requests carry it at once.
\* (uq_device_idempotency backs the lookup)
OneCommandPerKey ==
    \A q, r \in commands : key[q] = key[r] => q = r

\* A request is told "created" only for its own command, and an answer of
\* refusal, conflict or error means that it left none; only a lost answer
\* leaves the client in doubt. (one commit, after every check)
AnswerIsTrue ==
    \A r \in Requests :
        /\ reply[r] = "created" => r \in commands
        /\ reply[r] \in {"refused", "conflict", "taken", "error"}
            => r \notin commands

\* A request that is turned away for its key is turned away for a command that
\* is there, and told of a conflict only if the types differ: a transaction that
\* rolls back after it held the key takes nobody's command with it.
\* (the lookup reads committed rows, the index waits for uncommitted ones)
LosesToACommand ==
    \A r \in Requests :
        reply[r] \in {"taken", "conflict"} =>
            \E q \in commands :
                /\ q # r /\ key[q] = key[r]
                /\ reply[r] = "conflict" => type[q] # type[r]

\* Every request is answered, whatever insert it waits for.
RequestsAnswered ==
    \A r \in Requests : at[r] # "start" ~> reply[r] # "none"
=============================================================================
