---------------------------- MODULE RequestSessions ----------------------------
(***************************************************************************)
(* What every authenticated request of the API does around its handler:    *)
(* get_current_user_context looks the user up, or creates the account, in  *)
(* the request's session, which get_db_session commits after the handler   *)
(* has returned and rolls back if it raised. Services open a session of    *)
(* their own in between, so a request may hold two connections of the pool *)
(* and run two transactions, of which the second does not see what the     *)
(* first has not committed.                                                *)
(***************************************************************************)
EXTENDS FiniteSets

CONSTANTS
    Requests,
    Users,        \* subjects of the tokens (supabase_user_id)
    Connections   \* pool_size + max_overflow connections of one process

\* "context": answered from the user context or the request's own session;
\* "read", "write": a service works in a session of its own, and a write
\* stores a row that refers to the user (a device, an emergency stop).
Kind == {"context", "read", "write"}
Stage == {"idle", "token", "lookup", "insert", "handler", "service", "finish",
          "done"}

VARIABLES
    kind,       \* what each request asks for
    user,       \* whose token it carries
    at,         \* where its handler is
    reply,      \* its answer
    account,    \* users.status as committed, "none" without a row
    inserting,  \* requests whose insert of an account is not committed
    session,    \* connection of the request's session
    service,    \* connection of the session its service opened
    written,    \* requests whose service has committed a row of the user
    creators,   \* by user, the requests whose insert was committed
    late        \* requests that came when the user was suspended

request == <<kind, user>>
database == <<account, inserting, written, creators>>
pool == <<session, service>>
vars == <<request, at, reply, database, pool, late>>

TypeOK ==
    /\ kind \in [Requests -> Kind]
    /\ user \in [Requests -> Users]
    /\ at \in [Requests -> Stage]
    /\ reply \in [Requests -> {"none", "ok", "refused", "error"}]
    /\ account \in [Users -> {"none", "active", "suspended"}]
    /\ inserting \in SUBSET Requests
    /\ session \in [Requests -> SUBSET Connections]
    /\ service \in [Requests -> SUBSET Connections]
    /\ written \in SUBSET Requests
    /\ creators \in [Users -> SUBSET Requests]
    /\ late \in SUBSET Requests

Init ==
    /\ kind \in [Requests -> Kind]
    /\ user \in [Requests -> Users]
    /\ at = [r \in Requests |-> "idle"]
    /\ reply = [r \in Requests |-> "none"]
    /\ account = [u \in Users |-> "none"]
    /\ inserting = {} /\ written = {} /\ late = {}
    /\ session = [r \in Requests |-> {}]
    /\ service = [r \in Requests |-> {}]
    /\ creators = [u \in Users |-> {}]

-----------------------------------------------------------------------------
(* Sessions and connections *)

Free == Connections \ UNION {session[r] \cup service[r] : r \in Requests}

Go(r, stage) == at' = [at EXCEPT ![r] = stage]

\* Mutant of Fail: the session of the request is not closed.
FailOpen(r, answer) ==
    /\ inserting' = inserting \ {r}
    /\ service' = [service EXCEPT ![r] = {}]
    /\ reply' = [reply EXCEPT ![r] = answer]
    /\ Go(r, "done")
    /\ UNCHANGED <<request, account, written, creators, session, late>>

\* An exception of the dependency or the handler: both sessions roll back and
\* give their connections back.
Fail(r, answer) ==
    /\ inserting' = inserting \ {r}
    /\ session' = [session EXCEPT ![r] = {}]
    /\ service' = [service EXCEPT ![r] = {}]
    /\ reply' = [reply EXCEPT ![r] = answer]
    /\ Go(r, "done")
    /\ UNCHANGED <<request, account, written, creators, late>>

\* A session takes a connection when it runs its first query.
Waiting(r) ==
    \/ at[r] = "token"
    \/ at[r] = "handler" /\ kind[r] # "context"

\* Mutant of PoolTimeout: the pool waits without limit.
PoolWaits(r) == FALSE /\ UNCHANGED vars

\* Every connection was taken for as long as the pool waits.
PoolTimeout(r) ==
    /\ Waiting(r) /\ Free = {}
    /\ Fail(r, "error")

-----------------------------------------------------------------------------
(* get_current_token, get_current_user_context *)

Arrive(r) ==
    /\ at[r] = "idle"
    /\ Go(r, "token")
    /\ late' = IF account[user[r]] = "suspended" THEN late \cup {r} ELSE late
    /\ UNCHANGED <<request, reply, database, pool>>

\* No token, or one that verify_token does not accept.
BadToken(r) ==
    /\ at[r] = "token"
    /\ Fail(r, "refused")

Connect(r, k) ==
    /\ at[r] = "token" /\ k \in Free
    /\ session' = [session EXCEPT ![r] = {k}]
    /\ Go(r, "lookup")
    /\ UNCHANGED <<request, reply, database, service, late>>

\* Mutant of Lookup: the suspension is not looked at.
LookupAny(r) ==
    /\ at[r] = "lookup"
    /\ Go(r, IF account[user[r]] = "none" THEN "insert" ELSE "handler")
    /\ UNCHANGED <<request, reply, database, pool, late>>

\* get_by_supabase_id sees committed rows only.
Lookup(r) ==
    /\ at[r] = "lookup"
    /\ \/ /\ account[user[r]] = "suspended"
          /\ Fail(r, "refused")
       \/ /\ account[user[r]] # "suspended"
          /\ Go(r, IF account[user[r]] = "none" THEN "insert" ELSE "handler")
          /\ UNCHANGED <<request, reply, database, pool, late>>

\* Mutant of Insert: without the unique index.
InsertFreely(r) ==
    /\ at[r] = "insert"
    /\ inserting' = inserting \cup {r}
    /\ Go(r, "handler")
    /\ UNCHANGED <<request, reply, account, written, creators, pool, late>>

\* UserRepository.create flushes the row. The unique index makes it wait for
\* another open insert of the same user, and refuses it if that committed.
Insert(r) ==
    /\ at[r] = "insert"
    /\ \A s \in inserting : user[s] # user[r]
    /\ \/ /\ account[user[r]] # "none"
          /\ Fail(r, "error")
       \/ /\ account[user[r]] = "none"
          /\ inserting' = inserting \cup {r}
          /\ Go(r, "handler")
          /\ UNCHANGED <<request, reply, account, written, creators, pool, late>>

-----------------------------------------------------------------------------
(* The handler *)

\* Answered without another session: /auth/me, /users/profile, one device.
Context(r) ==
    /\ at[r] = "handler" /\ kind[r] = "context"
    /\ Go(r, "finish")
    /\ UNCHANGED <<request, reply, database, pool, late>>

\* get_db_session_context in a service.
OpenService(r, k) ==
    /\ at[r] = "handler" /\ kind[r] # "context" /\ k \in Free
    /\ service' = [service EXCEPT ![r] = {k}]
    /\ Go(r, "service")
    /\ UNCHANGED <<request, reply, database, session, late>>

\* The service's own transaction ends, and its session is closed.
ServiceEnds(r) ==
    /\ service' = [service EXCEPT ![r] = {}]
    /\ Go(r, "finish")
    /\ UNCHANGED <<request, reply, account, inserting, creators, session, late>>

Read(r) ==
    /\ at[r] = "service" /\ kind[r] = "read"
    /\ ServiceEnds(r) /\ UNCHANGED written

\* A row with a foreign key to users: the account has to be committed, so the
\* request that is creating it fails here and takes the account with it.
Write(r) ==
    /\ at[r] = "service" /\ kind[r] = "write"
    /\ \/ /\ account[user[r]] # "none"
          /\ written' = written \cup {r}
          /\ ServiceEnds(r)
       \/ /\ account[user[r]] = "none"
          /\ Fail(r, "error")

\* The handler raises an ApiError: nothing found, not the owner, a conflict.
Refuse(r) ==
    /\ at[r] \in {"handler", "service"}
    /\ kind[r] = "context" \/ at[r] = "service"
    /\ Fail(r, "refused")

\* Mutant of Finish: a session that is closed without commit (get_session).
FinishOnly(r) ==
    /\ at[r] = "finish"
    /\ inserting' = inserting \ {r}
    /\ session' = [session EXCEPT ![r] = {}]
    /\ reply' = [reply EXCEPT ![r] = "ok"]
    /\ Go(r, "done")
    /\ UNCHANGED <<request, account, creators, written, service, late>>

\* get_db_session commits, closes, and the answer goes out.
Finish(r) ==
    /\ at[r] = "finish"
    /\ account' = [account EXCEPT ![user[r]] =
                     IF r \in inserting THEN "active" ELSE @]
    /\ creators' = [creators EXCEPT ![user[r]] =
                      IF r \in inserting THEN @ \cup {r} ELSE @]
    /\ inserting' = inserting \ {r}
    /\ session' = [session EXCEPT ![r] = {}]
    /\ reply' = [reply EXCEPT ![r] = "ok"]
    /\ Go(r, "done")
    /\ UNCHANGED <<request, written, service, late>>

\* The database, or the process with all it holds, fails under the request.
Break(r) ==
    /\ at[r] \in Stage \ {"idle", "done"}
    /\ Fail(r, "error")

\* An operator suspends an account; no route does.
Suspend(u) ==
    /\ account[u] = "active"
    /\ account' = [account EXCEPT ![u] = "suspended"]
    /\ UNCHANGED <<request, at, reply, inserting, written, creators, pool, late>>

-----------------------------------------------------------------------------
\* A step of request r while nothing fails.
Step(r) ==
    \/ \E k \in Connections : Connect(r, k) \/ OpenService(r, k)
    \/ PoolTimeout(r)
    \/ Lookup(r) \/ Insert(r)
    \/ Context(r) \/ Read(r) \/ Write(r)
    \/ Finish(r)

Next ==
    \/ \E r \in Requests :
        Arrive(r) \/ BadToken(r) \/ Step(r) \/ Refuse(r) \/ Break(r)
    \/ \E u \in Users : Suspend(u)

Spec == Init /\ [][Next]_vars

\* The event loop runs every handler that can go on.
FairSpec == Spec /\ \A r \in Requests : WF_vars(Step(r))

-----------------------------------------------------------------------------
(* Properties *)

\* First requests of one user that race leave one account, and none without a
\* request that was committed. (get_by_supabase_id then create, unique index)
AccountOnce ==
    \A u \in Users :
        /\ \A r, s \in creators[u] : r = s
        /\ account[u] = "none" <=> creators[u] = {}

\* A request that was answered well belongs to an account that is there to
\* stay, and if it was a write, its row is; a refused one has left no such row.
\* (two transactions per request; the answer waits for both)
AnswersHold ==
    \A r \in Requests :
        /\ reply[r] = "ok" =>
            /\ account[user[r]] # "none"
            /\ kind[r] = "write" => r \in written
        /\ reply[r] = "refused" => r \notin written

\* No connection serves two sessions, and a request that has not begun or has
\* ended, in whatever way, holds none. (async_session_maker, session.close)
PoolReturned ==
    \A r \in Requests :
        /\ at[r] \in {"idle", "token", "done"} =>
            session[r] = {} /\ service[r] = {}
        /\ session[r] \cap service[r] = {}
        /\ \A s \in Requests \ {r} :
            (session[r] \cup service[r]) \cap (session[s] \cup service[s]) = {}

\* A request that comes after its user was suspended gets nothing done,
\* whatever other requests of that user are under way. (get_current_user_context)
SuspendedShutOut ==
    \A r \in late : r \notin written /\ reply[r] # "ok"

\* Every request is answered, although requests wait for connections that
\* others hold, and for the account that another one is creating while that
\* one waits for a connection. (pool_timeout ends the circle)
RequestsEnd == \A r \in Requests : at[r] # "idle" ~> at[r] = "done"
=============================================================================
