------------------------- MODULE RequestSessionsProofs -------------------------
(***************************************************************************)
(* The safety properties of RequestSessions, for any number of requests,   *)
(* users and connections.                                                  *)
(***************************************************************************)
EXTENDS RequestSessions, TLAPS

-----------------------------------------------------------------------------
(* The inductive invariant *)

\* What the place of a request in its handler says about it.
Places ==
    \A r \in Requests :
        /\ at[r] # "service" => service[r] = {}
        /\ at[r] \in {"idle", "token", "done"} => session[r] = {}
        /\ at[r] # "done" => reply[r] = "none"
        /\ r \in inserting => at[r] \in {"handler", "service", "finish"}
        /\ r \in written => at[r] \in {"finish", "done"}
        /\ at[r] = "finish" /\ kind[r] = "write" => r \in written

\* Connections are held by one session each.
Held ==
    \A r \in Requests :
        /\ session[r] \cap service[r] = {}
        /\ \A s \in Requests \ {r} :
            (session[r] \cup service[r]) \cap (session[s] \cup service[s]) = {}

\* At most one open insert for a user, and none once the account is there; a
\* handler runs with an account or with an open insert of its own.
Inserts ==
    \A r \in Requests :
        /\ r \in inserting =>
            /\ account[user[r]] = "none"
            /\ \A s \in inserting : user[s] = user[r] => s = r
        /\ at[r] \in {"handler", "service", "finish"} =>
            r \in inserting \/ account[user[r]] # "none"

\* Who created an account has ended, and was a request of that user.
Creators ==
    \A u \in Users : \A r \in creators[u] : user[r] = u /\ at[r] = "done"

\* A request that came after the suspension has not passed the lookup.
Late ==
    \A r \in late :
        /\ at[r] \in {"token", "lookup", "done"}
        /\ account[user[r]] = "suspended"

IInv ==
    /\ TypeOK /\ Places /\ Held /\ Inserts /\ Creators /\ Late
    /\ AccountOnce /\ AnswersHold /\ SuspendedShutOut

-----------------------------------------------------------------------------
LEMMA InitHolds == Init => IInv
BY DEF Init, IInv, TypeOK, Kind, Stage, Places, Held, Inserts, Creators, Late,
       AccountOnce, AnswersHold, SuspendedShutOut

\* A failed request, wherever it was, leaves everything in order.
LEMMA FailKeeps ==
    ASSUME IInv, NEW r \in Requests, NEW answer \in {"refused", "error"},
           at[r] \in Stage \ {"idle", "done"},
           answer = "refused" => at[r] # "finish",
           Fail(r, answer)
    PROVE  IInv'
<1> USE DEF Fail, Go, request
<1>1. TypeOK' /\ Places'
  BY DEF IInv, TypeOK, Stage, Kind, Places
<1>2. Held'
  BY DEF IInv, TypeOK, Held
<1>3. Inserts' /\ Creators' /\ Late'
  BY DEF IInv, TypeOK, Stage, Inserts, Creators, Late, Places
<1>4. AccountOnce'
  BY DEF IInv, TypeOK, AccountOnce
<1>5. AnswersHold' /\ SuspendedShutOut'
  BY DEF IInv, TypeOK, AnswersHold, SuspendedShutOut, Places
<1> QED BY <1>1, <1>2, <1>3, <1>4, <1>5 DEF IInv

\* A request comes, of a user who may be suspended already.
LEMMA ArriveKeeps ==
    ASSUME IInv, NEW r \in Requests, Arrive(r)
    PROVE  IInv'
<1> USE DEF Arrive, Go, request, database, pool
<1>1. TypeOK' /\ Places'
  BY DEF IInv, TypeOK, Stage, Kind, Places
<1>2. Held'
  BY DEF IInv, TypeOK, Held
<1>3. Inserts' /\ Creators' /\ Late'
  BY DEF IInv, TypeOK, Stage, Inserts, Creators, Late, Places
<1>4. AccountOnce'
  BY DEF IInv, TypeOK, AccountOnce, Inserts, Places, Creators
<1>5. AnswersHold' /\ SuspendedShutOut'
  BY DEF IInv, TypeOK, AnswersHold, SuspendedShutOut, Places, Inserts, Late
<1> QED BY <1>1, <1>2, <1>3, <1>4, <1>5 DEF IInv

\* A free connection is held by no other session.
LEMMA ConnectKeeps ==
    ASSUME IInv, NEW r \in Requests, NEW k \in Connections, Connect(r, k)
    PROVE  IInv'
<1> USE DEF Connect, Go, request, database, pool
<1>1. TypeOK' /\ Places'
  BY DEF IInv, TypeOK, Stage, Kind, Places, Free
<1>2. Held'
  BY DEF IInv, TypeOK, Held, Free
<1>3. Inserts' /\ Creators' /\ Late'
  BY DEF IInv, TypeOK, Stage, Inserts, Creators, Late, Places
<1>4. AccountOnce'
  BY DEF IInv, TypeOK, AccountOnce, Inserts, Places, Creators
<1>5. AnswersHold' /\ SuspendedShutOut'
  BY DEF IInv, TypeOK, AnswersHold, SuspendedShutOut, Places, Inserts, Late
<1> QED BY <1>1, <1>2, <1>3, <1>4, <1>5 DEF IInv

\* The same for the session of a service.
LEMMA OpenServiceKeeps ==
    ASSUME IInv, NEW r \in Requests, NEW k \in Connections, OpenService(r, k)
    PROVE  IInv'
<1> USE DEF OpenService, Go, request, database, pool
<1>1. TypeOK' /\ Places'
  BY DEF IInv, TypeOK, Stage, Kind, Places, Free
<1>2. Held'
  BY DEF IInv, TypeOK, Held, Free
<1>3. Inserts' /\ Creators' /\ Late'
  BY DEF IInv, TypeOK, Stage, Inserts, Creators, Late, Places
<1>4. AccountOnce'
  BY DEF IInv, TypeOK, AccountOnce, Inserts, Places, Creators
<1>5. AnswersHold' /\ SuspendedShutOut'
  BY DEF IInv, TypeOK, AnswersHold, SuspendedShutOut, Places, Inserts, Late
<1> QED BY <1>1, <1>2, <1>3, <1>4, <1>5 DEF IInv

\* The lookup lets a request on that is not suspended.
LEMMA LookupKeeps ==
    ASSUME IInv, NEW r \in Requests, at[r] = "lookup",
           account[user[r]] # "suspended",
           Go(r, IF account[user[r]] = "none" THEN "insert" ELSE "handler"),
           UNCHANGED <<request, reply, database, pool, late>>
    PROVE  IInv'
<1> USE DEF Go, request, database, pool
<1>1. TypeOK' /\ Places'
  BY DEF IInv, TypeOK, Stage, Kind, Places
<1>2. Held'
  BY DEF IInv, TypeOK, Held
<1>3. Inserts' /\ Creators' /\ Late'
  BY DEF IInv, TypeOK, Stage, Inserts, Creators, Late, Places
<1>4. AccountOnce'
  BY DEF IInv, TypeOK, AccountOnce, Inserts, Places, Creators
<1>5. AnswersHold' /\ SuspendedShutOut'
  BY DEF IInv, TypeOK, AnswersHold, SuspendedShutOut, Places, Inserts, Late
<1> QED BY <1>1, <1>2, <1>3, <1>4, <1>5 DEF IInv

\* An insert that the unique index lets through.
LEMMA InsertKeeps ==
    ASSUME IInv, NEW r \in Requests, at[r] = "insert",
           \A s \in inserting : user[s] # user[r],
           account[user[r]] = "none",
           inserting' = inserting \cup {r},
           Go(r, "handler"),
           UNCHANGED <<request, reply, account, written, creators, pool, late>>
    PROVE  IInv'
<1> USE DEF Go, request, database, pool
<1>1. TypeOK' /\ Places'
  BY DEF IInv, TypeOK, Stage, Kind, Places
<1>2. Held'
  BY DEF IInv, TypeOK, Held
<1>3. Inserts' /\ Creators' /\ Late'
  BY DEF IInv, TypeOK, Stage, Inserts, Creators, Late, Places
<1>4. AccountOnce'
  BY DEF IInv, TypeOK, AccountOnce, Inserts, Places, Creators
<1>5. AnswersHold' /\ SuspendedShutOut'
  BY DEF IInv, TypeOK, AnswersHold, SuspendedShutOut, Places, Inserts, Late
<1> QED BY <1>1, <1>2, <1>3, <1>4, <1>5 DEF IInv

\* A handler that needs no session of its own.
LEMMA ContextKeeps ==
    ASSUME IInv, NEW r \in Requests, Context(r)
    PROVE  IInv'
<1> USE DEF Context, Go, request, database, pool
<1>1. TypeOK' /\ Places'
  BY DEF IInv, TypeOK, Stage, Kind, Places
<1>2. Held'
  BY DEF IInv, TypeOK, Held
<1>3. Inserts' /\ Creators' /\ Late'
  BY DEF IInv, TypeOK, Stage, Inserts, Creators, Late, Places
<1>4. AccountOnce'
  BY DEF IInv, TypeOK, AccountOnce, Inserts, Places, Creators
<1>5. AnswersHold' /\ SuspendedShutOut'
  BY DEF IInv, TypeOK, AnswersHold, SuspendedShutOut, Places, Inserts, Late
<1> QED BY <1>1, <1>2, <1>3, <1>4, <1>5 DEF IInv

\* The end of a service that has read.
LEMMA ReadKeeps ==
    ASSUME IInv, NEW r \in Requests, Read(r)
    PROVE  IInv'
<1> USE DEF Read, ServiceEnds, Go, request, database, pool
<1>1. TypeOK' /\ Places'
  BY DEF IInv, TypeOK, Stage, Kind, Places
<1>2. Held'
  BY DEF IInv, TypeOK, Held
<1>3. Inserts' /\ Creators' /\ Late'
  BY DEF IInv, TypeOK, Stage, Inserts, Creators, Late, Places
<1>4. AccountOnce'
  BY DEF IInv, TypeOK, AccountOnce, Inserts, Places, Creators
<1>5. AnswersHold' /\ SuspendedShutOut'
  BY DEF IInv, TypeOK, AnswersHold, SuspendedShutOut, Places, Inserts, Late
<1> QED BY <1>1, <1>2, <1>3, <1>4, <1>5 DEF IInv

\* The end of a service that has written, which knows the account.
LEMMA WriteKeeps ==
    ASSUME IInv, NEW r \in Requests, at[r] = "service",
           kind[r] = "write", account[user[r]] # "none",
           written' = written \cup {r}, ServiceEnds(r)
    PROVE  IInv'
<1> USE DEF ServiceEnds, Go, request, database, pool
<1>1. TypeOK' /\ Places'
  BY DEF IInv, TypeOK, Stage, Kind, Places
<1>2. Held'
  BY DEF IInv, TypeOK, Held
<1>3. Inserts' /\ Creators' /\ Late'
  BY DEF IInv, TypeOK, Stage, Inserts, Creators, Late, Places
<1>4. AccountOnce'
  BY DEF IInv, TypeOK, AccountOnce, Inserts, Places, Creators
<1>5. AnswersHold' /\ SuspendedShutOut'
  BY DEF IInv, TypeOK, AnswersHold, SuspendedShutOut, Places, Inserts, Late
<1> QED BY <1>1, <1>2, <1>3, <1>4, <1>5 DEF IInv

\* The commit of the request's session makes the account, if it inserted it.
LEMMA FinishKeeps ==
    ASSUME IInv, NEW r \in Requests, Finish(r)
    PROVE  IInv'
<1> USE DEF Finish, Go, request, database, pool
<1>1. TypeOK' /\ Places'
  BY DEF IInv, TypeOK, Stage, Kind, Places
<1>2. Held'
  BY DEF IInv, TypeOK, Held
<1>3. Inserts' /\ Creators' /\ Late'
  BY DEF IInv, TypeOK, Stage, Inserts, Creators, Late, Places
<1>4. AccountOnce'
  BY DEF IInv, TypeOK, AccountOnce, Inserts, Places, Creators
<1>5. AnswersHold' /\ SuspendedShutOut'
  BY DEF IInv, TypeOK, AnswersHold, SuspendedShutOut, Places, Inserts, Late
<1> QED BY <1>1, <1>2, <1>3, <1>4, <1>5 DEF IInv

\* A suspension disturbs no request on its way.
LEMMA SuspendKeeps ==
    ASSUME IInv, NEW u \in Users, Suspend(u)
    PROVE  IInv'
<1> USE DEF Suspend, request, pool
<1>1. TypeOK' /\ Places'
  BY DEF IInv, TypeOK, Stage, Kind, Places
<1>2. Held'
  BY DEF IInv, TypeOK, Held
<1>3. Inserts' /\ Creators' /\ Late'
  BY DEF IInv, TypeOK, Stage, Inserts, Creators, Late, Places
<1>4. AccountOnce'
  BY DEF IInv, TypeOK, AccountOnce, Inserts, Places, Creators
<1>5. AnswersHold' /\ SuspendedShutOut'
  BY DEF IInv, TypeOK, AnswersHold, SuspendedShutOut, Places, Inserts, Late
<1> QED BY <1>1, <1>2, <1>3, <1>4, <1>5 DEF IInv

\* Nothing happens.
LEMMA StutterKeeps ==
    ASSUME IInv, UNCHANGED vars
    PROVE  IInv'
<1> USE DEF vars, request, database, pool
<1>1. TypeOK' /\ Places'
  BY DEF IInv, TypeOK, Stage, Kind, Places
<1>2. Held'
  BY DEF IInv, TypeOK, Held
<1>3. Inserts' /\ Creators' /\ Late'
  BY DEF IInv, TypeOK, Stage, Inserts, Creators, Late, Places
<1>4. AccountOnce'
  BY DEF IInv, TypeOK, AccountOnce, Inserts, Places, Creators
<1>5. AnswersHold' /\ SuspendedShutOut'
  BY DEF IInv, TypeOK, AnswersHold, SuspendedShutOut, Places, Inserts, Late
<1> QED BY <1>1, <1>2, <1>3, <1>4, <1>5 DEF IInv

-----------------------------------------------------------------------------
\* Every step keeps the invariant; an action with a failing branch is split.
LEMMA NextKeeps ==
    ASSUME IInv, [Next]_vars
    PROVE  IInv'
<1>1. CASE UNCHANGED vars
  BY <1>1, StutterKeeps
<1>2. ASSUME NEW u \in Users, Suspend(u) PROVE IInv'
  BY <1>2, SuspendKeeps
<1>3. ASSUME NEW r \in Requests, Arrive(r) PROVE IInv'
  BY <1>3, ArriveKeeps
<1>4. ASSUME NEW r \in Requests,
             BadToken(r) \/ PoolTimeout(r) \/ Refuse(r) \/ Break(r)
      PROVE  IInv'
  <2>1. CASE BadToken(r)
    BY <2>1, FailKeeps DEF BadToken, Stage
  <2>2. CASE PoolTimeout(r)
    BY <2>2, FailKeeps DEF PoolTimeout, Waiting, Stage
  <2>3. CASE Refuse(r)
    BY <2>3, FailKeeps DEF Refuse, Stage
  <2>4. CASE Break(r)
    BY <2>4, FailKeeps DEF Break
  <2> QED BY <1>4, <2>1, <2>2, <2>3, <2>4
<1>5. ASSUME NEW r \in Requests, NEW k \in Connections,
             Connect(r, k) \/ OpenService(r, k)
      PROVE  IInv'
  BY <1>5, ConnectKeeps, OpenServiceKeeps
<1>6. ASSUME NEW r \in Requests, Lookup(r) PROVE IInv'
  <2>1. CASE account[user[r]] = "suspended"
    BY <1>6, <2>1, FailKeeps DEF Lookup, Stage
  <2>2. CASE account[user[r]] # "suspended"
    BY <1>6, <2>2, LookupKeeps DEF Lookup
  <2> QED BY <2>1, <2>2
<1>7. ASSUME NEW r \in Requests, Insert(r) PROVE IInv'
  <2>1. CASE account[user[r]] # "none"
    BY <1>7, <2>1, FailKeeps DEF Insert, Stage
  <2>2. CASE account[user[r]] = "none"
    BY <1>7, <2>2, InsertKeeps DEF Insert
  <2> QED BY <2>1, <2>2
<1>8. ASSUME NEW r \in Requests, Context(r) \/ Read(r) \/ Finish(r)
      PROVE  IInv'
  BY <1>8, ContextKeeps, ReadKeeps, FinishKeeps
<1>9. ASSUME NEW r \in Requests, Write(r) PROVE IInv'
  <2>1. CASE account[user[r]] = "none"
    BY <1>9, <2>1, FailKeeps DEF Write, Stage
  <2>2. CASE account[user[r]] # "none"
    BY <1>9, <2>2, WriteKeeps DEF Write
  <2> QED BY <2>1, <2>2
<1> QED
  BY <1>1, <1>2, <1>3, <1>4, <1>5, <1>6, <1>7, <1>8, <1>9, Zenon
  DEF Next, Step

LEMMA Invariant == Spec => []IInv
<1>1. Init => IInv
  BY InitHolds
<1>2. IInv /\ [Next]_vars => IInv'
  BY NextKeeps
<1> QED BY <1>1, <1>2, PTL DEF Spec

-----------------------------------------------------------------------------
\* The variables keep their types.
THEOREM TypeCorrect == Spec => []TypeOK
<1>1. IInv => TypeOK BY DEF IInv
<1> QED BY <1>1, Invariant, PTL

\* First requests that race leave one account (get_current_user_context).
THEOREM AccountMadeOnce == Spec => []AccountOnce
<1>1. IInv => AccountOnce BY DEF IInv
<1> QED BY <1>1, Invariant, PTL

\* An answer is true to what both transactions committed (get_db_session).
THEOREM AnswersTrue == Spec => []AnswersHold
<1>1. IInv => AnswersHold BY DEF IInv
<1> QED BY <1>1, Invariant, PTL

\* Connections are never shared and always given back (session.close).
THEOREM ConnectionsReturned == Spec => []PoolReturned
<1>1. IInv => PoolReturned BY DEF IInv, Places, Held, PoolReturned
<1> QED BY <1>1, Invariant, PTL

\* A suspended user gets nothing done (get_current_user_context).
THEOREM SuspendedGetNothing == Spec => []SuspendedShutOut
<1>1. IInv => SuspendedShutOut BY DEF IInv
<1> QED BY <1>1, Invariant, PTL
=============================================================================
