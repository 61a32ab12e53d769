------------------------------- MODULE ApiProofs -------------------------------
(***************************************************************************)
(* Proofs about what a client of the API meets: ApiEdge, for any routes,   *)
(* limits, windows and handlers and any life of the cache, and Listings,   *)
(* for any number of rows and any size of a page.                          *)
(*                                                                         *)
(* Of the limiter the inductive invariant says that what passed within the *)
(* shortest window was counted by one key; of the cache how old a key set  *)
(* can be: one that is on its way was right when the provider gave it, and *)
(* the cache is no older than its age and the time of one answer together; *)
(* of a list how far the rows have shifted under the client.               *)
(***************************************************************************)
EXTENDS ApiEdge, Listings, FiniteSetTheorems, TLAPS

USE BoundsAssumption, LimitAssumption, WindowAssumption, LifeAssumption,
    FetchAssumption, KeysAssumption

\* No more was counted than was requested.
Counted == count <= requests

\* The key in Valkey lives as long as the last refusal told.
KeyLives ==
    /\ count > 0 <=> ttl > 0
    /\ retry > 0 /\ ttl > 0 => ttl + quiet = retry

\* The requests passed on within the shortest window were all counted by the
\* key that Valkey has now, one after the other: a request leaves the key at
\* least that window to live, and no request is younger than the last one.
LogOf(n) ==
    /\ ttl > 0 => n <= ttl + quiet
    /\ \A x \in admitted : x.age < n => ttl > 0 /\ x.nth <= count
    /\ \A x, y \in admitted :
        x.age < n /\ y.age < n /\ x.nth = y.nth => x = y

Log ==
    /\ \A x \in admitted : quiet <= x.age /\ x.nth <= Limit[x.route]
    /\ \A n \in 0..Horizon : FitsWindows(n) => LogOf(n)

\* What is said about the limiter.
Limiter == TypeOK /\ Counted /\ KeyLives /\ Log

\* The present key and those to come have not been replaced.
Present == \A k \in 1..MaxKeys : k >= key => since[k] = 0

\* An answer on its way was right when it was given.
Answers ==
    \A h \in Handlers :
        /\ at[h] # "fetch" => answer[h] = 0
        /\ answer[h] <= key
        /\ answer[h] # 0 /\ answer[h] # key =>
            since[answer[h]] <= travel[h] /\ young <= travel[h]

\* The cache was right at most the time of an answer before it was stored.
Cache ==
    /\ cached <= key
    /\ Fresh /\ cached # key =>
        since[cached] <= age + FetchTime /\ young <= age + FetchTime

IInv == EdgeTypeOK /\ Limiter /\ Present /\ Answers /\ Cache

-----------------------------------------------------------------------------
LEMMA InitHolds == EdgeInit => IInv
<1> SUFFICES ASSUME EdgeInit PROVE IInv
  OBVIOUS
<1> USE DEF EdgeInit, Init
<1>1. TypeOK
  BY DEF TypeOK
<1>2. EdgeTypeOK
  BY <1>1 DEF EdgeTypeOK, Ended, Lag
<1>3. Limiter
  BY <1>1 DEF Limiter, Counted, KeyLives, Log, LogOf
<1>4. Present /\ Answers /\ Cache
  BY DEF Present, Answers, Cache, Fresh
<1> QED BY <1>2, <1>3, <1>4 DEF IInv

\* A request keeps what is said about the limiter.
LEMMA RequestKeeps ==
    ASSUME Limiter, NEW r \in Routes, Request(r)
    PROVE  Limiter'
<1> USE DEF Limiter
<1> DEFINE e == [route |-> r, nth |-> count + 1, age |-> 0]
<1>1. /\ count \in Nat /\ count + 1 \in 1..MaxRequests
      /\ count' = count + 1 /\ requests' = requests + 1
      /\ requests' \in 0..MaxRequests /\ count' <= requests'
      /\ ttl' = Window[r] /\ Window[r] \in 1..Horizon /\ quiet' = 0
  BY DEF Request, Expiry, TypeOK, Counted
<1>2. /\ \/ admitted' = admitted /\ retry' = Window[r]
         \/ admitted' = admitted \cup {e} /\ retry' = 0 /\ count + 1 <= Limit[r]
  BY DEF Request, Allowed
<1>3. e \in Entry /\ e.route = r /\ e.nth = count + 1 /\ e.age = 0
  BY <1>1 DEF Entry
<1> HIDE DEF e
<1>4. TypeOK'
  BY <1>1, <1>2, <1>3 DEF TypeOK
<1>5. Counted' /\ KeyLives'
  BY <1>1, <1>2 DEF Counted, KeyLives
<1>6. ASSUME NEW x \in admitted
      PROVE  /\ x.age \in 0..(Horizon - 1) /\ x.nth \in Nat
             /\ x.route \in Routes /\ Limit[x.route] \in Nat
  BY DEF TypeOK, Entry
<1>7. \A x \in admitted' : quiet' <= x.age /\ x.nth <= Limit[x.route]
  BY <1>1, <1>2, <1>3, <1>6 DEF Log
<1>8. ASSUME NEW n \in 0..Horizon, FitsWindows(n) PROVE LogOf(n)'
  <2>1. n <= ttl' + quiet'
    BY <1>1, <1>8 DEF FitsWindows
  <2>2. LogOf(n)
    BY <1>8 DEF Log
  <2>3. \A x \in admitted : x.age < n => x.nth <= count
    BY <2>2 DEF LogOf
  <2>4. \A x \in admitted' : x.age < n => ttl' > 0 /\ x.nth <= count'
    BY <1>1, <1>2, <1>3, <1>6, <2>3
  <2>5. ASSUME NEW x \in admitted', NEW y \in admitted', x.age < n, y.age < n,
               x.nth = y.nth
        PROVE  x = y
    <3>1. CASE x \in admitted /\ y \in admitted
      BY <2>2, <2>5, <3>1 DEF LogOf
    <3>2. CASE x = e /\ y \in admitted
      BY <1>1, <1>3, <1>6, <2>3, <2>5, <3>2
    <3>3. CASE x \in admitted /\ y = e
      BY <1>1, <1>3, <1>6, <2>3, <2>5, <3>3
    <3> QED BY <1>2, <3>1, <3>2, <3>3
  <2> QED BY <2>1, <2>4, <2>5 DEF LogOf
<1>9. Log'
  BY <1>7, <1>8 DEF Log, FitsWindows
<1> QED BY <1>4, <1>5, <1>9

\* Where an entry of the log comes from when a tick has passed.
LEMMA TickLog ==
    ASSUME TypeOK, Tick, NEW x \in admitted'
    PROVE  \E y \in admitted :
             /\ y.age + 1 < Horizon /\ x = [y EXCEPT !.age = @ + 1]
             /\ x.age = y.age + 1 /\ x.nth = y.nth /\ x.route = y.route
             /\ x \in Entry /\ y \in Entry
<1>1. PICK y \in admitted : y.age + 1 < Horizon /\ x = [y EXCEPT !.age = @ + 1]
  BY DEF Tick
<1>2. y \in Entry
  BY DEF TypeOK
<1>3. x.age = y.age + 1 /\ x.nth = y.nth /\ x.route = y.route /\ x \in Entry
  BY <1>1, <1>2 DEF Entry
<1> QED BY <1>1, <1>2, <1>3

\* A tick keeps it too: a key that expires leaves no request of the shortest
\* window behind.
LEMMA TickKeeps ==
    ASSUME Limiter, Tick
    PROVE  Limiter'
<1> USE DEF Limiter
<1>1. /\ count \in Nat /\ ttl \in 0..Horizon /\ quiet \in 0..Horizon
      /\ ttl' = IF ttl > 0 THEN ttl - 1 ELSE 0
      /\ count' = IF ttl > 1 THEN count ELSE 0
      /\ quiet' = IF quiet < Horizon THEN quiet + 1 ELSE quiet
      /\ retry' = retry /\ requests' = requests
  BY DEF Tick, TypeOK
<1>2. TypeOK'
  <2>1. admitted' \in SUBSET Entry
    BY TickLog
  <2> QED BY <1>1, <2>1 DEF TypeOK
<1>3. Counted'
  BY <1>1 DEF TypeOK, Counted
<1>4. KeyLives'
  BY <1>1 DEF TypeOK, KeyLives
<1>5. \A x \in admitted' : quiet' <= x.age /\ x.nth <= Limit[x.route]
  <2> SUFFICES ASSUME NEW x \in admitted'
               PROVE  quiet' <= x.age /\ x.nth <= Limit[x.route]
    OBVIOUS
  <2>1. PICK y \in admitted : /\ x.age = y.age + 1 /\ x.nth = y.nth
                              /\ x.route = y.route /\ y \in Entry
    BY TickLog
  <2>2. quiet <= y.age /\ y.nth <= Limit[y.route] /\ y.age \in Nat
    BY <2>1 DEF Log, Entry
  <2> QED BY <1>1, <2>1, <2>2
<1>6. ASSUME NEW n \in 0..Horizon, FitsWindows(n) PROVE LogOf(n)'
  <2>1. LogOf(n)
    BY <1>6 DEF Log
  <2>2. ttl' > 0 => n <= ttl' + quiet'
    BY <1>1, <2>1 DEF LogOf
  <2>3. ASSUME NEW x \in admitted', x.age < n
        PROVE  ttl' > 0 /\ x.nth <= count'
    <3>1. PICK y \in admitted : /\ x.age = y.age + 1 /\ x.nth = y.nth
                                /\ y \in Entry
      BY TickLog
    <3>2. y.age \in Nat /\ y.nth \in Nat /\ y.age + 1 < n /\ quiet <= y.age
      BY <2>3, <3>1 DEF Entry, Log
    <3>3. ttl > 0 /\ y.nth <= count /\ n <= ttl + quiet
      BY <2>1, <3>2 DEF LogOf
    <3>4. ttl > 1
      BY <1>1, <3>2, <3>3
    <3> QED BY <1>1, <3>1, <3>3, <3>4
  <2>4. ASSUME NEW x \in admitted', NEW z \in admitted', x.age < n, z.age < n,
               x.nth = z.nth
        PROVE  x = z
    <3>1. PICK y \in admitted : /\ x = [y EXCEPT !.age = @ + 1]
                                /\ x.age = y.age + 1 /\ x.nth = y.nth
                                /\ y \in Entry
      BY TickLog
    <3>2. PICK w \in admitted : /\ z = [w EXCEPT !.age = @ + 1]
                                /\ z.age = w.age + 1 /\ z.nth = w.nth
                                /\ w \in Entry
      BY TickLog
    <3>3. y.age < n /\ w.age < n /\ y.nth = w.nth
      BY <2>4, <3>1, <3>2 DEF Entry
    <3>4. y = w
      BY <2>1, <3>3 DEF LogOf
    <3> QED BY <3>1, <3>2, <3>4
  <2> QED BY <2>2, <2>3, <2>4 DEF LogOf
<1>7. Log'
  BY <1>5, <1>6 DEF Log, FitsWindows
<1> QED BY <1>2, <1>3, <1>4, <1>7

\* The provider, the cache and the handlers are left alone.
LEMMA RestKept ==
    ASSUME IInv, Limiter',
           UNCHANGED <<provider, cache, answer, travel>>,
           at' \in [Handlers -> Ended \cup {"verify", "fetch"}],
           kid' \in [Handlers -> 1..MaxKeys],
           \A h \in Handlers : at'[h] # "fetch" => answer[h] = 0
    PROVE  IInv'
<1> USE DEF provider, cache
<1>1. EdgeTypeOK'
  BY DEF IInv, EdgeTypeOK, Limiter
<1>2. Present' /\ Answers'
  BY DEF IInv, Present, Answers
<1>3. Cache'
  BY DEF IInv, Cache, Fresh
<1> QED BY <1>1, <1>2, <1>3 DEF IInv

LEMMA CallKeeps ==
    ASSUME IInv, NEW r \in Routes, NEW h \in Handlers, NEW k \in 1..MaxKeys,
           Call(r, h, k)
    PROVE  IInv'
<1>1. Limiter'
  BY RequestKeeps DEF Call, IInv
<1>2. /\ at' \in [Handlers -> Ended \cup {"verify", "fetch"}]
      /\ kid' \in [Handlers -> 1..MaxKeys]
      /\ \A g \in Handlers : at'[g] # "fetch" => answer[g] = 0
  BY DEF Call, IInv, EdgeTypeOK, Answers, Ended, Found
<1> QED BY <1>1, <1>2, RestKept DEF Call

\* What leaves the limiter alone keeps what is said about it.
LEMMA CounterKept ==
    ASSUME IInv, UNCHANGED vars
    PROVE  Limiter'
<1> USE DEF vars
<1>1. Limiter
  BY DEF IInv
<1>2. TypeOK' /\ Counted' /\ KeyLives'
  BY <1>1 DEF Limiter, TypeOK, Counted, KeyLives
<1>3. Log'
  BY <1>1 DEF Limiter, Log, LogOf, FitsWindows
<1> QED BY <1>2, <1>3 DEF Limiter

LEMMA VerifyKeeps ==
    ASSUME IInv, NEW h \in Handlers, Verify(h)
    PROVE  IInv'
<1>1. Limiter'
  BY CounterKept DEF Verify
<1>2. /\ at' \in [Handlers -> Ended \cup {"verify", "fetch"}]
      /\ kid' \in [Handlers -> 1..MaxKeys]
      /\ \A g \in Handlers : at'[g] # "fetch" => answer[g] = 0
  BY DEF Verify, Judge, IInv, EdgeTypeOK, Answers, Ended, Found
<1> QED BY <1>1, <1>2, RestKept DEF Verify

\* An answer is right when it is given.
LEMMA RespondKeeps ==
    ASSUME IInv, NEW h \in Handlers, Respond(h)
    PROVE  IInv'
<1> USE DEF Respond, provider, cache
<1>1. Limiter'
  BY CounterKept
<1>2. EdgeTypeOK'
  BY <1>1 DEF IInv, EdgeTypeOK, Limiter
<1>3. Present' /\ Answers'
  BY DEF IInv, EdgeTypeOK, Present, Answers
<1>4. Cache'
  BY DEF IInv, Cache, Fresh
<1> QED BY <1>1, <1>2, <1>3, <1>4 DEF IInv

\* A cache just stored is as old as the answer was on its way.
LEMMA StoreKeeps ==
    ASSUME IInv, NEW h \in Handlers, Store(h)
    PROVE  IInv'
<1> USE DEF Store, Judge, provider
<1>1. Limiter'
  BY CounterKept
<1>2. EdgeTypeOK'
  BY <1>1 DEF IInv, EdgeTypeOK, Ended, Found, Limiter
<1>3. Present' /\ Answers'
  BY DEF IInv, EdgeTypeOK, Present, Answers
<1>4. Cache'
  BY DEF IInv, EdgeTypeOK, Answers, Cache, Fresh, Lag
<1> QED BY <1>1, <1>2, <1>3, <1>4 DEF IInv

LEMMA FetchFailsKeeps ==
    ASSUME IInv, NEW h \in Handlers, FetchFails(h)
    PROVE  IInv'
<1> USE DEF FetchFails, provider, cache
<1>1. Limiter'
  BY CounterKept
<1>2. EdgeTypeOK'
  BY <1>1 DEF IInv, EdgeTypeOK, Ended, Found, Limiter
<1>3. Present' /\ Answers'
  BY DEF IInv, EdgeTypeOK, Present, Answers
<1>4. Cache'
  BY DEF IInv, Cache, Fresh
<1> QED BY <1>1, <1>2, <1>3, <1>4 DEF IInv

\* A key that is replaced now has been wrong nowhere for any time yet.
LEMMA RotateKeeps ==
    ASSUME IInv, Rotate
    PROVE  IInv'
<1> USE DEF Rotate, cache, handler
<1>1. Limiter'
  BY CounterKept
<1>2. EdgeTypeOK'
  BY <1>1 DEF IInv, EdgeTypeOK, Lag, Limiter
<1>3. Present'
  BY DEF IInv, EdgeTypeOK, Present
<1>4. Answers'
  BY DEF IInv, EdgeTypeOK, Present, Answers, Lag
<1>5. Cache'
  BY DEF IInv, EdgeTypeOK, Present, Cache, Fresh, Lag
<1> QED BY <1>1, <1>2, <1>3, <1>4, <1>5 DEF IInv

\* With a tick keys, answers and the cache grow older together.
LEMMA EdgeTickKeeps ==
    ASSUME IInv, EdgeTick
    PROVE  IInv'
<1> USE DEF EdgeTick, Older
<1>1. Limiter'
  BY TickKeeps DEF IInv
<1>2. EdgeTypeOK'
  BY <1>1 DEF IInv, EdgeTypeOK, Lag, Limiter
<1>3. Present'
  BY DEF IInv, EdgeTypeOK, Present
<1>4. Answers'
  BY DEF IInv, EdgeTypeOK, Answers, Lag
<1>5. Cache'
  BY DEF IInv, EdgeTypeOK, Cache, Fresh, Lag
<1> QED BY <1>1, <1>2, <1>3, <1>4, <1>5 DEF IInv

LEMMA NextKeeps ==
    ASSUME IInv, [EdgeNext]_edgeVars
    PROVE  IInv'
<1>1. CASE UNCHANGED edgeVars
  <2>1. Limiter'
    BY <1>1, CounterKept DEF edgeVars
  <2>2. /\ at' \in [Handlers -> Ended \cup {"verify", "fetch"}]
        /\ kid' \in [Handlers -> 1..MaxKeys]
        /\ \A g \in Handlers : at'[g] # "fetch" => answer[g] = 0
    BY <1>1 DEF edgeVars, handler, IInv, EdgeTypeOK, Answers
  <2> QED BY <1>1, <2>1, <2>2, RestKept DEF edgeVars, handler
<1>2. ASSUME NEW r \in Routes, NEW h \in Handlers, NEW k \in 1..MaxKeys,
             Call(r, h, k)
      PROVE  IInv'
  BY <1>2, CallKeeps
<1>3. ASSUME NEW h \in Handlers,
             Verify(h) \/ Respond(h) \/ Store(h) \/ FetchFails(h)
      PROVE  IInv'
  BY <1>3, VerifyKeeps, RespondKeeps, StoreKeeps, FetchFailsKeeps
<1>4. CASE Rotate
  BY <1>4, RotateKeeps
<1>5. CASE EdgeTick
  BY <1>5, EdgeTickKeeps
<1> QED BY <1>1, <1>2, <1>3, <1>4, <1>5, Zenon DEF EdgeNext

LEMMA Invariant == EdgeSpec => []IInv
<1>1. EdgeInit => IInv
  BY InitHolds
<1>2. IInv /\ [EdgeNext]_edgeVars => IInv'
  BY NextKeeps
<1> QED BY <1>1, <1>2, PTL DEF EdgeSpec

\* Where a verdict can come from: the cache in use, or an answer just received.
LEMMA VerdictFrom ==
    ASSUME IInv, [EdgeNext]_edgeVars, NEW h \in Handlers,
           NEW how \in {Found, {"refused"}}, EndsIn(h, how)
    PROVE  \E k \in 1..key :
               /\ how = Found <=> kid[h] = k
               /\ k # key => since[k] < Lag /\ young < Lag
<1> USE DEF EndsIn, Found
<1>1. CASE UNCHANGED edgeVars
  BY <1>1 DEF edgeVars, handler
<1>2. ASSUME NEW r \in Routes, NEW g \in Handlers, NEW k \in 1..MaxKeys,
             Call(r, g, k)
      PROVE  FALSE
  BY <1>2 DEF Call, IInv, EdgeTypeOK
<1>3. ASSUME NEW g \in Handlers, Respond(g) \/ FetchFails(g)
      PROVE  FALSE
  BY <1>3 DEF Respond, FetchFails, IInv, EdgeTypeOK
<1>4. CASE Rotate \/ EdgeTick
  BY <1>4 DEF Rotate, EdgeTick, handler
<1>5. ASSUME NEW g \in Handlers, Verify(g)
      PROVE  /\ cached \in 1..key
             /\ how = Found <=> kid[h] = cached
             /\ cached # key => since[cached] < Lag /\ young < Lag
  <2>1. g = h /\ Fresh /\ Judge(h, cached)
    BY <1>5 DEF Verify, Judge, IInv, EdgeTypeOK
  <2>2. how = Found <=> kid[h] = cached
    BY <2>1 DEF Judge, IInv, EdgeTypeOK
  <2>3. /\ cached \in 1..key
        /\ cached # key => since[cached] < Lag /\ young < Lag
    BY <2>1 DEF IInv, EdgeTypeOK, Cache, Fresh, Lag
  <2> QED BY <2>2, <2>3
<1>6. ASSUME NEW g \in Handlers, Store(g)
      PROVE  /\ answer[h] \in 1..key
             /\ how = Found <=> kid[h] = answer[h]
             /\ answer[h] # key => since[answer[h]] < Lag /\ young < Lag
  <2>1. g = h /\ answer[h] # 0 /\ Judge(h, answer[h])
    BY <1>6 DEF Store, Judge, IInv, EdgeTypeOK
  <2>2. how = Found <=> kid[h] = answer[h]
    BY <2>1 DEF Judge, IInv, EdgeTypeOK
  <2>3. /\ answer[h] \in 1..key
        /\ answer[h] # key => since[answer[h]] < Lag /\ young < Lag
    <3>1. /\ answer[h] \in 1..MaxKeys /\ key \in 1..MaxKeys
          /\ travel[h] \in 0..FetchTime /\ young \in Nat
          /\ since[answer[h]] \in Nat
      BY <2>1 DEF IInv, EdgeTypeOK
    <3>2. /\ answer[h] <= key
          /\ answer[h] # key => since[answer[h]] <= travel[h] /\ young <= travel[h]
      BY <2>1 DEF IInv, Answers
    <3> QED BY <3>1, <3>2 DEF Lag
  <2> QED BY <2>2, <2>3
<1>7. CASE \E g \in Handlers : Verify(g)
  BY <1>5, <1>7
<1>8. CASE \E g \in Handlers : Store(g)
  BY <1>6, <1>8
<1> QED BY <1>1, <1>2, <1>3, <1>4, <1>7, <1>8, Zenon DEF EdgeNext

-----------------------------------------------------------------------------
\* The variables of limiter, cache and handlers keep their types.
THEOREM TypeCorrect == EdgeSpec => []EdgeTypeOK
<1>1. IInv => EdgeTypeOK BY DEF IInv
<1> QED BY <1>1, Invariant, PTL

\* Who waits as long as Retry-After says starts afresh (rate_limit_check).
THEOREM RetryAfterTrue == EdgeSpec => []RetryAfterHolds
<1>1. IInv => RetryAfterHolds
  BY DEF IInv, Limiter, TypeOK, KeyLives, RetryAfterHolds
<1> QED BY <1>1, Invariant, PTL

\* In no stretch as long as the shortest window does a route pass on more
\* requests than its limit, whatever the other routes do to the one counter
\* (rate_limit_check).
THEOREM WindowsBounded == EdgeSpec => []WindowBounded
<1>1. ASSUME IInv, NEW r \in Routes, NEW n \in 0..Horizon, FitsWindows(n)
      PROVE  Cardinality(Passed(r, n)) <= Limit[r]
  <2> DEFINE f == [x \in Passed(r, n) |-> x.nth]
  <2>1. LogOf(n) /\ \A x \in admitted : x.nth <= Limit[x.route]
    BY <1>1 DEF IInv, Limiter, Log
  <2>2. \A x \in Passed(r, n) : /\ x \in admitted /\ x.age < n /\ x.route = r
                                /\ x.nth \in 1..MaxRequests
    BY <1>1 DEF Passed, IInv, Limiter, TypeOK, Entry
  <2>3. f \in [Passed(r, n) -> 1..Limit[r]]
    BY <2>1, <2>2
  <2>4. \A x, y \in Passed(r, n) : x.nth = y.nth => x = y
    BY <2>1, <2>2 DEF LogOf
  <2>5. f \in Injection(Passed(r, n), 1..Limit[r])
    BY <2>3, <2>4 DEF Injection, IsInjective
  <2>6. Limit[r] \in Nat /\ IsFiniteSet(1..Limit[r]) /\ Cardinality(1..Limit[r]) = Limit[r]
    BY FS_Interval
  <2> QED BY <2>5, <2>6, FS_Injection
<1>2. IInv => WindowBounded
  BY <1>1 DEF WindowBounded
<1> QED BY <1>2, Invariant, PTL

\* The key of a token is found for less than Lag after it was
\* replaced (get_jwks).
THEOREM ReplacedKeysDie == EdgeSpec => ReplacedKeyDies
<1>1. IInv /\ [EdgeNext]_edgeVars =>
        [\A h \in Handlers :
            EndsIn(h, Found) /\ kid[h] # key => since[kid[h]] < Lag]_edgeVars
  <2> SUFFICES ASSUME IInv, [EdgeNext]_edgeVars, NEW h \in Handlers,
                      EndsIn(h, Found), kid[h] # key
               PROVE  since[kid[h]] < Lag
    OBVIOUS
  <2> QED BY VerdictFrom
<1> QED BY <1>1, Invariant, PTL DEF EdgeSpec, ReplacedKeyDies

\* Tokens of the present key are refused as unknown for less than Lag (_find_key).
THEOREM NewKeysLearned == EdgeSpec => NewKeyLearned
<1>1. IInv /\ [EdgeNext]_edgeVars =>
        [\A h \in Handlers :
            EndsIn(h, {"refused"}) /\ kid[h] = key => young < Lag]_edgeVars
  <2> SUFFICES ASSUME IInv, [EdgeNext]_edgeVars, NEW h \in Handlers,
                      EndsIn(h, {"refused"}), kid[h] = key
               PROVE  young < Lag
    OBVIOUS
  <2>1. PICK k \in 1..key : /\ {"refused"} = Found <=> kid[h] = k
                            /\ k # key => since[k] < Lag /\ young < Lag
    BY VerdictFrom
  <2> QED BY <2>1 DEF Found
<1> QED BY <1>1, Invariant, PTL DEF EdgeSpec, NewKeyLearned

-----------------------------------------------------------------------------
(* The lists: places in descending order *)

USE RowsAssumption, ReturnsAssumption, PageAssumption

\* The place of r in a list of rows S; Place(r) is its place among those shown.
Rank(S, r) == Cardinality({s \in S : s >= r})

\* A list of rows is finite, and its places are those of its rows.
LEMMA RankType ==
    ASSUME NEW S \in SUBSET Rows
    PROVE  /\ IsFiniteSet(S) /\ Cardinality(S) \in 0..MaxRows
           /\ \A r \in Rows : Rank(S, r) \in 0..Cardinality(S)
           /\ \A r \in S : Rank(S, r) \in 1..Cardinality(S)
<1>1. IsFiniteSet(Rows) /\ Cardinality(Rows) = MaxRows
  BY FS_Interval DEF Rows
<1>2. IsFiniteSet(S) /\ Cardinality(S) <= MaxRows /\ Cardinality(S) \in Nat
  BY <1>1, FS_Subset, FS_CardinalityType
<1>3. ASSUME NEW r \in Rows PROVE Rank(S, r) \in 0..Cardinality(S)
  <2> DEFINE T == {s \in S : s >= r}
  <2>1. T \in SUBSET S
    OBVIOUS
  <2>2. IsFiniteSet(T) /\ Cardinality(T) <= Cardinality(S)
    BY <1>2, <2>1, FS_Subset
  <2>3. Cardinality(T) \in Nat
    BY <2>2, FS_CardinalityType
  <2> QED BY <1>2, <2>2, <2>3 DEF Rank
<1>4. ASSUME NEW r \in S PROVE Rank(S, r) \in 1..Cardinality(S)
  <2> DEFINE T == {s \in S : s >= r}
  <2>1. r \in T /\ T \in SUBSET S
    BY DEF Rows
  <2>2. IsFiniteSet(T)
    BY <1>2, <2>1, FS_Subset
  <2>3. Cardinality(T) # 0
    BY <2>1, <2>2, FS_EmptySet
  <2>4. Cardinality(T) \in 0..Cardinality(S)
    BY <1>3 DEF Rank
  <2> QED BY <1>2, <2>3, <2>4 DEF Rank
<1> QED BY <1>2, <1>3, <1>4

\* The newer of two rows has the lower place.
LEMMA RankOrder ==
    ASSUME NEW S \in SUBSET Rows, NEW r \in Rows, NEW s \in S, r < s
    PROVE  /\ Rank(S, s) <= Rank(S, r)
           /\ r \in S => Rank(S, s) < Rank(S, r)
<1> DEFINE T == {t \in S : t >= s}
           U == {t \in S : t >= r}
<1>1. IsFiniteSet(U)
  <2>1. U \in SUBSET S
    OBVIOUS
  <2> QED BY <2>1, RankType, FS_Subset
<1>2. T \in SUBSET U
  <2>1. r \in Nat /\ s \in Nat /\ \A t \in S : t \in Nat
    BY DEF Rows
  <2>2. \A t \in S : t >= s => t >= r
    BY <2>1
  <2> QED BY <2>2
<1>3. /\ Cardinality(T) <= Cardinality(U)
      /\ Cardinality(U) = Cardinality(T) => U = T
  BY <1>1, <1>2, FS_Subset
<1>4. r \in S => r \in U /\ r \notin T
  BY DEF Rows
<1>5. Cardinality(T) \in Nat /\ Cardinality(U) \in Nat
  BY <1>1, <1>2, FS_Subset, FS_CardinalityType
<1>6. Rank(S, s) = Cardinality(T) /\ Rank(S, r) = Cardinality(U)
  BY DEF Rank
<1> HIDE DEF T, U
<1> QED BY <1>3, <1>4, <1>5, <1>6

\* No two rows share a place.
LEMMA RankInjective ==
    ASSUME NEW S \in SUBSET Rows, NEW r \in S, NEW s \in S,
           Rank(S, r) = Rank(S, s)
    PROVE  r = s
<1>1. r \in Nat /\ s \in Nat /\ r \in Rows /\ s \in Rows
  BY DEF Rows
<1>2. Rank(S, r) \in 0..Cardinality(S) /\ Cardinality(S) \in Nat
  BY <1>1, RankType
<1>3. ~(r < s) /\ ~(s < r)
  BY <1>1, <1>2, RankOrder
<1> QED BY <1>1, <1>3

\* A place is higher by at most one for each row that joins the list.
LEMMA RankGrows ==
    ASSUME NEW S \in SUBSET Rows, NEW d \in Rows, NEW r \in Rows
    PROVE  /\ Rank(S, r) <= Rank(S \cup {d}, r)
           /\ Rank(S \cup {d}, r) <= Rank(S, r) + 1
<1> DEFINE T == {t \in S : t >= r}
           U == {t \in S \cup {d} : t >= r}
<1>1. IsFiniteSet(T)
  <2>1. T \in SUBSET S
    OBVIOUS
  <2> QED BY <2>1, RankType, FS_Subset
<1>2. U = T \/ U = T \cup {d}
  OBVIOUS
<1>3. Cardinality(T) \in Nat
  BY <1>1, FS_CardinalityType
<1>4. Rank(S, r) = Cardinality(T) /\ Rank(S \cup {d}, r) = Cardinality(U)
  BY DEF Rank
<1> HIDE DEF T, U
<1>5. \/ Cardinality(T \cup {d}) = Cardinality(T)
      \/ Cardinality(T \cup {d}) = Cardinality(T) + 1
  BY <1>1, FS_AddElement
<1>6. Cardinality(U) = Cardinality(T) \/ Cardinality(U) = Cardinality(T) + 1
  BY <1>2, <1>5
<1> QED BY <1>3, <1>4, <1>6

\* Every place up to the length of the list is taken.
LEMMA RankTaken ==
    ASSUME NEW S \in SUBSET Rows, NEW i \in 1..Cardinality(S)
    PROVE  \E s \in S : Rank(S, s) = i
<1> DEFINE n == Cardinality(S)
           f == [s \in S |-> Rank(S, s)]
<1>1. n \in Nat /\ f \in [S -> 1..n]
  BY RankType
<1>2. f \in Injection(S, 1..n)
  BY <1>1, RankInjective DEF Injection, IsInjective
<1>3. IsFiniteSet(1..n) /\ Cardinality(1..n) = n
  BY <1>1, FS_Interval
<1>4. f \in Surjection(S, 1..n)
  BY <1>2, <1>3, FS_Injection
<1>5. \E s \in S : f[s] = i
  BY <1>4 DEF Surjection
<1> QED BY <1>5

\* So many rows are beyond place k.
LEMMA RankBeyond ==
    ASSUME NEW S \in SUBSET Rows, NEW k \in Nat, NEW m \in Nat,
           Cardinality(S) <= k + m
    PROVE  /\ IsFiniteSet({s \in S : Rank(S, s) > k})
           /\ Cardinality({s \in S : Rank(S, s) > k}) <= m
<1> DEFINE n == Cardinality(S)
           T == {s \in S : Rank(S, s) > k}
           f == [s \in T |-> Rank(S, s)]
<1>1. n \in Nat /\ n \in Int /\ k + 1 \in Int /\ f \in [T -> (k + 1)..n]
  BY RankType
<1>2. f \in Injection(T, (k + 1)..n)
  BY <1>1, RankInjective DEF Injection, IsInjective
<1>3. /\ IsFiniteSet((k + 1)..n)
      /\ Cardinality((k + 1)..n) = IF k + 1 > n THEN 0 ELSE n - (k + 1) + 1
  BY <1>1, FS_Interval
<1>4. IsFiniteSet(T) /\ Cardinality(T) <= Cardinality((k + 1)..n)
  BY <1>2, <1>3, FS_Injection
<1>5. Cardinality(T) \in Nat
  BY <1>4, FS_CardinalityType
<1>6. Cardinality((k + 1)..n) <= m
  BY <1>1, <1>3
<1> HIDE DEF T
<1>7. Cardinality(T) <= m
  BY <1>1, <1>3, <1>4, <1>5, <1>6
<1> QED BY <1>4, <1>7 DEF T

-----------------------------------------------------------------------------
(* The lists: the invariant *)

\* Rows that have been in the list, and rows that have left it.
Entered == {r \in visible : match[r] # "no"}
Gone == {r \in Rows : match[r] = "left"}

\* A row comes and goes once, and once more each time it is brought back:
\* that bounds the drift.
RowsInv ==
    /\ Gone \subseteq visible
    /\ filter = "none" => \A r \in 1..begun : match[r] = "yes"
    /\ start \subseteq Entered /\ seen \subseteq Entered
    /\ arrived <= Cardinality(Entered) + returns
    /\ left <= Cardinality(Gone) + returns

\* A client that has not begun.
Unbegun ==
    step = "idle" => page = 1 /\ seen = {} /\ start = {} /\ left = 0

\* Rows of the beginning that have not been received, wherever they are now.
Unseen == start \ seen

\* The client will not meet s any more unless it moves: it is past its place,
\* or has a row that comes after it, or s has left and may come back there.
Behind(s) ==
    \/ \E r \in seen : s > r
    \/ step # "done" /\ (s \notin Shown \/ Place(s) <= (page - 1) * PageSize)

\* Each row that is lost so has left, or was pushed over the offset by one
\* that left.
Holes == Cardinality({s \in Unseen : Behind(s)}) <= left

\* The total is too low by no more than what arrived after the count.
Loss ==
    /\ step = "select" => Cardinality(Shown) <= total + arrived
    /\ step = "done" => Cardinality(Unseen) <= arrived + left

\* The total of the notifications counts other types as well.
Uncounted == list = "notifications" /\ filter = "fixed"

\* Unless rows left, the total is not too high, and the page announced exists.
Announced ==
    /\ left = 0 /\ ~Uncounted =>
        /\ step = "select" => total <= Cardinality(Shown)
        /\ step \in {"count", "select"} /\ page > 1 =>
            (page - 1) * PageSize < Cardinality(Shown)
    /\ NextPageHasRows

ListIInv ==
    ListTypeOK /\ RowsInv /\ Unbegun /\ Holes /\ Loss /\ Announced

\* Sets of rows are finite.
LEMMA RowSets ==
    ASSUME ListTypeOK
    PROVE  /\ visible \in SUBSET Rows /\ Shown \in SUBSET Rows
           /\ Entered \in SUBSET Rows /\ Gone \in SUBSET Rows
           /\ Missing \in SUBSET Unseen /\ Unseen \in SUBSET Rows
           /\ \A r \in Rows : Place(r) = Rank(Shown, r)
<1>1. visible \in SUBSET Rows
  BY DEF ListTypeOK, Rows
<1> QED BY <1>1 DEF ListTypeOK, Shown, Entered, Gone, Missing, Unseen, Place, Rank

\* What a writer does to the list: nothing,
Still ==
    /\ Shown' = Shown /\ Entered' = Entered /\ Gone' = Gone
    /\ arrived' = arrived /\ left' = left /\ returns' = returns

\* a row comes into it, for the first time or again,
Enters(r) ==
    /\ r \in Rows \ Shown
    /\ Shown' = Shown \cup {r} /\ Entered' = Entered \cup {r}
    /\ \/ r \notin Entered /\ Gone' = Gone /\ returns' = returns
       \/ r \in Gone /\ Gone' = Gone \ {r} /\ returns' = returns + 1
    /\ arrived' = (IF step = "select" THEN arrived + 1 ELSE arrived)
    /\ left' = left

\* or a row leaves it.
Leaves(r) ==
    /\ r \in Shown \ Gone
    /\ Shown' = Shown \ {r} /\ Entered' = Entered /\ Gone' = Gone \cup {r}
    /\ arrived' = arrived /\ returns' = returns
    /\ left' = IF step \in {"count", "select"} THEN left + 1 ELSE left

Write ==
    \/ \E m \in {"no", "yes"} : Begin(m)
    \/ \E r \in Rows : Commit(r) \/ Move(r) \/ Return(r)

LEMMA WriteEffect ==
    ASSUME ListTypeOK, RowsInv, Write
    PROVE  /\ UNCHANGED <<list, filter, walk>>
           /\ Still \/ \E r \in Rows : Enters(r) \/ Leaves(r)
<1>0. /\ arrived \in Nat /\ left \in Nat /\ begun \in Nat
      /\ visible \in SUBSET (1..begun) /\ visible \in SUBSET Rows
      /\ match \in [Rows -> {"no", "yes", "left"}]
  BY RowSets DEF ListTypeOK
<1>1. Cardinality({}) = 0 /\ \A x : Cardinality({x}) = 1
  BY FS_EmptySet, FS_Singleton
<1>2. ASSUME NEW m \in {"no", "yes"}, Begin(m)
      PROVE  UNCHANGED <<list, filter, walk>> /\ Still
  <2>1. /\ begun + 1 \in Rows /\ begun + 1 \notin visible
        /\ match' = [match EXCEPT ![begun + 1] = m] /\ visible' = visible
        /\ UNCHANGED <<list, filter, walk, arrived, left, returns>>
    BY <1>0, <1>2 DEF Begin, drift, Rows
  <2>2. begun + 1 \notin Gone
    BY <2>1 DEF RowsInv
  <2>3. \A r \in visible : match'[r] = match[r]
    BY <1>0, <2>1
  <2>4. Shown' = Shown /\ Entered' = Entered
    BY <2>1, <2>3 DEF Shown, Entered
  <2>5. Gone' = Gone
    BY <1>0, <1>2, <2>1, <2>2 DEF Gone
  <2> QED BY <2>1, <2>4, <2>5 DEF Still
<1>3. ASSUME Drift, Shown' = Shown PROVE arrived' = arrived /\ left' = left
  <2>1. Shown' \ Shown = {} /\ Shown \ Shown' = {}
    BY <1>3
  <2> QED BY <1>0, <1>1, <1>3, <2>1 DEF Drift
<1>4. ASSUME Drift, NEW r, r \notin Shown, Shown' = Shown \cup {r}
      PROVE  /\ arrived' = IF step = "select" THEN arrived + 1 ELSE arrived
             /\ left' = left
  <2>1. Shown' \ Shown = {r} /\ Shown \ Shown' = {}
    BY <1>4
  <2>2. Cardinality(Shown' \ Shown) = 1 /\ Cardinality(Shown \ Shown') = 0
    BY <1>1, <2>1, Zenon
  <2>3. /\ arrived' = IF step = "select" THEN arrived + 1 ELSE arrived
        /\ left' = IF step \in {"count", "select"} THEN left + 0 ELSE left
    BY <1>4, <2>2, Zenon DEF Drift
  <2> QED BY <1>0, <2>3
<1>5. ASSUME Drift, NEW r, r \in Shown, Shown' = Shown \ {r}
      PROVE  /\ left' = IF step \in {"count", "select"} THEN left + 1 ELSE left
             /\ arrived' = arrived
  <2>1. Shown' \ Shown = {} /\ Shown \ Shown' = {r}
    BY <1>5
  <2>2. Cardinality(Shown' \ Shown) = 0 /\ Cardinality(Shown \ Shown') = 1
    BY <1>1, <2>1, Zenon
  <2>3. /\ arrived' = IF step = "select" THEN arrived + 0 ELSE arrived
        /\ left' = IF step \in {"count", "select"} THEN left + 1 ELSE left
    BY <1>5, <2>2, Zenon DEF Drift
  <2> QED BY <1>0, <2>3
<1>6. ASSUME NEW r \in Rows, Commit(r)
      PROVE  UNCHANGED <<list, filter, walk>> /\ (Still \/ Enters(r))
  <2>1. /\ r \notin visible /\ visible' = visible \cup {r} /\ match' = match
        /\ UNCHANGED <<list, filter, walk, returns>> /\ Drift
    BY <1>6 DEF Commit
  <2>2. r \notin Entered /\ r \notin Shown /\ r \notin Gone
    BY <2>1 DEF Entered, Shown, RowsInv
  <2>3. Gone' = Gone
    BY <2>1 DEF Gone
  <2>4. CASE match[r] = "yes"
    <3>1. Shown' = Shown \cup {r} /\ Entered' = Entered \cup {r}
      BY <2>1, <2>4 DEF Shown, Entered
    <3>2. /\ arrived' = IF step = "select" THEN arrived + 1 ELSE arrived
          /\ left' = left
      BY <1>4, <2>1, <2>2, <3>1
    <3> QED BY <2>1, <2>2, <2>3, <3>1, <3>2 DEF Enters
  <2>5. CASE match[r] = "no"
    <3>1. Shown' = Shown /\ Entered' = Entered
      BY <2>1, <2>5 DEF Shown, Entered
    <3> QED BY <1>3, <2>1, <2>3, <3>1 DEF Still
  <2>6. match[r] # "left"
    BY <2>2 DEF Gone
  <2> QED BY <1>0, <2>4, <2>5, <2>6
<1>7. ASSUME NEW r \in Rows, Move(r)
      PROVE  UNCHANGED <<list, filter, walk>> /\ (Enters(r) \/ Leaves(r))
  <2>1. /\ r \in visible /\ visible' = visible
        /\ UNCHANGED <<list, filter, walk, returns>> /\ Drift
    BY <1>7 DEF Move
  <2>2. CASE match[r] = "no" /\ match' = [match EXCEPT ![r] = "yes"]
    <3>1. Shown' = Shown \cup {r} /\ Entered' = Entered \cup {r} /\ Gone' = Gone
      BY <1>0, <2>1, <2>2 DEF Shown, Entered, Gone
    <3>2. r \notin Shown /\ r \notin Entered
      BY <2>2 DEF Shown, Entered
    <3>3. /\ arrived' = IF step = "select" THEN arrived + 1 ELSE arrived
          /\ left' = left
      BY <1>4, <2>1, <3>1, <3>2
    <3> QED BY <2>1, <3>1, <3>2, <3>3 DEF Enters
  <2>3. CASE match[r] = "yes" /\ match' = [match EXCEPT ![r] = "left"]
    <3>1. Shown' = Shown \ {r} /\ Entered' = Entered /\ Gone' = Gone \cup {r}
      BY <1>0, <2>1, <2>3 DEF Shown, Entered, Gone
    <3>2. r \in Shown /\ r \notin Gone
      BY <2>1, <2>3 DEF Shown, Gone
    <3>3. /\ left' = IF step \in {"count", "select"} THEN left + 1 ELSE left
          /\ arrived' = arrived
      BY <1>5, <2>1, <3>1, <3>2
    <3> QED BY <2>1, <3>1, <3>2, <3>3 DEF Leaves
  <2> QED BY <1>7, <2>1, <2>2, <2>3 DEF Move
<1>8. ASSUME NEW r \in Rows, Return(r)
      PROVE  UNCHANGED <<list, filter, walk>> /\ Enters(r)
  <2>1. /\ visible' = visible /\ match[r] = "left" /\ returns' = returns + 1
        /\ match' = [match EXCEPT ![r] = "yes"]
        /\ UNCHANGED <<list, filter, walk>> /\ Drift
    BY <1>8 DEF Return
  <2>2. r \in Gone /\ r \notin Shown /\ r \in visible
    BY <2>1 DEF Gone, Shown, RowsInv
  <2>3. Shown' = Shown \cup {r} /\ Entered' = Entered \cup {r} /\ Gone' = Gone \ {r}
    BY <1>0, <2>1, <2>2 DEF Shown, Entered, Gone
  <2>4. /\ arrived' = IF step = "select" THEN arrived + 1 ELSE arrived
        /\ left' = left
    BY <1>4, <2>1, <2>2, <2>3
  <2> QED BY <2>1, <2>2, <2>3, <2>4 DEF Enters
<1> QED BY <1>2, <1>6, <1>7, <1>8 DEF Write

\* The types of the tables, which only grow.
LEMMA WriteTypes ==
    ASSUME ListTypeOK, RowsInv, Write
    PROVE  /\ begun' \in 0..MaxRows /\ visible' \in SUBSET (1..begun')
           /\ match' \in [Rows -> {"no", "yes", "left"}]
           /\ visible \subseteq visible' /\ returns' \in 0..MaxReturns
           /\ filter = "none" => \A r \in 1..begun' : match'[r] = "yes"
<1> USE DEF ListTypeOK, RowsInv
<1>1. ASSUME NEW m \in {"no", "yes"}, Begin(m)
      PROVE  /\ begun' \in 0..MaxRows /\ visible' \in SUBSET (1..begun')
             /\ match' \in [Rows -> {"no", "yes", "left"}]
             /\ visible \subseteq visible' /\ returns' \in 0..MaxReturns
             /\ filter = "none" => \A r \in 1..begun' : match'[r] = "yes"
  BY <1>1 DEF Begin, Rows
<1>2. ASSUME NEW q \in Rows, Commit(q) \/ Move(q) \/ Return(q)
      PROVE  /\ begun' \in 0..MaxRows /\ visible' \in SUBSET (1..begun')
             /\ match' \in [Rows -> {"no", "yes", "left"}]
             /\ visible \subseteq visible' /\ returns' \in 0..MaxReturns
             /\ filter = "none" => \A r \in 1..begun' : match'[r] = "yes"
  <2>1. CASE Commit(q)
    BY <2>1 DEF Commit
  <2>2. CASE Move(q)
    BY <2>2 DEF Move
  <2>3. CASE Return(q)
    <3>1. /\ begun' = begun /\ visible' = visible /\ filter # "none"
          /\ match' = [match EXCEPT ![q] = "yes"]
          /\ returns' = returns + 1 /\ returns < MaxReturns
      BY <2>3 DEF Return
    <3> QED BY <3>1
  <2> QED BY <1>2, <2>1, <2>2, <2>3
<1> QED BY <1>1, <1>2 DEF Write

\* The rows and their types after a write.
LEMMA WriteRows ==
    ASSUME ListIInv, Write
    PROVE  ListTypeOK' /\ RowsInv' /\ Unbegun'
<1> USE DEF walk
<1>1. ListTypeOK /\ RowsInv /\ Unbegun
  BY DEF ListIInv
<1>2. /\ UNCHANGED <<list, filter, walk>>
      /\ Still \/ \E r \in Rows : Enters(r) \/ Leaves(r)
  BY <1>1, WriteEffect
<1>3. /\ begun' \in 0..MaxRows /\ visible' \in SUBSET (1..begun')
      /\ match' \in [Rows -> {"no", "yes", "left"}]
      /\ visible \subseteq visible' /\ returns' \in 0..MaxReturns
      /\ filter = "none" => \A r \in 1..begun' : match'[r] = "yes"
  BY <1>1, WriteTypes
<1>4. /\ Entered \in SUBSET Rows /\ Gone \in SUBSET Rows
      /\ Shown \in SUBSET Rows /\ arrived \in Nat /\ left \in Nat
  BY <1>1, RowSets DEF ListTypeOK
<1>5. /\ IsFiniteSet(Entered) /\ Cardinality(Entered) \in Nat
      /\ IsFiniteSet(Gone) /\ Cardinality(Gone) \in Nat
      /\ returns \in Nat /\ arrived <= Cardinality(Entered) + returns
      /\ left <= Cardinality(Gone) + returns
  BY <1>1, <1>4, RankType DEF RowsInv, ListTypeOK
<1>6. /\ Entered \subseteq Entered' /\ Gone' \subseteq visible'
      /\ Entered' \in SUBSET Rows /\ Gone' \in SUBSET Rows
      /\ arrived' \in Nat /\ left' \in Nat
      /\ arrived' <= Cardinality(Entered') + returns'
      /\ left' <= Cardinality(Gone') + returns'
  <2>1. CASE Still
    BY <1>1, <1>3, <1>4, <1>5, <2>1 DEF Still, RowsInv
  <2>2. ASSUME NEW r \in Rows, Enters(r)
        PROVE  /\ Entered \subseteq Entered' /\ Gone' \subseteq visible'
               /\ Entered' \in SUBSET Rows /\ Gone' \in SUBSET Rows
               /\ arrived' \in Nat /\ left' \in Nat
               /\ arrived' <= Cardinality(Entered') + returns'
               /\ left' <= Cardinality(Gone') + returns'
    <3>1. CASE r \notin Entered /\ Gone' = Gone /\ returns' = returns
      <4>1. Cardinality(Entered \cup {r}) = Cardinality(Entered) + 1
        BY <1>5, <3>1, FS_AddElement
      <4> QED BY <1>1, <1>3, <1>4, <1>5, <2>2, <3>1, <4>1 DEF Enters, RowsInv
    <3>2. CASE r \in Gone /\ Gone' = Gone \ {r} /\ returns' = returns + 1
      <4>1. Entered' = Entered
        BY <1>1, <2>2, <3>2 DEF Enters, RowsInv, Entered, Gone
      <4>2. Cardinality(Gone') = Cardinality(Gone) - 1
        BY <1>5, <3>2, FS_RemoveElement
      <4>3. Gone' \subseteq visible' /\ Gone' \in SUBSET Rows
        BY <1>1, <1>3, <1>4, <3>2 DEF RowsInv
      <4>4. /\ arrived' \in Nat /\ arrived' <= arrived + 1
            /\ left' = left
        BY <1>4, <2>2 DEF Enters
      <4> QED BY <1>4, <1>5, <3>2, <4>1, <4>2, <4>3, <4>4
    <3> QED BY <2>2, <3>1, <3>2 DEF Enters
  <2>3. ASSUME NEW r \in Rows, Leaves(r)
        PROVE  /\ Entered \subseteq Entered' /\ Gone' \subseteq visible'
               /\ Entered' \in SUBSET Rows /\ Gone' \in SUBSET Rows
               /\ arrived' \in Nat /\ left' \in Nat
               /\ arrived' <= Cardinality(Entered') + returns'
               /\ left' <= Cardinality(Gone') + returns'
    <3>1. Cardinality(Gone \cup {r}) = Cardinality(Gone) + 1
      BY <1>5, <2>3, FS_AddElement DEF Leaves
    <3>2. r \in visible
      BY <2>3 DEF Leaves, Shown
    <3> QED BY <1>1, <1>3, <1>4, <1>5, <2>3, <3>1, <3>2 DEF Leaves, RowsInv
  <2> QED BY <1>2, <2>1, <2>2, <2>3
<1>7. arrived' \in 0..(MaxRows + MaxReturns) /\ left' \in 0..(MaxRows + MaxReturns)
  <2>1. Cardinality(Entered') \in 0..MaxRows /\ Cardinality(Gone') \in 0..MaxRows
    BY <1>6, RankType
  <2> QED BY <1>3, <1>6, <2>1
<1>8. ListTypeOK'
  BY <1>1, <1>2, <1>3, <1>7 DEF ListTypeOK
<1>9. RowsInv'
  BY <1>1, <1>2, <1>3, <1>6 DEF RowsInv
<1>10. Unbegun'
  BY <1>1, <1>2 DEF Unbegun, Still, Enters, Leaves
<1> QED BY <1>8, <1>9, <1>10

\* A smaller set of rows.
LEMMA FewerRows ==
    ASSUME NEW S \in SUBSET Rows, NEW T \in SUBSET S
    PROVE  /\ IsFiniteSet(S) /\ Cardinality(S) \in Nat
           /\ Cardinality(T) \in Nat /\ Cardinality(T) <= Cardinality(S)
<1>1. IsFiniteSet(S) /\ IsFiniteSet(T) /\ Cardinality(T) <= Cardinality(S)
  BY RankType, FS_Subset
<1> QED BY <1>1, FS_CardinalityType

\* A write loses the client at most the row that a row that left pushed over
\* the offset.
LEMMA WriteHoles ==
    ASSUME ListIInv, Write
    PROVE  Holes' /\ Unseen' = Unseen
<1> USE DEF walk
<1> DEFINE H == {s \in Unseen : Behind(s)}
           k == (page - 1) * PageSize
<1>1. ListTypeOK /\ RowsInv /\ Unbegun /\ Holes
  BY DEF ListIInv
<1>2. /\ UNCHANGED <<list, filter, walk>>
      /\ Still \/ \E r \in Rows : Enters(r) \/ Leaves(r)
  BY <1>1, WriteEffect
<1>3. /\ Shown \in SUBSET Rows /\ Unseen \in SUBSET Rows /\ left \in Nat
      /\ \A r \in Rows : Place(r) = Rank(Shown, r) /\ Rank(Shown, r) \in Nat
      /\ k \in Int
  <2>1. /\ Shown \in SUBSET Rows /\ Unseen \in SUBSET Rows /\ left \in Nat
        /\ \A r \in Rows : Place(r) = Rank(Shown, r)
    BY <1>1, RowSets DEF ListTypeOK
  <2>2. /\ Cardinality(Shown) \in Nat
        /\ \A r \in Rows : Rank(Shown, r) \in 0..Cardinality(Shown)
    BY <2>1, RankType
  <2>3. page \in Int /\ PageSize \in Int
    BY <1>1 DEF ListTypeOK
  <2> QED BY <2>1, <2>2, <2>3
<1>4. \A r \in Rows : Place(r)' = Rank(Shown', r)
  BY DEF Place, Rank
<1>5. Unseen' = Unseen
  BY <1>2 DEF Unseen
<1>6. \A s : s \in H' <=> /\ s \in Unseen
                           /\ \/ \E r \in seen : s > r
                              \/ /\ step # "done"
                                 /\ s \notin Shown' \/ Rank(Shown', s) <= k
  <2>1. \A s \in Unseen : Behind(s)' <=> \/ \E r \in seen : s > r
                                         \/ /\ step # "done"
                                            /\ s \notin Shown' \/ Rank(Shown', s) <= k
    BY <1>2, <1>3, <1>4 DEF Behind
  <2> QED BY <1>5, <2>1
<1>7. \A s : s \in H <=> /\ s \in Unseen
                          /\ \/ \E r \in seen : s > r
                             \/ /\ step # "done"
                                /\ s \notin Shown \/ Rank(Shown, s) <= k
  <2>1. \A s \in Unseen : Behind(s) <=> \/ \E r \in seen : s > r
                                        \/ /\ step # "done"
                                           /\ s \notin Shown \/ Rank(Shown, s) <= k
    BY <1>3 DEF Behind
  <2> QED BY <2>1
<1>8. H \in SUBSET Rows /\ IsFiniteSet(H) /\ Cardinality(H) \in Nat
      /\ Cardinality(H) <= left
  BY <1>1, <1>3, FewerRows DEF Holes
<1> HIDE DEF H, k
<1>9. ASSUME H' \subseteq H, left' \in Nat, left <= left'
      PROVE  Cardinality(H') <= left'
  <2>1. Cardinality(H') \in Nat /\ Cardinality(H') <= Cardinality(H)
    BY <1>8, <1>9, FewerRows
  <2> QED BY <1>3, <1>8, <1>9, <2>1
<1>10. CASE Still
  <2>1. H' \subseteq H
    BY <1>6, <1>7, <1>10 DEF Still
  <2> QED BY <1>3, <1>5, <1>9, <1>10, <2>1 DEF Still, Holes, H
<1>11. ASSUME NEW r \in Rows, Enters(r) PROVE Cardinality(H') <= left'
  <2>1. \A s \in Rows : Rank(Shown, s) <= Rank(Shown', s) /\ Rank(Shown', s) \in Nat
    BY <1>3, <1>11, RankGrows, RankType DEF Enters
  <2>2. Shown \subseteq Shown'
    BY <1>11 DEF Enters
  <2>3. H' \subseteq H
    BY <1>3, <1>6, <1>7, <2>1, <2>2
  <2> QED BY <1>3, <1>9, <1>11, <2>3 DEF Enters
<1>12. ASSUME NEW d \in Rows, Leaves(d) PROVE Cardinality(H') <= left'
  <2>1. CASE step = "idle"
    <3>1. Unseen = {}
      BY <1>1, <2>1 DEF Unbegun, Unseen
    <3>2. H' \subseteq H
      BY <1>6, <3>1
    <3> QED BY <1>3, <1>9, <1>12, <2>1, <3>2 DEF Leaves
  <2>2. CASE step = "done"
    <3>1. H' \subseteq H
      BY <1>6, <1>7, <2>2
    <3> QED BY <1>3, <1>9, <1>12, <2>2, <3>1 DEF Leaves
  <2>3. CASE step \in {"count", "select"}
    <3>1. /\ left' = left + 1 /\ d \in Shown /\ Shown' \in SUBSET Rows
          /\ Shown' = Shown \ {d} /\ Shown = Shown' \cup {d}
      BY <1>3, <1>12, <2>3 DEF Leaves
    \* who is lost beside d was just past the offset, and d before it
    <3>2. ASSUME NEW s \in H' \ H, s # d
          PROVE  s \in Shown /\ Rank(Shown, s) = k + 1 /\ Rank(Shown, d) <= k
      <4>1. s \in Unseen /\ s \in Rows
        BY <1>3, <1>6
      <4>2. s \in Shown /\ ~(Rank(Shown, s) <= k)
        BY <1>7, <2>3, <4>1
      <4>3. Rank(Shown', s) <= k
        BY <1>6, <1>7, <2>3, <3>1, <3>2, <4>1, <4>2
      <4>4. Rank(Shown, s) <= Rank(Shown', s) + 1 /\ Rank(Shown', s) \in Nat
        <5>1. Rank(Shown' \cup {d}, s) <= Rank(Shown', s) + 1
          BY <3>1, <4>1, RankGrows
        <5>2. /\ Rank(Shown', s) \in 0..Cardinality(Shown')
              /\ Cardinality(Shown') \in Nat
          BY <3>1, <4>1, RankType
        <5>3. Shown' \cup {d} = Shown
          BY <3>1
        <5>4. Rank(Shown' \cup {d}, s) = Rank(Shown, s)
          BY <5>3, Zenon
        <5> QED BY <5>1, <5>2, <5>4
      <4>5. Rank(Shown, s) = k + 1
        BY <1>3, <4>1, <4>2, <4>3, <4>4
      <4>6. s < d
        <5>1. s \in Nat /\ d \in Nat /\ \A t \in Shown : t \in Nat
          BY <1>3, <4>1 DEF Rows
        <5>2. ASSUME d < s PROVE FALSE
          <6>1. {t \in Shown' : t >= s} = {t \in Shown : t >= s}
            BY <3>1, <5>1, <5>2
          <6>2. Rank(Shown', s) = Rank(Shown, s)
            BY <6>1 DEF Rank
          <6> QED BY <4>2, <4>3, <6>2
        <5> QED BY <3>2, <5>1, <5>2
      <4>7. Rank(Shown, d) < Rank(Shown, s)
        BY <1>3, <3>1, <4>1, <4>2, <4>6, RankOrder
      <4> QED BY <1>3, <4>2, <4>5, <4>7
    <3>3. CASE H' \subseteq H
      BY <1>3, <1>9, <3>1, <3>3
    <3>4. ASSUME NEW z \in H' \ H PROVE Cardinality(H') <= left'
      <4>1. H' \in SUBSET (H \cup {z})
        <5> SUFFICES ASSUME NEW s \in H' \ H PROVE s = z
          OBVIOUS
        <5>1. CASE s # d /\ z # d
          BY <1>3, <3>2, <5>1, RankInjective
        <5>2. ASSUME d \in H' \ H PROVE ~(Rank(Shown, d) <= k)
          BY <1>6, <1>7, <2>3, <5>2
        <5> QED BY <3>2, <5>1, <5>2
      <4>2. z \in Rows
        BY <1>3, <1>6
      <4>3. /\ IsFiniteSet(H \cup {z}) /\ Cardinality(H \cup {z}) = Cardinality(H) + 1
        BY <1>8, FS_AddElement
      <4>4. Cardinality(H') <= Cardinality(H \cup {z}) /\ Cardinality(H') \in Nat
        <5>1. H \cup {z} \in SUBSET Rows
          BY <1>8, <4>2
        <5> QED BY <4>1, <5>1, FewerRows
      <4> QED BY <1>3, <1>8, <3>1, <4>3, <4>4
    <3> QED BY <3>3, <3>4
  <2> QED BY <1>1, <2>1, <2>2, <2>3 DEF ListTypeOK
<1> QED BY <1>2, <1>5, <1>10, <1>11, <1>12 DEF Holes, H

\* A write keeps the invariant.
LEMMA WriteKeeps ==
    ASSUME ListIInv, Write
    PROVE  ListIInv'
<1> USE DEF walk
<1>1. ListTypeOK /\ RowsInv /\ Loss /\ Announced
  BY DEF ListIInv
<1>2. /\ UNCHANGED <<list, filter, walk>>
      /\ Still \/ \E r \in Rows : Enters(r) \/ Leaves(r)
  BY <1>1, WriteEffect
<1>3. /\ Shown \in SUBSET Rows
      /\ arrived \in Nat /\ left \in Nat /\ total \in Nat
      /\ Unseen' = Unseen
  BY <1>1, RowSets, WriteHoles DEF ListTypeOK
<1>4. /\ Cardinality(Shown) \in Nat /\ IsFiniteSet(Shown)
  BY <1>3, RankType
<1>5. /\ Cardinality(Shown') \in Nat
      /\ \/ /\ Cardinality(Shown') = Cardinality(Shown)
            /\ arrived' = arrived /\ left' = left
         \/ /\ Cardinality(Shown') = Cardinality(Shown) + 1
            /\ arrived' = (IF step = "select" THEN arrived + 1 ELSE arrived)
            /\ left' = left
         \/ /\ Cardinality(Shown') <= Cardinality(Shown)
            /\ arrived' = arrived
            /\ left' = IF step \in {"count", "select"} THEN left + 1 ELSE left
  <2>1. CASE Still
    BY <1>4, <2>1 DEF Still
  <2>2. CASE \E r \in Rows : Enters(r)
    <3>1. PICK r \in Rows : Enters(r)
      BY <2>2
    <3>2. r \notin Shown
      BY <3>1 DEF Enters
    <3>3. Cardinality(Shown \cup {r}) = Cardinality(Shown) + 1
      BY <1>4, <3>2, FS_AddElement
    <3> QED BY <1>4, <3>1, <3>3 DEF Enters
  <2>3. CASE \E r \in Rows : Leaves(r)
    <3>1. PICK r \in Rows : Leaves(r)
      BY <2>3
    <3>2. Shown' \in SUBSET Shown
      BY <3>1 DEF Leaves
    <3>3. Cardinality(Shown') \in Nat /\ Cardinality(Shown') <= Cardinality(Shown)
      BY <1>3, <3>2, FewerRows
    <3> QED BY <3>1, <3>3 DEF Leaves
  <2> QED BY <1>2, <2>1, <2>2, <2>3
<1>6. Loss'
  <2>1. step' = "select" => Cardinality(Shown') <= total' + arrived'
    BY <1>1, <1>2, <1>3, <1>4, <1>5 DEF Loss
  <2>2. ASSUME step' = "done" PROVE Cardinality(Unseen') <= arrived' + left'
    <3>1. step = "done" /\ arrived' = arrived /\ left' = left
      BY <1>2, <1>5, <2>2
    <3> QED BY <1>1, <1>3, <3>1 DEF Loss
  <2> QED BY <2>1, <2>2 DEF Loss
<1>7. Announced'
  <2>1. ASSUME left' = 0, ~Uncounted'
        PROVE  /\ step' = "select" => total' <= Cardinality(Shown')
               /\ step' \in {"count", "select"} /\ page' > 1 =>
                    (page' - 1) * PageSize < Cardinality(Shown')
    <3>1. left = 0 /\ ~Uncounted
      BY <1>2, <1>3, <1>5, <2>1 DEF Uncounted
    <3>2. step \in {"count", "select"} => Cardinality(Shown) <= Cardinality(Shown')
      BY <1>3, <1>4, <1>5, <2>1
    <3>3. page' = page /\ step' = step /\ total' = total
      BY <1>2
    <3>4. (page - 1) * PageSize \in Int
      <4>1. page \in Int /\ PageSize \in Int
        BY <1>1 DEF ListTypeOK
      <4> QED BY <4>1
    <3>5. /\ step = "select" => total <= Cardinality(Shown)
          /\ step \in {"count", "select"} /\ page > 1 =>
               (page - 1) * PageSize < Cardinality(Shown)
      BY <1>1, <3>1 DEF Announced
    <3> QED BY <1>3, <1>4, <1>5, <3>2, <3>3, <3>4, <3>5
  <2>2. NextPageHasRows'
    <3>1. left > 0 => left' > 0
      BY <1>3, <1>5
    <3> QED BY <1>1, <1>2, <3>1 DEF Announced, NextPageHasRows
  <2> QED BY <2>1, <2>2 DEF Announced
<1> QED BY <1>6, <1>7, WriteRows, WriteHoles DEF ListIInv

-----------------------------------------------------------------------------
(* The lists: the client *)

\* Nothing of the tables changes, so neither do the rows shown.
LEMMA TablesKept ==
    ASSUME UNCHANGED <<list, filter, database>>
    PROVE  /\ Shown' = Shown /\ Entered' = Entered /\ Gone' = Gone
           /\ Uncounted' = Uncounted
           /\ \A s : Place(s)' = Place(s)
BY DEF database, Shown, Entered, Gone, Uncounted, Place

\* A client begins with nothing behind it.
LEMMA AskKeeps ==
    ASSUME ListIInv, NEW l, Ask(l)
    PROVE  ListIInv'
<1>1. /\ step = "idle" /\ step' = "count" /\ start' = Shown
      /\ UNCHANGED <<list, filter, database, page, total, seen, blank, drift>>
  BY DEF Ask
<1>2. /\ page = 1 /\ seen = {} /\ left = 0 /\ ListTypeOK /\ RowsInv
      /\ Loss /\ Announced
  BY <1>1 DEF ListIInv, Unbegun
<1>3. Shown' = Shown /\ Entered' = Entered /\ Gone' = Gone
  BY <1>1, TablesKept
<1>4. ListTypeOK'
  BY <1>1, <1>2, RowSets DEF ListTypeOK, database, drift
<1>5. RowsInv'
  <2>1. Shown \subseteq Entered
    BY DEF Shown, Entered
  <2> QED BY <1>1, <1>2, <1>3, <2>1 DEF RowsInv, database, drift
<1>6. Holes'
  <2>1. {s \in Unseen : Behind(s)}' = {}
    <3> SUFFICES ASSUME NEW s \in Unseen' PROVE ~Behind(s)'
      OBVIOUS
    <3>1. s \in Shown /\ s \in Shown' /\ Shown \in SUBSET Rows
      BY <1>1, <1>2, <1>3, RowSets DEF Unseen
    <3>2. Place(s) \in 1..Cardinality(Shown) /\ Cardinality(Shown) \in Nat
      BY <1>2, <3>1, RankType, RowSets
    <3>3. Place(s)' = Place(s)
      BY <1>1, TablesKept
    <3>4. (page' - 1) * PageSize = 0
      BY <1>1, <1>2
    <3> QED BY <1>1, <1>2, <3>1, <3>2, <3>3, <3>4 DEF Behind
  <2> QED BY <1>1, <1>2, <2>1, FS_EmptySet DEF Holes, drift
<1>7. Unbegun' /\ Loss'
  BY <1>1 DEF Unbegun, Loss
<1>8. Announced'
  BY <1>1, <1>2 DEF Announced, NextPageHasRows, Uncounted, drift
<1> QED BY <1>4, <1>5, <1>6, <1>7, <1>8 DEF ListIInv

\* The count is right when it is made.
LEMMA CountKeeps ==
    ASSUME ListIInv, Count
    PROVE  ListIInv'
<1>1. /\ step = "count" /\ step' = "select" /\ total' = Total /\ arrived' = 0
      /\ UNCHANGED <<list, filter, database, page, seen, start, left, blank>>
  BY DEF Count
<1>2. ListTypeOK /\ RowsInv /\ Holes /\ Loss /\ Announced
  BY DEF ListIInv
<1>3. /\ Shown' = Shown /\ Entered' = Entered /\ Gone' = Gone
      /\ Uncounted' = Uncounted /\ \A s : Place(s)' = Place(s)
  BY <1>1, TablesKept
<1>4. /\ visible \in SUBSET Rows /\ Shown \in SUBSET visible
      /\ Cardinality(Entered) \in Nat
  BY <1>2, RowSets, RankType DEF Shown
<1>5. /\ Total \in 0..MaxRows /\ Cardinality(Shown) \in Nat
      /\ Cardinality(Shown) <= Total
  <2>1. /\ Cardinality(visible) \in 0..MaxRows
        /\ Cardinality(Shown) \in 0..MaxRows
        /\ Cardinality(Shown) <= Cardinality(visible)
    BY <1>4, FewerRows, RankType
  <2> QED BY <2>1 DEF Total
<1>6. ~Uncounted => Total = Cardinality(Shown)
  <2> SUFFICES ASSUME ~Uncounted, List[list].counts = "all"
               PROVE  visible = Shown
    BY DEF Total
  <2>1. list = "notifications" /\ filter = "none"
    BY <1>2 DEF ListTypeOK, Uncounted, List, CommandList, ApprovalList,
                AuditList, NotificationList
  <2> QED BY <1>2, <2>1 DEF ListTypeOK, RowsInv, Shown
<1>7. ListTypeOK'
  BY <1>1, <1>2, <1>5 DEF ListTypeOK, database
<1>8. RowsInv'
  BY <1>1, <1>2, <1>3, <1>4 DEF RowsInv, ListTypeOK, database
<1>9. Holes'
  <2>1. Unseen' = Unseen /\ \A s : Behind(s)' <=> Behind(s)
    BY <1>1, <1>3 DEF Unseen, Behind
  <2>2. {s \in Unseen : Behind(s)}' = {s \in Unseen : Behind(s)}
    BY <2>1
  <2> QED BY <1>1, <1>2, <2>2 DEF Holes
<1>10. Unbegun' /\ Loss'
  BY <1>1, <1>3, <1>5 DEF Unbegun, Loss
<1>11. Announced'
  <2>1. NextPageHasRows'
    BY <1>1, <1>2 DEF Announced, NextPageHasRows
  <2>2. ASSUME left' = 0, ~Uncounted'
        PROVE  /\ total' <= Cardinality(Shown')
               /\ page' > 1 => (page' - 1) * PageSize < Cardinality(Shown')
    BY <1>1, <1>2, <1>3, <1>5, <1>6, <2>2 DEF Announced
  <2> QED BY <1>1, <2>1, <2>2 DEF Announced
<1> QED BY <1>7, <1>8, <1>9, <1>10, <1>11 DEF ListIInv

\* Offsets grow by a page at a time.
LEMMA Offsets ==
    ASSUME NEW p \in Nat, p >= 1
    PROVE  /\ (p - 1) * PageSize \in Nat /\ p * PageSize \in Nat
           /\ (p - 1) * PageSize + 1 <= p * PageSize
           /\ p <= p * PageSize
           /\ ((p + 1) - 1) * PageSize = p * PageSize
<1>1. p - 1 \in Nat /\ PageSize \in Nat /\ PageSize >= 1
  OBVIOUS
<1>2. \A a, b \in Nat : a * b \in Nat
  OBVIOUS
<1>3. (p - 1) * PageSize \in Nat /\ p * PageSize \in Nat
  BY <1>1, <1>2
<1>4. p * PageSize = (p - 1) * PageSize + PageSize
  BY <1>1
<1>5. p * PageSize = p + p * (PageSize - 1) /\ p * (PageSize - 1) \in Nat
  BY <1>1, <1>2
<1>6. (p + 1) - 1 = p
  OBVIOUS
<1> QED BY <1>1, <1>3, <1>4, <1>5, <1>6

\* A page is what comes after the offset; what the client still misses then is
\* behind it as before, or beyond the page.
LEMMA SelectKeeps ==
    ASSUME ListIInv, Select
    PROVE  ListIInv'
<1> DEFINE H == {s \in Unseen : Behind(s)}
           k == (page - 1) * PageSize
           n == page * PageSize
           B == {s \in Shown : Rank(Shown, s) > n}
<1>1. /\ step = "select" /\ seen' = seen \cup PageRows(page)
      /\ blank' = (blank \/ (page > 1 /\ PageRows(page) = {}))
      /\ \/ n < total /\ page' = page + 1 /\ step' = "count"
         \/ ~(n < total) /\ page' = page /\ step' = "done"
      /\ UNCHANGED <<list, filter, database, total, start, drift>>
  BY DEF Select, HasNext
<1>2. ListTypeOK /\ RowsInv /\ Holes /\ Loss /\ Announced
  BY DEF ListIInv
<1>3. /\ Shown' = Shown /\ Entered' = Entered /\ Gone' = Gone
      /\ Uncounted' = Uncounted /\ \A s : Place(s)' = Place(s)
  BY <1>1, TablesKept
<1>4. /\ page \in Nat /\ page >= 1 /\ k \in Nat /\ n \in Nat /\ k + 1 <= n
      /\ page <= n /\ ((page + 1) - 1) * PageSize = n
  <2>1. page \in Nat /\ page >= 1
    BY <1>2 DEF ListTypeOK
  <2> QED BY <2>1, Offsets
<1>5. /\ Shown \in SUBSET Rows /\ Unseen \in SUBSET Rows
      /\ Cardinality(Shown) \in Nat
      /\ \A r \in Rows : Place(r) = Rank(Shown, r)
      /\ \A r \in Rows : Rank(Shown, r) \in 0..Cardinality(Shown)
      /\ arrived \in Nat /\ left \in Nat /\ total \in 0..MaxRows
  BY <1>2, RowSets, RankType DEF ListTypeOK
<1>6. PageRows(page) = {r \in Shown : k < Rank(Shown, r) /\ Rank(Shown, r) <= n}
  BY <1>5 DEF PageRows
<1>7. H = {s \in Unseen : \/ \E r \in seen : s > r
                          \/ s \notin Shown \/ Rank(Shown, s) <= k}
  BY <1>1, <1>5 DEF Behind
<1>8. Cardinality(H) \in Nat /\ IsFiniteSet(H) /\ Cardinality(H) <= left
      /\ H \in SUBSET Rows
  BY <1>2, <1>5, FewerRows DEF Holes
<1>9. \A s \in Unseen' : /\ s \in Unseen /\ s \in Rows
                         /\ s \in Shown => Rank(Shown, s) <= k \/ Rank(Shown, s) > n
  BY <1>1, <1>3, <1>4, <1>5, <1>6 DEF Unseen
<1>10. {s \in Unseen : Behind(s)}' \in SUBSET H
  <2> SUFFICES ASSUME NEW s \in Unseen', Behind(s)', s \in Shown
               PROVE  s \in H
    BY <1>7, <1>9
  <2>1. \/ \E r \in seen : s > r
        \/ \E r \in PageRows(page) : s > r
        \/ Rank(Shown, s) <= n
    BY <1>1, <1>3, <1>4, <1>5, <1>9 DEF Behind
  <2>2. ASSUME NEW r \in PageRows(page), s > r PROVE Rank(Shown, s) <= n
    <3>1. /\ r \in Shown /\ s \in Shown /\ r \in Rows /\ s \in Rows
          /\ Rank(Shown, r) <= n /\ r \in Nat /\ s \in Nat
      <4>1. r \in Shown /\ Rank(Shown, r) <= n
        BY <1>6
      <4>2. r \in Rows /\ s \in Rows
        BY <1>5, <1>9, <4>1
      <4> QED BY <4>1, <4>2 DEF Rows
    <3>2. r < s
      BY <2>2, <3>1
    <3>3. Rank(Shown, s) <= Rank(Shown, r)
      BY <1>5, <3>1, <3>2, RankOrder
    <3> QED BY <1>4, <1>5, <1>9, <3>1, <3>3
  <2>3. (\E r \in seen : s > r) \/ Rank(Shown, s) <= n
    BY <2>1, <2>2
  <2>4. (\E r \in seen : s > r) \/ Rank(Shown, s) <= k
    BY <1>4, <1>5, <1>9, <2>3
  <2> QED BY <1>7, <1>9, <2>4
<1> HIDE DEF H, k, n
<1>11. Holes'
  <2>1. Cardinality({s \in Unseen : Behind(s)}') <= Cardinality(H)
        /\ Cardinality({s \in Unseen : Behind(s)}') \in Nat
    BY <1>8, <1>10, FewerRows
  <2>2. Cardinality({s \in Unseen : Behind(s)}') <= left
    BY <1>5, <1>8, <2>1
  <2> QED BY <1>1, <2>2 DEF Holes, drift
<1>12. PageRows(page) \subseteq Shown /\ Shown \subseteq Entered
  BY <1>6 DEF Shown, Entered
<1>13. ListTypeOK'
  <2>1. page' \in 1..(MaxRows + 1)
    BY <1>1, <1>2, <1>4, <1>5 DEF ListTypeOK
  <2>2. seen' \in SUBSET Rows
    BY <1>1, <1>2, <1>5, <1>12 DEF ListTypeOK
  <2>3. step' \in {"idle", "count", "select", "done"} /\ blank' \in BOOLEAN
    BY <1>1, <1>2 DEF ListTypeOK
  <2> QED BY <1>1, <1>2, <2>1, <2>2, <2>3 DEF ListTypeOK, database, drift
<1>14. RowsInv'
  BY <1>1, <1>2, <1>3, <1>12 DEF RowsInv, database, drift
<1>15. Unbegun'
  BY <1>1 DEF Unbegun
<1>16. Loss'
  <2> SUFFICES ASSUME step' = "done" PROVE Cardinality(Unseen') <= arrived + left
    BY <1>1 DEF Loss, drift
  <2>1. ~(n < total)
    BY <1>1
  <2>2. Cardinality(Shown) <= n + arrived
    BY <1>1, <1>2, <1>4, <1>5, <2>1 DEF Loss
  <2>3. IsFiniteSet(B) /\ Cardinality(B) <= arrived /\ B \in SUBSET Rows
    BY <1>4, <1>5, <2>2, RankBeyond
  <2>4. Unseen' \in SUBSET (H \cup B)
    BY <1>7, <1>9
  <2>5. Cardinality(B) \in Nat
    BY <2>3, FS_CardinalityType
  <2> HIDE DEF B
  <2>6. Cardinality(H \cup B) = Cardinality(H) + Cardinality(B) - Cardinality(H \cap B)
    BY <1>8, <2>3, FS_Union
  <2>7. Cardinality(H \cap B) \in Nat
    BY <1>8, FS_Intersection, FS_CardinalityType
  <2>8. /\ Cardinality(Unseen') \in Nat /\ Cardinality(H \cup B) \in Nat
        /\ Cardinality(Unseen') <= Cardinality(H \cup B)
    <3>1. H \cup B \in SUBSET Rows
      BY <1>8, <2>3
    <3> QED BY <2>4, <3>1, FewerRows
  <2> QED BY <1>5, <1>8, <2>3, <2>5, <2>6, <2>7, <2>8
<1>17. Announced'
  <2>1. ASSUME left = 0, ~Uncounted
        PROVE  /\ step' = "count" => n < Cardinality(Shown)
               /\ ~(page > 1 /\ PageRows(page) = {})
    <3>1. total <= Cardinality(Shown) /\ (page > 1 => k < Cardinality(Shown))
      BY <1>1, <1>2, <2>1 DEF Announced, k
    <3>2. step' = "count" => n < Cardinality(Shown)
      BY <1>1, <1>4, <1>5, <3>1
    <3>3. ASSUME page > 1 PROVE PageRows(page) # {}
      <4>1. k + 1 \in 1..Cardinality(Shown)
        BY <1>4, <1>5, <3>1, <3>3
      <4>2. PICK s \in Shown : Rank(Shown, s) = k + 1
        BY <1>5, <4>1, RankTaken
      <4> QED BY <1>4, <1>6, <4>2
    <3> QED BY <3>2, <3>3
  <2>2. NextPageHasRows'
    <3>1. left \in Nat /\ left' = left
      BY <1>1, <1>5 DEF drift
    <3>2. blank => left > 0 \/ Uncounted
      BY <1>2 DEF Announced, NextPageHasRows, Uncounted
    <3>3. ASSUME blank', ~(left > 0) PROVE Uncounted
      <4>1. blank \/ (page > 1 /\ PageRows(page) = {})
        BY <1>1, <3>3, Zenon
      <4>2. left = 0
        BY <3>1, <3>3
      <4> QED BY <2>1, <3>2, <3>3, <4>1, <4>2
    <3>4. blank' => left' > 0 \/ Uncounted'
      BY <1>3, <3>1, <3>3
    <3> QED BY <3>4 DEF NextPageHasRows, Uncounted
  <2>3. left' = left /\ step' # "select"
        /\ (step' = "count" => (page' - 1) * PageSize = n)
    BY <1>1, <1>4 DEF drift
  <2> QED BY <1>1, <1>3, <2>1, <2>2, <2>3 DEF Announced
<1> QED BY <1>11, <1>13, <1>14, <1>15, <1>16, <1>17 DEF ListIInv

LEMMA ListInitHolds == ListInit => ListIInv
<1> SUFFICES ASSUME ListInit PROVE ListIInv
  OBVIOUS
<1> USE DEF ListInit
<1>1. Shown = {} /\ Entered = {} /\ Gone = {} /\ Unseen = {}
  BY DEF Shown, Entered, Gone, Unseen
<1>2. ListTypeOK
  <2>1. list \in DOMAIN List /\ filter \in List[list].filters
    BY Zenon
  <2>2. /\ begun \in 0..MaxRows /\ visible \in SUBSET (1..begun)
        /\ match \in [Rows -> {"no", "yes", "left"}]
        /\ page \in 1..(MaxRows + 1) /\ total \in 0..MaxRows
        /\ returns \in 0..MaxReturns
        /\ arrived \in 0..(MaxRows + MaxReturns)
        /\ left \in 0..(MaxRows + MaxReturns)
    OBVIOUS
  <2>3. /\ step \in {"idle", "count", "select", "done"}
        /\ seen \in SUBSET Rows /\ start \in SUBSET Rows /\ blank \in BOOLEAN
    OBVIOUS
  <2> QED BY <2>1, <2>2, <2>3 DEF ListTypeOK
<1>3. RowsInv /\ Unbegun
  BY <1>1, FS_EmptySet DEF RowsInv, Unbegun
<1>4. Holes
  BY <1>1, FS_EmptySet DEF Holes
<1>5. Loss /\ Announced
  BY DEF Loss, Announced, NextPageHasRows
<1> QED BY <1>2, <1>3, <1>4, <1>5 DEF ListIInv

LEMMA ListNextKeeps ==
    ASSUME ListIInv, [ListNext]_listVars
    PROVE  ListIInv'
<1>1. CASE AskCommands \/ AskApprovals \/ AskAudit \/ AskNotifications
  BY <1>1, AskKeeps DEF AskCommands, AskApprovals, AskAudit, AskNotifications
<1>2. CASE Count
  BY <1>2, CountKeeps
<1>3. CASE Select
  BY <1>3, SelectKeeps
<1>4. CASE Write
  BY <1>4, WriteKeeps
<1>5. CASE UNCHANGED listVars
  <2> USE <1>5 DEF listVars, database, walk, drift
  <2>1. /\ Shown' = Shown /\ Entered' = Entered /\ Gone' = Gone
        /\ Uncounted' = Uncounted /\ \A s : Place(s)' = Place(s)
    BY TablesKept
  <2>2. ListTypeOK' /\ Unbegun'
    BY DEF ListIInv, ListTypeOK, Unbegun
  <2>3. RowsInv'
    BY <2>1 DEF ListIInv, RowsInv
  <2>4. Unseen' = Unseen /\ \A s : Behind(s)' <=> Behind(s)
    BY <2>1 DEF Unseen, Behind
  <2>5. Holes'
    <3>1. {s \in Unseen : Behind(s)}' = {s \in Unseen : Behind(s)}
      BY <2>4
    <3> QED BY <3>1 DEF ListIInv, Holes
  <2>6. Loss' /\ Announced'
    BY <2>1, <2>4 DEF ListIInv, Loss, Announced, NextPageHasRows
  <2> QED BY <2>2, <2>3, <2>5, <2>6 DEF ListIInv
<1> QED BY <1>1, <1>2, <1>3, <1>4, <1>5, Zenon DEF ListNext, Write

LEMMA ListInvariant == ListSpec => []ListIInv
<1>1. ListInit => ListIInv
  BY ListInitHolds
<1>2. ListIInv /\ [ListNext]_listVars => ListIInv'
  BY ListNextKeeps
<1> QED BY <1>1, <1>2, PTL DEF ListSpec

\* The variables of the lists keep their types: no total and no page number is
\* out of range, whatever is written between a count and its rows.
THEOREM ListTypeCorrect == ListSpec => []ListTypeOK
<1>1. ListIInv => ListTypeOK BY DEF ListIInv
<1> QED BY <1>1, ListInvariant, PTL

\* The pages received have no more holes than rows have left the list, for any
\* number of rows and any size of a page (offset and order_by).
THEOREM NoHolesHolds == ListSpec => []NoHoles
<1>1. ASSUME ListIInv, NEW r \in seen
      PROVE  Cardinality({s \in Missing : s > r}) <= left
  <2> DEFINE H == {s \in Unseen : Behind(s)}
             T == {s \in Missing : s > r}
  <2>1. /\ Missing \in SUBSET Unseen /\ Unseen \in SUBSET Rows
        /\ left \in Nat /\ Cardinality(H) <= left
    BY <1>1, RowSets DEF ListIInv, ListTypeOK, Holes
  <2>2. T \in SUBSET H /\ H \in SUBSET Rows
    BY <2>1 DEF Behind
  <2>3. /\ Cardinality(T) \in Nat /\ Cardinality(H) \in Nat
        /\ Cardinality(T) <= Cardinality(H)
    BY <2>2, FewerRows
  <2> HIDE DEF H, T
  <2>4. Cardinality(T) <= left
    BY <2>1, <2>3
  <2> QED BY <2>4 DEF T
<1>2. ListIInv => NoHoles
  BY <1>1 DEF NoHoles
<1> QED BY <1>2, ListInvariant, PTL

\* Who has followed has_next to the end misses no more rows than arrived after
\* the last count and than left (list_commands and the other lists).
THEOREM LossBoundedHolds == ListSpec => []LossBounded
<1>1. ASSUME ListIInv, step = "done" PROVE Cardinality(Missing) <= arrived + left
  <2>1. /\ Missing \in SUBSET Unseen /\ Unseen \in SUBSET Rows
        /\ arrived \in Nat /\ left \in Nat
        /\ Cardinality(Unseen) <= arrived + left
    BY <1>1, RowSets DEF ListIInv, ListTypeOK, Loss
  <2>2. /\ Cardinality(Missing) \in Nat /\ Cardinality(Unseen) \in Nat
        /\ Cardinality(Missing) <= Cardinality(Unseen)
    BY <2>1, FewerRows
  <2> QED BY <2>1, <2>2
<1>2. ListIInv => LossBounded
  BY <1>1 DEF LossBounded
<1> QED BY <1>2, ListInvariant, PTL

\* A page that has_next announced has rows unless some have left, but for the
\* notifications of one type, whose total counts all (list_for_user).
THEOREM NextPagesHaveRows == ListSpec => []NextPageHasRows
<1>1. ListIInv => NextPageHasRows BY DEF ListIInv, Announced
<1> QED BY <1>1, ListInvariant, PTL
=============================================================================
