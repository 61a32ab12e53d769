-------------------------------- MODULE ApiEdge --------------------------------
(***************************************************************************)
(* What stands in front of every authenticated route: RateLimitMiddleware, *)
(* the outermost, and behind it SupabaseAuth.verify_token with its cache   *)
(* of the provider's keys (JWKS). The cache lives an hour from the moment  *)
(* an answer was received; requests that find it too old fetch it each on  *)
(* their own, and the answers may be stored in another order than the      *)
(* provider gave them in. One client, one process.                         *)
(***************************************************************************)
EXTENDS RateLimiter

CONSTANTS
    Handlers,   \* requests that can be in verify_token at a time
    CacheLife,  \* ticks the cache is used
    FetchTime,  \* ticks an answer of the provider may take to arrive (httpx gives up)
    MaxKeys,    \* bound: keys the provider signs with, one after the other
    JoseHasAlgorithms  \* the jwt of python-jose has the attribute algorithms
                       \* (FALSE for the pinned 3.3.0)

ASSUME LifeAssumption == CacheLife \in Nat \ {0}
ASSUME FetchAssumption == FetchTime \in Nat
ASSUME KeysAssumption == MaxKeys \in Nat \ {0}
ASSUME JoseAssumption == JoseHasAlgorithms \in BOOLEAN

\* How long an outdated key set can be in use.
Lag == CacheLife + FetchTime

VARIABLES
    key,      \* key the provider signs with and publishes
    since,    \* by key, ticks since it was replaced (up to Lag)
    young,    \* ticks since the present key took over (up to Lag)
    cached,   \* key in _jwks_cache, 0 when there is none
    age,      \* ticks since _jwks_fetched_at (up to CacheLife)
    at,       \* where a handler is, or how it ended
    kid,      \* key its token was signed with
    answer,   \* key in the provider's answer to its fetch, 0 before that
    travel    \* ticks since that answer was given

provider == <<key, since, young>>
cache == <<cached, age>>
handler == <<at, kid, answer, travel>>
edgeVars == <<vars, provider, cache, handler>>

\* Ends of a token whose key was found: the claims, or an AttributeError (500).
Found == {"accepted", "error"}
\* "refused": its key is not in the set; "failed": the keys were not fetched.
Ended == Found \cup {"idle", "refused", "failed"}

EdgeTypeOK ==
    /\ TypeOK
    /\ key \in 1..MaxKeys
    /\ since \in [1..MaxKeys -> 0..Lag]
    /\ young \in 0..Lag
    /\ cached \in 0..MaxKeys
    /\ age \in 0..CacheLife
    /\ at \in [Handlers -> Ended \cup {"verify", "fetch"}]
    /\ kid \in [Handlers -> 1..MaxKeys]
    /\ answer \in [Handlers -> 0..MaxKeys]
    /\ travel \in [Handlers -> 0..FetchTime]

EdgeInit ==
    /\ Init
    /\ key = 1 /\ young = Lag
    /\ since = [k \in 1..MaxKeys |-> 0]
    /\ cached = 0 /\ age = 0
    /\ at = [h \in Handlers |-> "idle"]
    /\ kid = [h \in Handlers |-> 1]
    /\ answer = [h \in Handlers |-> 0]
    /\ travel = [h \in Handlers |-> 0]

-----------------------------------------------------------------------------
(* RateLimitMiddleware, then get_current_user_context *)

\* A request with a token signed by the present key or by one before it.
Call(r, h, k) ==
    /\ at[h] \in Ended /\ k <= key
    /\ Request(r)
    /\ \/ /\ Allowed(r, count + 1)
          /\ at' = [at EXCEPT ![h] = "verify"]
          /\ kid' = [kid EXCEPT ![h] = k]
       \/ /\ ~Allowed(r, count + 1)
          /\ UNCHANGED <<at, kid>>
    /\ UNCHANGED <<provider, cache, answer, travel>>

-----------------------------------------------------------------------------
(* SupabaseAuth *)

\* _find_key and jwt.decode, for a token with nothing else wrong: a key that
\* is found is built with jwt.algorithms.
Judge(h, k) ==
    \E how \in Found \cup {"refused"} :
        /\ how # "refused" <=> kid[h] = k
        /\ how = "accepted" => JoseHasAlgorithms
        /\ how = "error" => ~JoseHasAlgorithms
        /\ at' = [at EXCEPT ![h] = how]

\* Mutant of Fresh: off by one.
FreshLate == cached # 0 /\ age <= CacheLife

Fresh == cached # 0 /\ age < CacheLife

\* Mutant of Verify: use of the cache keeps it young.
VerifyTouches(h) ==
    /\ at[h] = "verify"
    /\ \/ /\ Fresh /\ Judge(h, cached)
          /\ age' = 0 /\ UNCHANGED cached
       \/ /\ ~Fresh /\ at' = [at EXCEPT ![h] = "fetch"]
          /\ UNCHANGED cache
    /\ UNCHANGED <<vars, provider, kid, answer, travel>>

\* get_jwks: the cache, or the request for it.
Verify(h) ==
    /\ at[h] = "verify"
    /\ \/ Fresh /\ Judge(h, cached)
       \/ ~Fresh /\ at' = [at EXCEPT ![h] = "fetch"]
    /\ UNCHANGED <<vars, provider, cache, kid, answer, travel>>

\* The provider answers with the keys it publishes.
Respond(h) ==
    /\ at[h] = "fetch" /\ answer[h] = 0
    /\ answer' = [answer EXCEPT ![h] = key]
    /\ travel' = [travel EXCEPT ![h] = 0]
    /\ UNCHANGED <<vars, provider, cache, at, kid>>

\* The answer is received, stored whatever is in the cache by then, and used.
Store(h) ==
    /\ at[h] = "fetch" /\ answer[h] # 0
    /\ cached' = answer[h] /\ age' = 0
    /\ Judge(h, answer[h])
    /\ answer' = [answer EXCEPT ![h] = 0]
    /\ UNCHANGED <<vars, provider, kid, travel>>

\* No answer, or an error status: the request fails, the cache stays.
FetchFails(h) ==
    /\ at[h] = "fetch"
    /\ at' = [at EXCEPT ![h] = "failed"]
    /\ answer' = [answer EXCEPT ![h] = 0]
    /\ UNCHANGED <<vars, provider, cache, kid, travel>>

-----------------------------------------------------------------------------
(* The provider and time *)

Rotate ==
    /\ key < MaxKeys
    /\ key' = key + 1 /\ young' = 0
    /\ UNCHANGED <<vars, since, cache, handler>>

Older(t, most) == IF t < most THEN t + 1 ELSE most

EdgeTick ==
    /\ \A h \in Handlers : answer[h] # 0 => travel[h] < FetchTime
    /\ Tick
    /\ since' = [k \in 1..MaxKeys |->
                   IF k < key THEN Older(since[k], Lag) ELSE since[k]]
    /\ young' = Older(young, Lag)
    /\ age' = Older(age, CacheLife)
    /\ travel' = [h \in Handlers |->
                    IF answer[h] # 0 THEN travel[h] + 1 ELSE travel[h]]
    /\ UNCHANGED <<key, cached, at, kid, answer>>

EdgeNext ==
    \/ \E r \in Routes, h \in Handlers, k \in 1..MaxKeys : Call(r, h, k)
    \/ \E h \in Handlers :
        Verify(h) \/ Respond(h) \/ Store(h) \/ FetchFails(h)
    \/ Rotate \/ EdgeTick

EdgeSpec == EdgeInit /\ [][EdgeNext]_edgeVars

-----------------------------------------------------------------------------
(* Properties *)

EndsIn(h, how) == at[h] \notin how /\ at'[h] \in how

\* The key of a token that the provider has replaced is found no longer than
\* the life of the cache and the time of one answer after that, whatever
\* answers overtake each other. (get_jwks)
ReplacedKeyDies ==
    [][\A h \in Handlers :
          EndsIn(h, Found) /\ kid[h] # key => since[kid[h]] < Lag]_edgeVars

\* A token signed with the present key is refused as unknown only as long
\* after the key was taken into use: a cache that does not know the key is
\* not fetched anew for it. What is done with a key that is found is another
\* matter. (_find_key)
NewKeyLearned ==
    [][\A h \in Handlers :
          EndsIn(h, {"refused"}) /\ kid[h] = key => young < Lag]_edgeVars
=============================================================================
