------------------------------ MODULE RateLimiter ------------------------------
(***************************************************************************)
(* RateLimitMiddleware for one client. Every route has a limit and a       *)
(* window, but the counter in Valkey is keyed by the client alone, and     *)
(* every request, a refused one too, sets its time to live anew. INCR and  *)
(* EXPIRE run in one MULTI.                                                *)
(***************************************************************************)
EXTENDS Naturals, FiniteSets

CONSTANTS
    Routes,      \* classes of paths that _get_rate_limit tells apart
    Limit,       \* requests a route allows
    Window,      \* its window, in ticks
    Horizon,     \* ticks the log keeps, at least every window
    MaxRequests  \* bound: requests in a behaviour

ASSUME BoundsAssumption == Horizon \in Nat \ {0} /\ MaxRequests \in Nat
ASSUME LimitAssumption == Limit \in [Routes -> Nat \ {0}]
ASSUME WindowAssumption == Window \in [Routes -> 1..Horizon]

VARIABLES
    count,     \* Valkey: the counter, 0 when there is no key
    ttl,       \* ticks until the key expires
    admitted,  \* the requests passed on to the application, up to Horizon ticks old
    quiet,     \* ticks since the last request
    retry,     \* Retry-After of the last answer, 0 if it was no refusal
    requests   \* requests so far

vars == <<count, ttl, admitted, quiet, retry, requests>>

\* A request passed on: its route, what it was counted as, its age. No two
\* are alike, because the counter starts anew only when a tick has passed.
Entry == [route : Routes, nth : 1..MaxRequests, age : 0..(Horizon - 1)]

TypeOK ==
    /\ count \in 0..MaxRequests
    /\ ttl \in 0..Horizon
    /\ admitted \in SUBSET Entry
    /\ quiet \in 0..Horizon
    /\ retry \in 0..Horizon
    /\ requests \in 0..MaxRequests

Init ==
    /\ count = 0 /\ ttl = 0
    /\ admitted = {}
    /\ quiet = 0 /\ retry = 0 /\ requests = 0

-----------------------------------------------------------------------------
(* RateLimitMiddleware.dispatch, ValkeyClient.rate_limit_check *)

\* Mutant of Expiry: the time to live is set when the key is made.
ExpiryOnce(r) == IF count = 0 THEN Window[r] ELSE ttl

\* Mutant of Expiry: a tick too long.
ExpiryLate(r) == Window[r] + 1

\* EXPIRE follows every INCR.
Expiry(r) == Window[r]

Allowed(r, n) == n <= Limit[r]

Request(r) ==
    /\ requests < MaxRequests
    /\ requests' = requests + 1
    /\ count' = count + 1
    /\ ttl' = Expiry(r)
    /\ quiet' = 0
    /\ \/ /\ Allowed(r, count + 1)
          /\ admitted' = admitted \cup
                {[route |-> r, nth |-> count + 1, age |-> 0]}
          /\ retry' = 0
       \/ /\ ~Allowed(r, count + 1)
          /\ retry' = Window[r]
          /\ UNCHANGED admitted

\* A tick of the clock; the key goes when its time is over.
Tick ==
    /\ ttl' = IF ttl > 0 THEN ttl - 1 ELSE 0
    /\ count' = IF ttl > 1 THEN count ELSE 0
    /\ admitted' = {[x EXCEPT !.age = @ + 1] :
                      x \in {y \in admitted : y.age + 1 < Horizon}}
    /\ quiet' = IF quiet < Horizon THEN quiet + 1 ELSE quiet
    /\ UNCHANGED <<retry, requests>>

Next == (\E r \in Routes : Request(r)) \/ Tick

Spec == Init /\ [][Next]_vars

-----------------------------------------------------------------------------
(* Properties *)

\* Requests of a route passed on in the last n ticks.
Passed(r, n) == {x \in admitted : x.route = r /\ x.age < n}

\* No window is shorter than n.
FitsWindows(n) == \A r \in Routes : n <= Window[r]

\* In no stretch of time as long as the shortest window does a route pass on
\* more requests than its limit, wherever the stretch begins: the counter is
\* shared, and a request of one route ends the longer window of another.
WindowBounded ==
    \A r \in Routes, n \in 0..Horizon :
        FitsWindows(n) => Cardinality(Passed(r, n)) <= Limit[r]

\* A client that waits as long as the last refusal told it starts afresh.
\* (Retry-After is the window that the refused request set)
RetryAfterHolds == retry > 0 /\ quiet >= retry => count = 0
=============================================================================
