------------------------------ MODULE RateLimiter ------------------------------
(***************************************************************************)
(* The sliding-window limiter in front of the API (server/middleware.py).  *)
(* Each kind of route has a limiter of its own.  In memory these share     *)
(* nothing and forget clients now and then; in Redis all API processes use *)
(* one sorted set per client and window length, and as the three windows   *)
(* are equally long that set is common to the kinds of route.  The choice  *)
(* is made when the process starts: what Redis then fails to answer is     *)
(* neither admitted nor counted, and no step here.                         *)
(***************************************************************************)
EXTENDS Integers, FiniteSets, Functions

CONSTANTS Clients, Routes,     \* Routes: kinds of route
          LimitOf,             \* max_requests of each
          Window,              \* window_seconds
          CleanupEvery,        \* 300 seconds
          MaxBuckets,          \* 10000 clients
          MaxSkew,             \* API processes whose clocks are ahead of the server's
          MaxClock             \* bound

ASSUME LimiterAssumption ==
    /\ IsFiniteSet(Routes) /\ LimitOf \in [Routes -> Nat \ {0}]
    /\ {Window, CleanupEvery, MaxBuckets, MaxClock} \subseteq Nat \ {0} /\ MaxSkew \in Nat

VARIABLES
    backend,      \* chosen by _make_limiter at the start
    clock,
    buckets,      \* requests at each time, by what the limiter keys them with
    lastCleanup,  \* of each in-memory limiter
    answer,       \* the request just answered, if any
    admitted,     \* history: how often each client was let through on each kind
                  \* of route at each time, as far back as a window may reach
    forgotten     \* history: limiters that dropped every client

lvars == <<backend, clock, buckets, lastCleanup, answer, admitted, forgotten>>

NoAnswer == [route |-> "none", client |-> "none", ok |-> TRUE]
Key(route, c) == IF backend = "redis" THEN <<"window", c>> ELSE <<route, c>>
Times == 0..(MaxClock + MaxSkew)
NoRequests == [t \in Times |-> 0]
BucketAt(table, key) == IF key \in DOMAIN table THEN table[key] ELSE NoRequests
Since(bucket, oldest) == [t \in Times |-> IF t >= oldest THEN bucket[t] ELSE 0]
InTotal(bucket) == FoldFunction(+, 0, bucket)

LimiterInit ==
    /\ backend \in {"memory", "redis"}
    /\ clock = 0
    /\ buckets = [key \in {} |-> NoRequests]
    /\ lastCleanup = [r \in Routes |-> 0]
    /\ answer = NoAnswer
    /\ admitted = [c \in Clients |-> [x \in Routes \X Times |-> 0]]
    /\ forgotten = {}

Tick ==
    LET Reached(t) == t + Window + MaxSkew > clock IN
    /\ clock < MaxClock /\ clock' = clock + 1
    /\ answer' = NoAnswer
    /\ admitted' = [c \in Clients |->
          [x \in Routes \X Times |-> IF Reached(x[2]) THEN admitted[c][x] ELSE 0]]
    /\ UNCHANGED <<backend, buckets, lastCleanup, forgotten>>

\* Both backends count before they add.
Decide(route, c, table, key, recent, stamp) ==
    LET ok == InTotal(recent) < LimitOf[route]
        new == IF ok THEN [recent EXCEPT ![stamp] = @ + 1] ELSE recent
    IN /\ buckets' = [k \in DOMAIN table \cup {key} |-> IF k = key THEN new ELSE table[k]]
       /\ answer' = [route |-> route, client |-> c, ok |-> ok]
       /\ admitted' = IF ok THEN [admitted EXCEPT ![c][<<route, clock>>] = @ + 1] ELSE admitted
------------------------------------------------------------------------------
(* InMemoryRateLimiter *)
Cutoff == clock - Window

\* _cleanup_old_locked: clients whose newest request is out of the window go,
\* and everybody when too many are left.
StillUsedByFirst(bucket) == \A t \in Times : bucket[t] > 0 => t >= Cutoff
StillUsed(bucket) == \E t \in Times : bucket[t] > 0 /\ t >= Cutoff
CleanupDue(route) == clock - lastCleanup[route] >= CleanupEvery
OwnKeys(route) == {k \in DOMAIN buckets : k[1] = route}
Purged(route) == {k \in OwnKeys(route) : StillUsed(buckets[k])}
Crowded(route) == CleanupDue(route) /\ Cardinality(Purged(route)) > MaxBuckets
Kept(route) == CASE ~CleanupDue(route) -> DOMAIN buckets
                 [] Crowded(route) -> DOMAIN buckets \ OwnKeys(route)
                 [] OTHER -> (DOMAIN buckets \ OwnKeys(route)) \cup Purged(route)

IsAllowedInMemory(route, c) ==
    LET table == [k \in Kept(route) |-> buckets[k]]
        key == Key(route, c)
    IN /\ backend = "memory"
       /\ Decide(route, c, table, key, Since(BucketAt(table, key), Cutoff), clock)
       /\ lastCleanup' = [lastCleanup EXCEPT ![route] = IF CleanupDue(route) THEN clock ELSE @]
       /\ forgotten' = IF Crowded(route) THEN forgotten \cup {route} ELSE forgotten
       /\ UNCHANGED <<backend, clock>>
------------------------------------------------------------------------------
(* RedisRateLimiter: the script runs alone, with the time of the caller. *)
KeyExpired(c) == \A x \in Routes \X Times : admitted[c][x] > 0 => x[2] + Window <= clock

IsAllowedInRedis(route, c, skew) ==
    LET now == clock + skew
        stored == IF KeyExpired(c) THEN NoRequests ELSE BucketAt(buckets, Key(route, c))
    IN /\ backend = "redis"
       /\ Decide(route, c, buckets, Key(route, c), Since(stored, now - Window + 1), now)
       /\ UNCHANGED <<backend, clock, lastCleanup, forgotten>>

LimiterNext ==
    \/ Tick
    \/ \E route \in Routes, c \in Clients :
        \/ IsAllowedInMemory(route, c)
        \/ \E skew \in 0..MaxSkew : IsAllowedInRedis(route, c, skew)

LimiterSpec == LimiterInit /\ [][LimiterNext]_lvars
------------------------------------------------------------------------------
LimiterTypeOK ==
    /\ backend \in {"memory", "redis"} /\ clock \in 0..MaxClock
    /\ DOMAIN buckets \subseteq (Routes \cup {"window"}) \X Clients
    /\ \A k \in DOMAIN buckets : buckets[k] \in [Times -> Nat]
    /\ lastCleanup \in [Routes -> 0..MaxClock]
    /\ answer \in [route : Routes \cup {"none"}, client : Clients \cup {"none"}, ok : BOOLEAN]
    /\ admitted \in [Clients -> [Routes \X Times -> Nat]]
    /\ forgotten \subseteq Routes

\* Requests of a client on the given kinds of route with a time in [from, to].
LetThrough(R, c, from, to) ==
    FoldFunctionOnSet(+, 0, admitted[c], R \X {t \in Times : from <= t /\ t <= to})

\* A client gets no more through a window than the limit, but for a limiter
\* that forgot its clients, and is turned away only when that many of its
\* requests went through the window shortly before: on routes of the same kind
\* in memory, on routes of any kind in Redis.  There the clocks of the
\* processes make the window up to MaxSkew shorter or longer (middleware.py:43,
\* 107, 111).
Shorter == IF backend = "redis" THEN MaxSkew + 1 ELSE 0
WindowLimits ==
    /\ \A r \in Routes \ forgotten, c \in Clients, from \in 0..clock :
          LetThrough({r}, c, from, from + Window - Shorter) <= LimitOf[r]
    /\ ~answer.ok =>
          LET R == IF backend = "redis" THEN Routes ELSE {answer.route}
              back == Window + IF backend = "redis" THEN MaxSkew ELSE 0
          IN LetThrough(R, answer.client, clock - back, clock) >= LimitOf[answer.route]
=============================================================================
