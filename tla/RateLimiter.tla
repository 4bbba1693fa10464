----------------------------- MODULE RateLimiter -----------------------------
(***************************************************************************)
(* The rate limiter of the API: every request increments one Redis counter *)
(* and sets its time to live again, in one transaction, and is admitted if *)
(* the counter has not passed the limit.  All uvicorn workers share the    *)
(* counter, and keys of two clients never meet: this is the key of one     *)
(* client.  Redis may evict the key (allkeys-lru), and the transaction may *)
(* be applied without its reply arriving, whether redis-py then repeats it *)
(* (retry_on_timeout) or the request ends in an error.                     *)
(*                                                                         *)
(* CurrentForever, ExpiryOfFirstHit and OverAfterLimit are mutated forms   *)
(* of the operators after them; the specification does not use them.       *)
(***************************************************************************)
EXTENDS Integers, Sequences

CONSTANTS
    Limit,          \* settings.api.rate_limit_per_minute, 60 in production
    Window,         \* window_s, 60 seconds in production
    MaxTime,        \* bound on the clock
    MaxHits,        \* bound on the increments of the counter
    MaxEvictions    \* bound on the evictions of the key

ASSUME LimitAssumption == Limit \in Nat \ {0}
ASSUME WindowAssumption == Window \in Nat \ {0}
ASSUME BoundsAssumption == /\ MaxTime \in Nat
                           /\ MaxHits \in Nat
                           /\ MaxEvictions \in Nat

VARIABLES
    now,         \* the clock of Redis
    count,       \* the value under pulsede:rate:{client_id}; 0 if none
    expireAt,    \* when the key expires
    hits,        \* times at which the counter was incremented
    admits,      \* times at which a request was admitted
    evictions    \* evictions so far
limiterVars == <<now, count, expireAt, hits, admits, evictions>>

LimiterInit ==
    /\ now = 0
    /\ count = 0
    /\ expireAt = 0
    /\ hits = <<>>
    /\ admits = <<>>
    /\ evictions = 0
-----------------------------------------------------------------------------
\* What INCR finds: an expired key counts from nothing.
CurrentForever == count
Current == IF now < expireAt THEN count ELSE 0

\* EXPIRE key window_s, sent with every request and not only the first.
ExpiryOfFirstHit == IF now < expireAt THEN expireAt ELSE now + Window
Expiry == now + Window

\* int(count) > limit.
OverAfterLimit(n) == n > Limit + 1
Over(n) == n > Limit

\* MULTI; INCR key; EXPIRE key window_s; EXEC.
IncrExpire ==
    /\ Len(hits) < MaxHits
    /\ count' = Current + 1
    /\ expireAt' = Expiry
    /\ hits' = Append(hits, now)
    /\ UNCHANGED <<now, evictions>>

\* is_rate_limited returns FALSE and the endpoint runs.
Admit ==
    /\ IncrExpire
    /\ ~Over(count')
    /\ admits' = Append(admits, now)

\* is_rate_limited returns TRUE: 429.
Refuse ==
    /\ IncrExpire
    /\ Over(count')
    /\ UNCHANGED admits

\* Redis executes the transaction but the reply does not arrive in time.
LoseReply ==
    /\ IncrExpire
    /\ UNCHANGED admits

\* Redis is out of memory and the key is the least recently used.
Evict ==
    /\ evictions < MaxEvictions
    /\ Current > 0
    /\ count' = 0
    /\ expireAt' = now
    /\ evictions' = evictions + 1
    /\ UNCHANGED <<now, hits, admits>>

Tick ==
    /\ now < MaxTime
    /\ now' = now + 1
    /\ UNCHANGED <<count, expireAt, hits, admits, evictions>>

LimiterNext == Admit \/ Refuse \/ LoseReply \/ Evict \/ Tick

LimiterSpec == LimiterInit /\ [][LimiterNext]_limiterVars
-----------------------------------------------------------------------------
\* Every variable has its type.
LimiterTypeOK ==
    /\ now \in Nat
    /\ count \in Nat
    /\ expireAt \in Nat
    /\ hits \in Seq(Nat)
    /\ admits \in Seq(Nat)
    /\ evictions \in 0 .. MaxEvictions

\* While Redis keeps the key, no window of window_s seconds, wherever it
\* starts, holds more than the limit of admitted requests: the request
\* admitted Limit places later comes a whole window later.
WindowBound ==
    evictions = 0 =>
        \A i, j \in DOMAIN admits :
            i + Limit <= j => admits[i] + Window <= admits[j]

\* Every eviction grants at most one more quota.
EvictionBound ==
    \A i, j \in DOMAIN admits :
        i + Limit * (1 + evictions) <= j => admits[i] + Window <= admits[j]

\* The time between a hit and the next one, or the present one.
Gap(i) == (IF i = Len(hits) THEN now ELSE hits[i + 1]) - hits[i]

\* A refusal means that the client has hit the counter at least Limit times
\* before without once resting for a whole window: a client that rests is
\* admitted again.
RefusalMeansNoRest ==
    [][Refuse => /\ Len(hits) >= Limit
                 /\ \A i \in Len(hits) - Limit + 1 .. Len(hits) : Gap(i) < Window]_limiterVars

-----------------------------------------------------------------------------
\* The hits of the living key, the last "count" of them, have no whole window
\* between them, and the key expires a window after the last one.
LiveHits ==
    now < expireAt /\ count > 0 =>
        /\ count <= Len(hits)
        /\ expireAt = hits[Len(hits)] + Window
        /\ \A i \in Len(hits) - count + 1 .. Len(hits) - 1 : Gap(i) < Window

\* How much of the quota the living key has spent.
Spent == IF Current < Limit THEN Current ELSE Limit

\* The admissions after the first b are at most as many as the living key has
\* granted and the evicted ones could; the first b lie a whole window before
\* now, and all of them a whole window before the living key expires.
LiveAdmits ==
    /\ \A i \in DOMAIN admits : admits[i] <= now
    /\ Current > 0 => \A i \in DOMAIN admits : admits[i] + Window <= expireAt
    /\ \E b \in 0 .. Len(admits) :
          /\ Len(admits) - b <= Limit * evictions + Spent
          /\ \A i \in 1 .. b : admits[i] + Window <= now

\* The key never lives longer than a window from now.
ExpiryBound == expireAt <= now + Window

\* The inductive invariant behind the theorems on this module.
LimiterInv ==
    /\ LimiterTypeOK
    /\ LiveHits
    /\ LiveAdmits
    /\ ExpiryBound
    /\ EvictionBound
=============================================================================
