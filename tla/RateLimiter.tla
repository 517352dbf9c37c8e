----------------------------- MODULE RateLimiter ----------------------------
(***************************************************************************)
(* The token-bucket limiters (ratelimit/limiter.go) behind the RateLimit   *)
(* middleware, for one client key: the global and the auth limiter, in     *)
(* memory (one bucket each) or on Redis, where keyFor gives both the same  *)
(* bucket.  Tokens are counted in units, so that fractions of a token are  *)
(* integers: a request costs Cost units, a limiter refills Rate units per  *)
(* tick up to Burst units.                                                 *)
(***************************************************************************)
EXTENDS Naturals

CONSTANTS
    Limiters,    \* the limiters a client's requests go through, one per request
    Cost,        \* units of one token
    Rate,        \* limiter -> units per tick
    Burst,       \* limiter -> units
    Idle,        \* ticks until Redis drops an unused bucket (PEXPIRE)
    MaxOutages,  \* how many calls of Redis fail (bound)
    MaxTicks,    \* how far the clock runs (bound)
    NoBucket     \* the key has no bucket

Bucket == [tokens : Nat, last : Nat]

ASSUME RateLimiterAssumption ==
    /\ Cost \in Nat \ {0}
    /\ Rate \in [Limiters -> Nat \ {0}]
    /\ Burst \in [Limiters -> Nat \ {0}]
    /\ \A l \in Limiters : Burst[l] >= Cost
    /\ Idle \in Nat \ {0}
    /\ MaxOutages \in Nat
    /\ MaxTicks \in Nat
    /\ NoBucket \notin Bucket

VARIABLES
    onRedis,   \* limiter -> main built a RedisLimiter: REDIS_URL is set and Redis
               \* answered the ping that buildRateLimiter sends for each limiter
    bucket,    \* the buckets: tokens and the time of the last fill
    clock,
    used,      \* history: bucket -> tick -> how many requests were allowed on the
               \* bucket from that tick on
    denied,    \* history: the limiter that has just refused a request, if any
    outages    \* history: how many calls have failed

limiterVars == <<onRedis, bucket, clock, used, denied, outages>>

\* In memory each limiter has its own map; RedisLimiter.keyFor names the client
\* but not the limiter.
keyFor(l) == IF onRedis[l] THEN "shared" ELSE l
Keys == Limiters \cup {"shared"}
Sharing(l) == {m \in Limiters : keyFor(m) = keyFor(l)}

LimiterInit ==
    /\ onRedis \in [Limiters -> BOOLEAN]
    /\ bucket = [k \in Keys |-> NoBucket]
    /\ clock = 0
    /\ used = [k \in Keys |-> [s \in 0..MaxTicks |-> 0]]
    /\ denied = {}
    /\ outages = 0

\* The tokens of l's bucket at time t; every call resets the bucket's expiry.
Present(l) ==
    /\ bucket[keyFor(l)] # NoBucket
    /\ onRedis[l] => clock < bucket[keyFor(l)].last + Idle
TokensAt(l, t) ==
    LET b == bucket[keyFor(l)]
        filled == b.tokens + (t - b.last) * Rate[l]
    IN  IF t = b.last THEN b.tokens ELSE IF Burst[l] < filled THEN Burst[l] ELSE filled

\* Mutant: the time of the last fill is not moved.
Put_KeepLast(l, n) ==
    bucket' = [bucket EXCEPT ![keyFor(l)] =
                  [tokens |-> n, last |-> IF Present(l) THEN bucket[keyFor(l)].last ELSE clock]]

Put(l, n) == bucket' = [bucket EXCEPT ![keyFor(l)] = [tokens |-> n, last |-> clock]]

Granted(l) ==
    /\ used' = [used EXCEPT ![keyFor(l)] = [s \in 0..MaxTicks |-> IF s <= clock THEN @[s] + 1 ELSE @[s]]]
    /\ denied' = {}

\* Mutant: the first token is taken twice.
Left_Double(l) ==
    IF ~Present(l) THEN Burst[l] - 2 * Cost
    ELSE TokensAt(l, clock) - (IF TokensAt(l, clock) >= Cost THEN Cost ELSE 0)

\* What Allow's critical section or script leaves in the bucket: a new bucket
\* less one token, or the refilled one with a token taken if there is one.
Left(l) ==
    IF ~Present(l) THEN Burst[l] - Cost
    ELSE TokensAt(l, clock) - (IF TokensAt(l, clock) >= Cost THEN Cost ELSE 0)

Allow(l) ==
    /\ Put(l, Left(l))
    /\ \/ (Present(l) => TokensAt(l, clock) >= Cost) /\ Granted(l)
       \/ Present(l) /\ TokensAt(l, clock) < Cost /\ denied' = {l} /\ UNCHANGED used
    /\ UNCHANGED <<clock, outages>>

\* Redis does not answer, having run the script or not: the request is allowed.
FailOpen(l) ==
    /\ onRedis[l]
    /\ outages < MaxOutages
    /\ outages' = outages + 1
    /\ Put(l, Left(l)) \/ UNCHANGED bucket
    /\ Granted(l)
    /\ UNCHANGED clock

\* Mutant: rounded down.
Wait_Down(l) ==
    LET n == TokensAt(l, clock)
    IN  IF n >= Cost THEN 0 ELSE (Cost - n) \div Rate[l]

\* inMemoryLimiter.RetryAfter, in ticks: the missing units at the refill rate,
\* and one more.
Wait(l) ==
    LET n == TokensAt(l, clock)
    IN  IF n >= Cost THEN 0 ELSE (Cost - n) \div Rate[l] + 1

\* The durations Limiter.RetryAfter may answer: on Redis also 0, when HMGET fails
\* or its fields cannot be parsed.
RetryAfter(l) == {Wait(l)} \cup (IF onRedis[l] THEN {0} ELSE {})

TimePasses ==
    /\ clock < MaxTicks
    /\ clock' = clock + 1
    /\ denied' = {}
    /\ UNCHANGED <<bucket, used, outages>>

LimiterNext ==
    /\ TimePasses \/ \E l \in Limiters : Allow(l) \/ FailOpen(l)
    /\ UNCHANGED onRedis

LimiterSpec == LimiterInit /\ [][LimiterNext]_limiterVars

-----------------------------------------------------------------------------
\* Every variable has the type the code gives it; a bucket never goes negative.
LimiterTypeOK ==
    /\ onRedis \in [Limiters -> BOOLEAN]
    /\ bucket \in [Keys -> Bucket \cup {NoBucket}]
    /\ clock \in 0..MaxTicks
    /\ used \in [Keys -> [0..MaxTicks -> Nat]]
    /\ denied \subseteq Limiters
    /\ outages \in 0..MaxOutages

\* How fast a bucket comes back: a bucket that Redis drops is full again after
\* Idle ticks, although the rate may not have filled it by then.
Speed(l) ==
    IF onRedis[l] /\ Rate[l] * Idle < Burst[l] THEN (Burst[l] + Idle - 1) \div Idle
                                          ELSE Rate[l]

\* In every window of time the limiters that use one bucket allow together no
\* more than the largest of their bursts and of what comes back in the window,
\* and one request for each call that failed.  In memory what comes back is the
\* configured rate; on Redis it is more where a burst takes longer to refill
\* than an unused bucket lives.
WithinBudget ==
    \A l \in Limiters : \A s \in 0..clock : \E m, n \in Sharing(l) :
        Cost * used[keyFor(l)][s] <= Cost * outages + Burst[m] + (clock - s) * Speed(n)

\* A request is refused only if in some window the limiters that use its bucket
\* had, with it, allowed more than the smallest of their bursts and of their
\* refills.  In memory that is the limiter's own budget; on Redis, where the
\* global and the auth limiter share a bucket, each pays for the other.
DenialsAreJustified ==
    \A l \in denied : \E s \in 0..clock : \E m, n \in Sharing(l) :
        Cost * used[keyFor(l)][s] + Cost > Burst[m] + (clock - s) * Rate[n]

\* "RetryAfter returns the suggested wait before the next request would be
\* allowed" (ratelimit/limiter.go): after that duration a bucket that nobody used
\* in between has a token.  In memory every refusal has such a duration; on Redis
\* a 0 says nothing.  (How the middleware prints it is not part of this.)
RetryAfterSuffices ==
    \A l \in denied : \A w \in RetryAfter(l) :
        (onRedis[l] => w > 0) => TokensAt(l, clock + w) >= Cost
=============================================================================
