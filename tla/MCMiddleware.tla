---------------------------- MODULE MCMiddleware ----------------------------
(* The idempotency and the rate-limiting middleware on small instances.      *)
(* They share no state and no property, so a behaviour moves one of them.    *)
(* Requests may be permuted, and so may bodies: the code only compares their *)
(* hashes.  A token is two units.  The global limiter has the larger burst   *)
(* and the faster refill, as in config.go; the auth limiter's burst takes    *)
(* longer to refill than Redis keeps an unused bucket.                       *)
EXTENDS Idempotency, RateLimiter, TLC

CONSTANTS Global, Auth

VARIABLE part    \* the middleware that moves

MCRate == [l \in Limiters |-> IF l = Global THEN 3 ELSE 1]
MCBurst == [l \in Limiters |-> IF l = Global THEN 6 ELSE 4]

\* The one that does not move is in memory.
MCInit ==
    /\ Init
    /\ LimiterInit
    /\ \/ part = "idempotency" /\ \A l \in Limiters : ~onRedis[l]
       \/ part = "limiters" /\ ~redis

MCNext ==
    /\ \/ part = "idempotency" /\ Next /\ UNCHANGED limiterVars
       \/ part = "limiters" /\ LimiterNext /\ UNCHANGED vars
    /\ UNCHANGED part

MCSpec == MCInit /\ [][MCNext]_<<vars, limiterVars, part>>

Symmetry == Permutations(Requests) \cup Permutations(Bodies)
=============================================================================
