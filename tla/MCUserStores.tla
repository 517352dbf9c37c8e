---------------------------- MODULE MCUserStores ----------------------------
(* Password resets over the store in memory, and the cache in front of a     *)
(* store, on small instances.  They share no state and no property, so a     *)
(* behaviour moves one of them.                                              *)
EXTENDS PasswordReset, CachedUserStore

VARIABLE part    \* the one that moves

MCInit ==
    /\ Init
    /\ CacheInit
    /\ part = "resets" \/ (part = "cache" /\ ~redis)

MCNext ==
    /\ \/ part = "resets" /\ Next /\ UNCHANGED cacheVars
       \/ part = "cache" /\ CacheNext /\ UNCHANGED vars
    /\ UNCHANGED part

MCSpec == MCInit /\ [][MCNext]_<<vars, cacheVars, part>> /\ CacheFairness
=============================================================================
