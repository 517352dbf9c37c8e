--------------------------- MODULE CachedUserStore --------------------------
(***************************************************************************)
(* The read-through cache in front of the user store                       *)
(* (store/cached_user_store.go, cache/*.go), for one user id; entries of   *)
(* different ids share nothing.  Asking the cache, loading from the store, *)
(* filling the cache, writing the store and invalidating are separate      *)
(* steps of concurrent calls.  A row is the number of its last write.      *)
(***************************************************************************)
EXTENDS Naturals

CONSTANTS
    Requests,    \* callers of GetByID
    Writers,     \* callers of Update, UpdatePassword and Delete
    MaxWrites,   \* how many writes there are (bound)
    CacheTTL,    \* USER_CACHE_TTL in ticks
    StoreFaults, \* the calls that may fail: cache "get", "set", "del"; store "load"
    None         \* no entry; no row

ASSUME CachedUserStoreAssumption ==
    /\ MaxWrites \in Nat
    /\ CacheTTL \in Nat \ {0}
    /\ StoreFaults \subseteq {"get", "set", "del", "load"}

VARIABLES
    row,       \* what the inner store holds; None once the user is deleted
    writes,    \* how many writes there have been
    entry,     \* the cache entry: value, ticks left, and (history) whether it was
               \* filled with an outdated row or missed by an invalidation
    call,      \* readers: idle, load, fill; writers: idle, invalidate
    loaded     \* the row each reader holds between loading and filling

cacheVars == <<row, writes, entry, call, loaded>>

Row == 0..MaxWrites
Entry == [value : Row, left : 1..CacheTTL, suspect : BOOLEAN]

CacheInit ==
    /\ row = 0
    /\ writes = 0
    /\ entry = None
    /\ call = [p \in Requests \cup Writers |-> "idle"]
    /\ loaded = [r \in Requests |-> 0]

Proceed(p, l) == call' = [call EXCEPT ![p] = l]

\* cache.Get: a hit answers the call at once; a miss or an error goes on.
Get(r) ==
    /\ call[r] = "idle"
    /\ entry = None \/ "get" \in StoreFaults
    /\ Proceed(r, "load")
    /\ UNCHANGED <<row, writes, entry, loaded>>

\* inner.GetByID: an unknown user, or any other error, fills nothing.
Load(r) ==
    /\ call[r] = "load"
    /\ \/ /\ row # None
          /\ loaded' = [loaded EXCEPT ![r] = row]
          /\ Proceed(r, "fill")
       \/ /\ row = None \/ "load" \in StoreFaults
          /\ Proceed(r, "idle")
          /\ UNCHANGED loaded
    /\ UNCHANGED <<row, writes, entry>>

\* SetWithTTL, whose error is discarded.
Fill(r) ==
    /\ call[r] = "fill"
    /\ \/ entry' = [value |-> loaded[r], left |-> CacheTTL, suspect |-> loaded[r] # row]
       \/ "set" \in StoreFaults /\ UNCHANGED entry
    /\ Proceed(r, "idle")
    /\ loaded' = [loaded EXCEPT ![r] = 0]
    /\ UNCHANGED <<row, writes>>

\* Mutant: the entry is not invalidated.
Write_Only(w) ==
    /\ call[w] = "idle"
    /\ row # None
    /\ writes < MaxWrites
    /\ writes' = writes + 1
    /\ row' \in {writes + 1, None}
    /\ UNCHANGED <<entry, call, loaded>>

\* inner.Update or inner.UpdatePassword; inner.Delete.
Write(w) ==
    /\ call[w] = "idle"
    /\ row # None
    /\ writes < MaxWrites
    /\ writes' = writes + 1
    /\ row' \in {writes + 1, None}
    /\ Proceed(w, "invalidate")
    /\ UNCHANGED <<entry, loaded>>

\* cache.Delete, whose error is discarded.
invalidate(w) ==
    /\ call[w] = "invalidate"
    /\ \/ entry' = None
       \/ /\ "del" \in StoreFaults
          /\ entry' = IF entry = None THEN None ELSE [entry EXCEPT !.suspect = TRUE]
    /\ Proceed(w, "idle")
    /\ UNCHANGED <<row, writes, loaded>>

\* Mutant: entries do not age.
Aged_Not == entry

Aged == IF entry.left = 1 THEN None ELSE [entry EXCEPT !.left = @ - 1]

\* Time passes; an entry whose time is up counts as missing.
CacheTick ==
    /\ entry # None
    /\ entry' = Aged
    /\ UNCHANGED <<row, writes, call, loaded>>

CacheNext ==
    \/ \E r \in Requests : Get(r) \/ Load(r) \/ Fill(r)
    \/ \E w \in Writers : Write(w) \/ invalidate(w)
    \/ CacheTick

CacheSpec == CacheInit /\ [][CacheNext]_cacheVars

\* Time passes and calls that have begun go on.
CacheFairness ==
    /\ WF_cacheVars(CacheTick)
    /\ \A r \in Requests : WF_cacheVars(Load(r) \/ Fill(r))

-----------------------------------------------------------------------------
\* Every variable has the type the code gives it.
CacheTypeOK ==
    /\ row \in Row \cup {None}
    /\ writes \in Row
    /\ entry \in Entry \cup {None}
    /\ call \in [Requests \cup Writers -> {"idle", "load", "fill", "invalidate"}]
    /\ loaded \in [Requests -> Row]

Stale == entry # None /\ entry.value # row

\* GetByID serves an outdated user only between a write and its invalidation,
\* from an entry that a reader which had loaded the row before that write put
\* back after it, or from one that a failed invalidation left in the cache.
StaleOnlyByRace ==
    Stale => entry.suspect \/ \E w \in Writers : call[w] = "invalidate"

\* "no cache state can produce a wrong answer that the TTL will not eventually
\* repair" (docs/adr/0002): once writes stop, the cache ends up current, even
\* if fills and invalidations fail.
EventuallyFresh == <>[]~Stale
=============================================================================
