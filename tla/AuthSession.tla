----------------------------- MODULE AuthSession ----------------------------
(***************************************************************************)
(* The token life cycle of one user: Login, Refresh and Logout             *)
(* (handler/auth.go), Me (handler/me.go), RequireAuth                      *)
(* (server/auth_middleware.go), the issuers (auth/jwt.go) and the jti      *)
(* blacklist (auth/blacklist.go), over the cached user store: its Writers  *)
(* are the admins' UpdateUser and DeleteUser.  Requests run concurrently;  *)
(* parsing a token, asking the blacklist, revoking, signing and each step  *)
(* of GetByID are separate.  A token is its position in `tokens`.          *)
(***************************************************************************)
EXTENDS CachedUserStore, Sequences

CONSTANTS
    AccessTTL,    \* lifetime of an access token, in ticks
    RefreshTTL,   \* lifetime of a refresh token
    MaxTime,      \* how far the clock runs (bound)
    Faults        \* the Redis calls that may fail: "revoke", "exists"

ASSUME AuthSessionAssumption ==
    /\ Writers \cap Requests = {}
    /\ AccessTTL \in Nat \ {0}
    /\ RefreshTTL \in Nat \ {0}
    /\ MaxTime \in Nat
    /\ Faults \subseteq {"revoke", "exists"}

VARIABLES
    redis,      \* main built redisBlacklist (REDIS_URL is set), not memoryBlacklist
    tokens,     \* the tokens returned to a client: kind and expiry
    blacklist,  \* token -> expiry of its entry, for the tokens that have one
    pc,         \* new, check, revoke, issue, user, ok, denied
    op,         \* what each request does: login, me, logout, refresh
    tok,        \* the token it presents; 0 is none
    signed,     \* when the pair was signed that Refresh holds but has not returned
    now,
    prior,      \* history: the tokens already given up when a request arrived
    failed,     \* history: some call of Redis has failed
    settled     \* history: when a read of the row as it was before the deletion
                \* was last used, to answer a login or to fill the cache

sessionVars == <<redis, tokens, blacklist, pc, op, tok, signed, prior, failed>>
vars == <<sessionVars, cacheVars, now, settled>>

Token == [kind : {"access", "refresh"}, exp : Nat]

\* TokenIssuer.Issue.
Signed(kind, ttl, time) == [kind |-> kind, exp |-> time + ttl]

issueTokens(time) == << Signed("access", AccessTTL, time), Signed("refresh", RefreshTTL, time) >>

\* The user has just registered, and nothing has been cached.
Init ==
    /\ redis \in BOOLEAN
    /\ tokens = issueTokens(0)
    /\ blacklist = [t \in {} |-> 0]
    /\ pc = [r \in Requests |-> "new"]
    /\ op = [r \in Requests |-> "none"]
    /\ tok = [r \in Requests |-> 0]
    /\ signed = [r \in Requests |-> 0]
    /\ now = 0
    /\ CacheInit
    /\ prior = [r \in Requests |-> {}]
    /\ failed = FALSE
    /\ settled = 0

\* Only calls of Redis fail.
Fails(c) == redis /\ c \in Faults /\ failed' = TRUE

Goto(r, l) == pc' = [pc EXCEPT ![r] = l]
Unexpired(t) == now < tokens[t].exp
Settle(used) == settled' = IF used THEN now ELSE settled

\* Login looks the user up by e-mail, past the cache, and verifies the password.
Login(r) ==
    /\ pc[r] = "new"
    /\ op' = [op EXCEPT ![r] = "login"]
    /\ Goto(r, IF row # None THEN "issue" ELSE "denied")
    /\ UNCHANGED <<tokens, blacklist, tok, signed, now, cacheVars, prior, failed, settled>>

\* The tokens whose logout or refresh has been answered.
GivenUp == {tok[s] : s \in {x \in Requests : op[x] \in {"logout", "refresh"} /\ pc[x] = "ok"}}

\* A request presents a token of the kind its route wants (a token of the other
\* kind fails on its audience) and the issuer parses it.
Parse(r) ==
    /\ pc[r] = "new"
    /\ \E o \in {"me", "logout", "refresh"}, t \in DOMAIN tokens :
        /\ op' = [op EXCEPT ![r] = o]
        /\ tok' = [tok EXCEPT ![r] = t]
        /\ Goto(r, IF /\ Unexpired(t)
                      /\ tokens[t].kind = (IF o = "refresh" THEN "refresh" ELSE "access")
                   THEN "check" ELSE "denied")
    /\ prior' = [prior EXCEPT ![r] = GivenUp]
    /\ UNCHANGED <<tokens, blacklist, signed, now, cacheVars, failed, settled>>

\* Mutant: the entry is dropped a tick early.
Listed_Early(t) == t \in DOMAIN blacklist /\ now + 1 < blacklist[t]

\* memoryBlacklist keeps an entry until the clock is past its expiry; Redis has
\* dropped the key by then.
Listed(t) ==
    /\ t \in DOMAIN blacklist
    /\ IF redis THEN now < blacklist[t] ELSE now <= blacklist[t]

\* IsRevoked: memoryBlacklist drops the entry it finds expired; an error of
\* Redis counts as not revoked.
IsRevoked(r) ==
    LET t == tok[r]
    IN  /\ pc[r] = "check"
        /\ \/ Listed(t) /\ Goto(r, "denied") /\ UNCHANGED failed
           \/ /\ (~Listed(t) /\ UNCHANGED failed) \/ Fails("exists")
              /\ Goto(r, IF op[r] = "me" THEN "user" ELSE "revoke")
        /\ blacklist' = [u \in DOMAIN blacklist \ (IF Listed(t) THEN {} ELSE {t}) |-> blacklist[u]]
        /\ UNCHANGED <<tokens, op, tok, signed, now, cacheVars, prior, settled>>

\* The entry of t added, until t expires.
Entered(t) ==
    [u \in DOMAIN blacklist \cup {t} |-> IF u = t THEN tokens[t].exp ELSE blacklist[u]]

\* redisBlacklist skips an expired token and swallows errors.
Revoke(t) ==
    \/ (redis => Unexpired(t)) /\ blacklist' = Entered(t) /\ UNCHANGED failed
    \/ redis /\ ~Unexpired(t) /\ UNCHANGED <<blacklist, failed>>
    \/ Fails("revoke") /\ UNCHANGED blacklist

\* Logout parses the token once more before revoking it.
Logout(r) ==
    /\ pc[r] = "revoke"
    /\ op[r] = "logout"
    /\ \/ Unexpired(tok[r]) /\ Revoke(tok[r]) /\ Goto(r, "ok")
       \/ ~Unexpired(tok[r]) /\ Goto(r, "denied") /\ UNCHANGED <<blacklist, failed>>
    /\ UNCHANGED <<tokens, op, tok, signed, now, cacheVars, prior, settled>>

\* Refresh revokes the old token before it issues the new pair.
Rotate(r) ==
    /\ pc[r] = "revoke"
    /\ op[r] = "refresh"
    /\ Revoke(tok[r])
    /\ Goto(r, "issue")
    /\ UNCHANGED <<tokens, op, tok, signed, now, cacheVars, prior, settled>>

\* Login signs a pair and returns it; Refresh signs it and then looks the user up.
Issue(r) ==
    /\ pc[r] = "issue"
    /\ \/ /\ op[r] = "login"
          /\ tokens' = tokens \o issueTokens(now)
          /\ Goto(r, "ok")
          /\ Settle(row = None)
          /\ UNCHANGED signed
       \/ /\ op[r] = "refresh"
          /\ signed' = [signed EXCEPT ![r] = now]
          /\ Goto(r, "user")
          /\ UNCHANGED <<tokens, settled>>
    /\ UNCHANGED <<blacklist, op, tok, now, cacheVars, prior, failed>>

\* Mutant: a user who is not found is not an error.
Answer_Anyway(r, found) ==
    /\ tokens' = IF op[r] = "refresh" THEN tokens \o issueTokens(signed[r]) ELSE tokens
    /\ Goto(r, "ok")

\* With the user found, Refresh returns the pair it signed, and Me the user.
\* After any error the answer is 401, and the old token stays revoked.
Answer(r, found) ==
    /\ tokens' = IF found /\ op[r] = "refresh" THEN tokens \o issueTokens(signed[r]) ELSE tokens
    /\ Goto(r, IF found THEN "ok" ELSE "denied")

\* GetByID of the cached store, for Refresh and Me: a hit answers at once.
GetByID(r) ==
    /\ pc[r] = "user"
    /\ \/ /\ call[r] = "idle" /\ entry # None
          /\ Answer(r, TRUE)
          /\ UNCHANGED <<cacheVars, settled>>
       \/ Get(r) /\ UNCHANGED <<tokens, pc, settled>>
       \/ /\ Load(r)
          /\ IF call'[r] = "idle" THEN Answer(r, FALSE) ELSE UNCHANGED <<tokens, pc>>
          /\ UNCHANGED settled
       \/ Fill(r) /\ Answer(r, TRUE) /\ Settle(row = None)
    /\ UNCHANGED <<blacklist, op, tok, signed, now, prior, failed>>

\* What a bearer token goes through; Refresh does the same with its own issuer.
RequireAuth(r) == Parse(r) \/ IsRevoked(r)

UpdateUser(a) == Write(a) /\ row' # None /\ UNCHANGED settled
DeleteUser(a) == Write(a) /\ row' = None /\ Settle(TRUE)

\* Both handlers go through the cached store: the row, then the cache entry.
ChangeUser(a) ==
    /\ \/ UpdateUser(a)
       \/ DeleteUser(a)
       \/ invalidate(a) /\ UNCHANGED settled
    /\ UNCHANGED <<tokens, blacklist, pc, op, tok, signed, now, prior, failed>>

\* Time passes for the tokens and for the cache entry.
Tick ==
    /\ now < MaxTime
    /\ now' = now + 1
    /\ entry' = IF entry = None THEN None ELSE Aged
    /\ UNCHANGED <<tokens, blacklist, pc, op, tok, signed, row, writes, call, loaded, prior, failed, settled>>

Next ==
    /\ \/ \E r \in Requests : \/ Login(r)
                              \/ RequireAuth(r)
                              \/ Logout(r)
                              \/ Rotate(r)
                              \/ Issue(r)
                              \/ GetByID(r)
       \/ \E a \in Writers : ChangeUser(a)
       \/ Tick
    /\ UNCHANGED redis

Spec == Init /\ [][Next]_vars

-----------------------------------------------------------------------------
\* Every variable has the type the code gives it.
TypeOK ==
    /\ redis \in BOOLEAN
    /\ tokens \in Seq(Token)
    /\ DOMAIN blacklist \subseteq DOMAIN tokens
    /\ \A t \in DOMAIN blacklist : blacklist[t] \in Nat
    /\ pc \in [Requests -> {"new", "check", "revoke", "issue", "user", "ok", "denied"}]
    /\ op \in [Requests -> {"none", "login", "me", "logout", "refresh"}]
    /\ tok \in [Requests -> {0} \cup DOMAIN tokens]
    /\ signed \in [Requests -> 0..MaxTime]
    /\ now \in 0..MaxTime
    /\ CacheTypeOK
    /\ prior \in [Requests -> SUBSET DOMAIN tokens]
    /\ failed \in BOOLEAN
    /\ settled \in 0..MaxTime

\* A token whose logout or refresh was answered before a request arrived does
\* not pass the blacklist in that request, up to the instant it expires, unless
\* a call of Redis has failed: neither the lazy cleanup of the memory blacklist
\* nor the TTL of a Redis key forgets a token that is still valid.
GivenUpTokensAreRejected ==
    ~failed => \A r \in Requests :
        pc[r] \notin {"new", "check", "denied"} /\ tok[r] \in prior[r] => ~Unexpired(tok[r])

\* A deleted user's session runs out although Refresh asks the cache: counted
\* from the deletion, or from the last use of a read that was in flight then, no
\* token outlives one cache entry and the lifetime of one token, however often
\* the session was refreshed and whether or not the invalidation worked.
DeletedUserRunsOut ==
    row = None => \A t \in DOMAIN tokens :
        tokens[t].exp < settled + CacheTTL + (IF tokens[t].kind = "access" THEN AccessTTL ELSE RefreshTTL)
=============================================================================
