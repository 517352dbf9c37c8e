------------------------- MODULE AuthSessionProofs --------------------------
(***************************************************************************)
(* Proofs about the token life cycle, for any number of requests, writers  *)
(* and changes of the user, any lifetimes and any failing calls: what a    *)
(* given-up token can still do, when a deleted user's session ends, and    *)
(* that the handlers use the cached store as CachedUserStore describes it. *)
(***************************************************************************)
EXTENDS AuthSession, SequenceTheorems, TLAPS

-----------------------------------------------------------------------------
(* Tokens.                                                                  *)

Lifetime(kind) == IF kind = "access" THEN AccessTTL ELSE RefreshTTL

\* What a login or a refresh signs.
LEMMA Signs ==
    ASSUME NEW time \in Nat, NEW p, p = issueTokens(time)
    PROVE  /\ p \in Seq(Token) /\ Len(p) = 2
           /\ p[1].exp = time + Lifetime(p[1].kind) /\ p[2].exp = time + Lifetime(p[2].kind)
BY AuthSessionAssumption DEF issueTokens, Signed, Token, Lifetime

\* The tokens after a login or a refresh has added its pair.
LEMMA Pair ==
    ASSUME NEW s \in Seq(Token), NEW time \in Nat, NEW t, t = s \o issueTokens(time)
    PROVE  /\ t \in Seq(Token) /\ DOMAIN s \subseteq DOMAIN t
           /\ \A i \in DOMAIN s : t[i] = s[i]
<1>1. PICK p : p = issueTokens(time)
  OBVIOUS
<1>2. p \in Seq(Token) /\ Len(p) = 2 /\ t = s \o p
  BY <1>1, Signs
<1>3. /\ s \o p \in Seq(Token) /\ Len(s \o p) = Len(s) + Len(p)
      /\ \A i \in 1..(Len(s) + Len(p)) : (s \o p)[i] = IF i <= Len(s) THEN s[i] ELSE p[i - Len(s)]
  BY <1>2, ConcatProperties, Zenon
<1> QED BY <1>2, <1>3

\* The two tokens of the pair come last.
LEMMA Appended ==
    ASSUME NEW s \in Seq(Token), NEW p \in Seq(Token), Len(p) = 2, NEW i \in DOMAIN (s \o p), i \notin DOMAIN s
    PROVE  (s \o p)[i] = p[1] \/ (s \o p)[i] = p[2]
<1>1. /\ s \o p \in Seq(Token) /\ Len(s \o p) = Len(s) + Len(p)
      /\ \A k \in 1..(Len(s) + Len(p)) : (s \o p)[k] = IF k <= Len(s) THEN s[k] ELSE p[k - Len(s)]
  BY ConcatProperties, Zenon
<1>2. i - Len(s) \in {1, 2} /\ (s \o p)[i] = p[i - Len(s)]
  BY <1>1
<1> QED BY <1>2

\* Each of them is signed at that time, for the lifetime of its kind.
LEMMA OfPair ==
    ASSUME NEW s \in Seq(Token), NEW time \in Nat, NEW t, t = s \o issueTokens(time),
           NEW i \in DOMAIN t, i \notin DOMAIN s
    PROVE  t[i].exp = time + Lifetime(t[i].kind)
<1>1. PICK p : p = issueTokens(time)
  OBVIOUS
<1>2. p \in Seq(Token) /\ Len(p) = 2 /\ t = s \o p
  BY <1>1, Signs
<1>3. t[i] = p[1] \/ t[i] = p[2]
  <2>1. i \in DOMAIN (s \o p)
    BY <1>2, Zenon
  <2>2. (s \o p)[i] = p[1] \/ (s \o p)[i] = p[2]
    BY <1>2, <2>1, Appended
  <2> QED BY <1>2, <2>2, Zenon
<1>4. p[1].exp = time + Lifetime(p[1].kind) /\ p[2].exp = time + Lifetime(p[2].kind)
  BY <1>1, Signs
<1> QED BY <1>3, <1>4, Zenon

\* An entry of the cache, a tick older.
LEMMA Older ==
    ASSUME NEW e \in Entry, e = entry, Aged # None
    PROVE  /\ Aged \in Entry /\ Aged.left = e.left - 1 /\ e.left \in Nat
           /\ Aged.value = e.value /\ Aged.suspect = e.suspect
<1>1. e.left \in 1..CacheTTL /\ e.left # 1 /\ CacheTTL \in Nat
  BY CachedUserStoreAssumption DEF Aged, Entry
<1>2. Aged = [e EXCEPT !.left = e.left - 1]
  BY <1>1 DEF Aged
<1> QED BY <1>1, <1>2 DEF Entry

-----------------------------------------------------------------------------
(* The cached store under the handlers.                                     *)

\* The handlers change the row and the cache only as the cached store does:
\* every step of theirs is one of its steps, or leaves it alone.
LEMMA StoreStep == [Next]_vars => [CacheNext]_cacheVars
<1> SUFFICES ASSUME [Next]_vars PROVE CacheNext \/ UNCHANGED cacheVars
  OBVIOUS
<1> USE DEF cacheVars
<1>1. ASSUME NEW r \in Requests, Login(r) \/ RequireAuth(r) \/ Logout(r) \/ Rotate(r) \/ Issue(r)
      PROVE  UNCHANGED cacheVars
  BY <1>1 DEF Login, RequireAuth, Parse, IsRevoked, Logout, Rotate, Issue
<1>2. ASSUME NEW r \in Requests, GetByID(r) PROVE CacheNext \/ UNCHANGED cacheVars
  BY <1>2, Zenon DEF GetByID, CacheNext
<1>3. ASSUME NEW a \in Writers, ChangeUser(a) PROVE CacheNext
  BY <1>3, Zenon DEF ChangeUser, UpdateUser, DeleteUser, CacheNext
<1>4. CASE Tick
  BY <1>4 DEF Tick, CacheNext, CacheTick
<1>5. CASE UNCHANGED vars
  BY <1>5 DEF vars
<1> QED BY <1>1, <1>2, <1>3, <1>4, <1>5 DEF Next

\* The session handlers and the admins' use the store by its rules, so what
\* holds of the cached store for any callers holds of it under them.
THEOREM StoreUsed == Spec => CacheSpec
<1>1. Init => CacheInit
  BY DEF Init
<1> QED BY <1>1, StoreStep, PTL DEF Spec, CacheSpec

\* The types of the cached store.
LEMMA StoreTypes == CacheTypeOK /\ [CacheNext]_cacheVars => CacheTypeOK'
<1> SUFFICES ASSUME CacheTypeOK, [CacheNext]_cacheVars PROVE CacheTypeOK'
  OBVIOUS
<1> USE DEF CacheTypeOK, Row, Proceed
<1>0. MaxWrites \in Nat /\ CacheTTL \in Nat \ {0}
  BY CachedUserStoreAssumption
<1>1. ASSUME NEW r \in Requests, Get(r) \/ Load(r) PROVE CacheTypeOK'
  BY <1>1 DEF Get, Load
<1>2. ASSUME NEW r \in Requests, Fill(r) PROVE CacheTypeOK'
  <2>1. entry' \in Entry \cup {None}
    <3>1. PICK b \in BOOLEAN : b = (loaded[r] # row)
      BY Zenon
    <3>2. [value |-> loaded[r], left |-> CacheTTL, suspect |-> b] \in Entry
      BY <1>0 DEF Entry
    <3> QED BY <1>2, <3>1, <3>2 DEF Fill
  <2> QED BY <1>0, <1>2, <2>1 DEF Fill
<1>3. ASSUME NEW a \in Writers, Write(a) PROVE CacheTypeOK'
  BY <1>0, <1>3 DEF Write
<1>4. ASSUME NEW a \in Writers, invalidate(a) PROVE CacheTypeOK'
  <2>1. entry' \in Entry \cup {None}
    BY <1>4, Zenon DEF invalidate, Entry
  <2> QED BY <1>4, <2>1 DEF invalidate
<1>5. CASE CacheTick
  <2>1. entry' \in Entry \cup {None}
    BY <1>5, Older DEF CacheTick
  <2> QED BY <1>5, <2>1 DEF CacheTick
<1>6. CASE UNCHANGED cacheVars
  BY <1>6 DEF cacheVars
<1> QED BY <1>1, <1>2, <1>3, <1>4, <1>5, <1>6 DEF CacheNext

\* Whoever the readers and the writers are, and whichever calls fail, GetByID
\* serves an outdated user only between a write and its invalidation, from an
\* entry filled with a row read before that write, or from one whose
\* invalidation failed.
THEOREM StaleByRace == CacheSpec => []StaleOnlyByRace
<1>1. CacheInit => CacheTypeOK /\ StaleOnlyByRace
  BY CachedUserStoreAssumption
  DEF CacheInit, CacheTypeOK, Row, StaleOnlyByRace, Stale
<1>2. ASSUME CacheTypeOK, StaleOnlyByRace, [CacheNext]_cacheVars
      PROVE  StaleOnlyByRace'
  <2> USE DEF StaleOnlyByRace, Stale, Proceed
  <2>0. call \in [Requests \cup Writers -> {"idle", "load", "fill", "invalidate"}] /\ entry \in Entry \cup {None}
    BY <1>2 DEF CacheTypeOK
  <2>1. ASSUME NEW r \in Requests, Get(r) \/ Load(r) PROVE StaleOnlyByRace'
    BY <1>2, <2>0, <2>1 DEF Get, Load
  <2>2. ASSUME NEW r \in Requests, Fill(r) PROVE StaleOnlyByRace'
    <3>1. CASE UNCHANGED <<entry, row>>
      BY <1>2, <2>0, <2>2, <3>1 DEF Fill
    <3>2. CASE entry' = [value |-> loaded[r], left |-> CacheTTL, suspect |-> loaded[r] # row]
      <4>1. PICK b : b = (loaded[r] # row)
        OBVIOUS
      <4>2. entry'.value = loaded[r] /\ entry'.suspect = b
        BY <3>2, <4>1
      <4> QED BY <2>2, <4>1, <4>2, Zenon DEF Fill
    <3> QED BY <2>2, <3>1, <3>2 DEF Fill
  <2>3. ASSUME NEW a \in Writers, Write(a) PROVE StaleOnlyByRace'
    BY <2>0, <2>3 DEF Write
  <2>4. ASSUME NEW a \in Writers, invalidate(a) PROVE StaleOnlyByRace'
    <3>1. entry' # None => entry'.suspect
      BY <2>0, <2>4 DEF invalidate, Entry
    <3> QED BY <3>1
  <2>5. CASE CacheTick
    <3>1. entry' # None => entry # None /\ entry'.value = entry.value /\ entry'.suspect = entry.suspect
      BY <2>0, <2>5, Older DEF CacheTick
    <3> QED BY <1>2, <2>5, <3>1 DEF CacheTick
  <2>6. CASE UNCHANGED cacheVars
    BY <1>2, <2>6 DEF cacheVars
  <2> QED BY <1>2, <2>1, <2>2, <2>3, <2>4, <2>5, <2>6 DEF CacheNext
<1> QED BY <1>1, <1>2, StoreTypes, PTL DEF CacheSpec

\* So it is in a session: Refresh and Me meet an outdated user in no other way.
THEOREM SessionsStaleByRace == Spec => []StaleOnlyByRace
BY StoreUsed, StaleByRace, PTL

-----------------------------------------------------------------------------
(* The inductive invariant.                                                 *)

\* A request that presents a token presents one that was returned, only Me and
\* Refresh look the user up, and a request that has not arrived has no past.
Presented ==
    \A r \in Requests :
        /\ op[r] \in {"me", "logout", "refresh"} => tok[r] \in DOMAIN tokens
        /\ pc[r] = "user" => op[r] \in {"me", "refresh"}
        /\ pc[r] = "new" => prior[r] = {}

\* An entry of the blacklist lasts exactly as long as its token.
Exact == \A t \in DOMAIN blacklist : blacklist[t] = tokens[t].exp

\* A token that no request can use: expired, or listed until it is.
Blocked(t) == ~Unexpired(t) \/ (t \in DOMAIN blacklist /\ blacklist[t] = tokens[t].exp)

\* Requests that have revoked the token they present.
Revokers ==
    {s \in Requests : \/ op[s] \in {"logout", "refresh"} /\ pc[s] = "ok"
                      \/ op[s] = "refresh" /\ pc[s] \in {"issue", "user"}}

\* A token that was revoked, or given up before a request arrived, is blocked.
Kept ==
    /\ \A s \in Revokers : Blocked(tok[s])
    /\ \A r \in Requests : \A t \in prior[r] : Blocked(t)
    /\ \A r \in Requests :
        pc[r] \notin {"new", "check", "denied"} /\ tok[r] \in prior[r] => ~Unexpired(tok[r])

\* No token was signed in the future, and once the user is deleted an entry of
\* the cache is gone CacheTTL after the last use of an older read.
Dated ==
    /\ settled <= now
    /\ \A r \in Requests : signed[r] <= now
    /\ \A t \in DOMAIN tokens : tokens[t].exp <= now + Lifetime(tokens[t].kind)
    /\ row = None /\ entry # None => now + entry.left <= settled + CacheTTL

SessionInv == TypeOK /\ Presented /\ Exact /\ (~failed => Kept) /\ Dated /\ DeletedUserRunsOut

-----------------------------------------------------------------------------
(* What a step does to the tokens and the blacklist.                        *)

\* The clock and the lifetimes are numbers.
LEMMA Numbers ==
    ASSUME TypeOK
    PROVE  /\ MaxTime \in Nat /\ now \in Nat /\ now <= MaxTime /\ settled \in Nat
           /\ \A r \in Requests : signed[r] \in Nat
           /\ AccessTTL \in Nat /\ RefreshTTL \in Nat /\ CacheTTL \in Nat \ {0}
           /\ \A k : Lifetime(k) \in Nat
BY AuthSessionAssumption, CachedUserStoreAssumption DEF TypeOK, Lifetime

\* Every token has a kind and a time at which it expires.
LEMMA TokenTypes ==
    ASSUME TypeOK, NEW t \in DOMAIN tokens
    PROVE  tokens[t].exp \in Nat /\ tokens[t].kind \in {"access", "refresh"}
<1>1. tokens \in Seq(Token)
  BY DEF TypeOK
<1>2. tokens[t] \in Token
  BY <1>1
<1> QED BY <1>2 DEF Token

\* A step returns at most one pair, signed now or when Refresh signed it.
LEMMA Returned ==
    ASSUME SessionInv, [Next]_vars
    PROVE  tokens' = tokens \/ \E time \in 0..now : tokens' = tokens \o issueTokens(time)
<1>1. now \in 0..now /\ \A r \in Requests : signed[r] \in 0..now
  BY Numbers DEF SessionInv, Dated
<1>2. ASSUME NEW r \in Requests, Login(r) \/ RequireAuth(r) \/ Logout(r) \/ Rotate(r) PROVE tokens' = tokens
  BY <1>2 DEF Login, RequireAuth, Parse, IsRevoked, Logout, Rotate
<1>3. ASSUME NEW r \in Requests, Issue(r) PROVE tokens' = tokens \/ tokens' = tokens \o issueTokens(now)
  BY <1>3 DEF Issue
<1>4. ASSUME NEW r \in Requests, GetByID(r) PROVE tokens' = tokens \/ tokens' = tokens \o issueTokens(signed[r])
  BY <1>4 DEF GetByID, Answer
<1>5. ASSUME NEW a \in Writers, ChangeUser(a) PROVE tokens' = tokens
  BY <1>5 DEF ChangeUser
<1>6. CASE Tick \/ UNCHANGED vars
  BY <1>6 DEF Tick, vars, sessionVars
<1> QED BY <1>1, <1>2, <1>3, <1>4, <1>5, <1>6, Zenon DEF Next

\* So the tokens there are stay what they are.
LEMMA TokensKept ==
    ASSUME SessionInv, [Next]_vars
    PROVE  /\ tokens' \in Seq(Token) /\ DOMAIN tokens \subseteq DOMAIN tokens'
           /\ \A i \in DOMAIN tokens : tokens'[i] = tokens[i]
<1>1. tokens \in Seq(Token)
  BY DEF SessionInv, TypeOK
<1>2. CASE tokens' = tokens
  BY <1>1, <1>2
<1>3. ASSUME NEW time \in 0..now, tokens' = tokens \o issueTokens(time)
      PROVE  /\ tokens' \in Seq(Token) /\ DOMAIN tokens \subseteq DOMAIN tokens'
             /\ \A i \in DOMAIN tokens : tokens'[i] = tokens[i]
  <2>1. time \in Nat
    BY Numbers DEF SessionInv
  <2> QED BY <1>1, <1>3, <2>1, Pair, Zenon
<1> QED BY <1>2, <1>3, Returned

\* A token that is new was signed in the past, for the lifetime of its kind.
LEMMA NewTokens ==
    ASSUME SessionInv, [Next]_vars, NEW t \in DOMAIN tokens', t \notin DOMAIN tokens
    PROVE  \E time \in Nat : time <= now /\ tokens'[t].exp = time + Lifetime(tokens'[t].kind)
<1>1. tokens \in Seq(Token)
  BY DEF SessionInv, TypeOK
<1>2. ASSUME NEW time \in 0..now, tokens' = tokens \o issueTokens(time)
      PROVE  time \in Nat /\ time <= now /\ tokens'[t].exp = time + Lifetime(tokens'[t].kind)
  <2>1. time \in Nat /\ time <= now
    BY Numbers DEF SessionInv
  <2>2. tokens'[t].exp = time + Lifetime(tokens'[t].kind)
    BY <1>1, <1>2, <2>1, OfPair, Zenon
  <2> QED BY <2>1, <2>2
<1> QED BY <1>2, Returned

\* The clock does not run back, and only Tick moves it.
LEMMA Clock ==
    ASSUME SessionInv, [Next]_vars
    PROVE  now' \in 0..MaxTime /\ now' >= now /\ now' \in Nat
<1>1. now' = now \/ (now < MaxTime /\ now' = now + 1)
  BY Zenon DEF Next, vars, Login, RequireAuth, Parse, IsRevoked, Logout, Rotate, Issue, GetByID, ChangeUser, Tick
<1> QED BY <1>1, Numbers DEF SessionInv

\* Neither the lazy cleanup nor a revocation makes the blacklist forget a token
\* that is still valid, or remember one for another time than its own.
LEMMA BlacklistStep ==
    ASSUME SessionInv, [Next]_vars
    PROVE  /\ \A t \in DOMAIN blacklist' : t \in DOMAIN tokens /\ blacklist'[t] = tokens[t].exp
           /\ \A t \in DOMAIN blacklist \ DOMAIN blacklist' : ~Unexpired(t)
<1>0. /\ \A t \in DOMAIN blacklist : t \in DOMAIN tokens /\ blacklist[t] = tokens[t].exp
      /\ \A t \in DOMAIN tokens : tokens[t].exp \in Nat
      /\ now \in Nat
  BY Numbers, TokenTypes DEF SessionInv, TypeOK, Exact
<1>1. CASE blacklist' = blacklist
  BY <1>0, <1>1
<1>2. ASSUME NEW u \in DOMAIN tokens, blacklist' = Entered(u)
      PROVE  /\ \A t \in DOMAIN blacklist' : t \in DOMAIN tokens /\ blacklist'[t] = tokens[t].exp
             /\ \A t \in DOMAIN blacklist \ DOMAIN blacklist' : ~Unexpired(t)
  BY <1>0, <1>2 DEF Entered
<1>3. ASSUME NEW u, NEW S \in {{}, {u}}, S = {u} => ~Listed(u),
             blacklist' = [v \in DOMAIN blacklist \ S |-> blacklist[v]]
      PROVE  /\ \A t \in DOMAIN blacklist' : t \in DOMAIN tokens /\ blacklist'[t] = tokens[t].exp
             /\ \A t \in DOMAIN blacklist \ DOMAIN blacklist' : ~Unexpired(t)
  <2>1. \A t \in DOMAIN blacklist' : t \in DOMAIN tokens /\ blacklist'[t] = tokens[t].exp
    BY <1>0, <1>3
  <2>2. \A t \in DOMAIN blacklist \ DOMAIN blacklist' : t = u /\ ~Listed(u)
    BY <1>3
  <2>3. u \in DOMAIN blacklist /\ ~Listed(u) => ~Unexpired(u)
    BY <1>0 DEF Listed, Unexpired
  <2> QED BY <2>1, <2>2, <2>3
<1>4. ASSUME NEW r \in Requests, IsRevoked(r) PROVE \E S \in {{}, {tok[r]}} :
          /\ S = {tok[r]} => ~Listed(tok[r])
          /\ blacklist' = [v \in DOMAIN blacklist \ S |-> blacklist[v]]
  <2>1. PICK S : S = IF Listed(tok[r]) THEN {} ELSE {tok[r]}
    BY Zenon
  <2>2. S \in {{}, {tok[r]}} /\ (S = {tok[r]} => ~Listed(tok[r]))
    BY <2>1
  <2> QED BY <1>4, <2>1, <2>2 DEF IsRevoked
<1>5. ASSUME NEW r \in Requests, Logout(r) \/ Rotate(r)
      PROVE  tok[r] \in DOMAIN tokens /\ (blacklist' = blacklist \/ blacklist' = Entered(tok[r]))
  BY <1>5 DEF SessionInv, Presented, Logout, Rotate, Revoke
<1>6. ASSUME NEW r \in Requests, Login(r) \/ Parse(r) \/ Issue(r) \/ GetByID(r) PROVE blacklist' = blacklist
  BY <1>6, Zenon DEF Login, Parse, Issue, GetByID
<1>7. CASE (\E a \in Writers : ChangeUser(a)) \/ Tick \/ UNCHANGED vars
  BY <1>1, <1>7 DEF ChangeUser, Tick, vars, sessionVars
<1> QED BY <1>1, <1>2, <1>3, <1>4, <1>5, <1>6, <1>7, Zenon DEF Next, RequireAuth

\* A token that is blocked stays so.
LEMMA BlockedKept ==
    ASSUME SessionInv, [Next]_vars, NEW t \in DOMAIN tokens
    PROVE  /\ ~Unexpired(t) => (~Unexpired(t))'
           /\ Blocked(t) => Blocked(t)'
<1>1. tokens[t].exp \in Nat /\ tokens'[t] = tokens[t]
  BY TokensKept, TokenTypes DEF SessionInv
<1>2. now \in Nat /\ now' \in Nat /\ now' >= now
  BY Numbers, Clock DEF SessionInv
<1>3. ~Unexpired(t) => (~Unexpired(t))'
  BY <1>1, <1>2 DEF Unexpired
<1>4. t \in DOMAIN blacklist => t \in DOMAIN blacklist' \/ ~Unexpired(t)
  BY BlacklistStep
<1>5. t \in DOMAIN blacklist' => blacklist'[t] = tokens'[t].exp
  BY <1>1, BlacklistStep
<1> QED BY <1>3, <1>4, <1>5 DEF Blocked

\* What Revoke leaves behind, unless a call of Redis fails.
LEMMA Revoked ==
    ASSUME SessionInv, NEW t \in DOMAIN tokens, Revoke(t), ~failed', UNCHANGED <<tokens, now>>
    PROVE  Blocked(t)'
<1>1. CASE blacklist' = Entered(t)
  BY <1>1 DEF Entered, Blocked
<1>2. CASE ~Unexpired(t)
  BY <1>2 DEF Blocked, Unexpired
<1> QED BY <1>1, <1>2 DEF Revoke, Fails

-----------------------------------------------------------------------------
(* Every step keeps the invariant.                                          *)

\* The types of what the requests keep for themselves.
Flow ==
    /\ pc \in [Requests -> {"new", "check", "revoke", "issue", "user", "ok", "denied"}]
    /\ op \in [Requests -> {"none", "login", "me", "logout", "refresh"}]
    /\ signed \in [Requests -> 0..MaxTime]
    /\ failed \in BOOLEAN
    /\ settled \in 0..MaxTime

\* Whatever a handler does, its local state keeps its type.
LEMMA FlowNext == TypeOK /\ [Next]_vars => Flow'
<1> SUFFICES ASSUME TypeOK, [Next]_vars PROVE Flow'
  OBVIOUS
<1> USE DEF Goto, Settle, Fails
<1>0. Flow /\ now \in 0..MaxTime
  BY DEF TypeOK, Flow
<1>1. ASSUME NEW r \in Requests, Login(r) PROVE Flow'
  BY <1>0, <1>1, Zenon DEF Login, Flow
<1>2. ASSUME NEW r \in Requests, Parse(r) PROVE Flow'
  BY <1>0, <1>2, Zenon DEF Parse, Flow
<1>3. ASSUME NEW r \in Requests, IsRevoked(r) PROVE Flow'
  BY <1>0, <1>3, Zenon DEF IsRevoked, Flow
<1>4. ASSUME NEW r \in Requests, Logout(r) PROVE Flow'
  BY <1>0, <1>4, Zenon DEF Logout, Revoke, Flow
<1>5. ASSUME NEW r \in Requests, Rotate(r) PROVE Flow'
  BY <1>0, <1>5, Zenon DEF Rotate, Revoke, Flow
<1>6. ASSUME NEW r \in Requests, Issue(r) PROVE Flow'
  BY <1>0, <1>6, Zenon DEF Issue, Flow
<1>7. ASSUME NEW r \in Requests, GetByID(r) PROVE Flow'
  BY <1>0, <1>7, Zenon DEF GetByID, Answer, Flow
<1>8. ASSUME NEW a \in Writers, ChangeUser(a) PROVE Flow'
  BY <1>0, <1>8, Zenon DEF ChangeUser, UpdateUser, DeleteUser, Flow
<1>9. CASE Tick \/ UNCHANGED vars
  BY <1>0, <1>9, Zenon DEF Tick, vars, sessionVars, Flow
<1> QED BY <1>1, <1>2, <1>3, <1>4, <1>5, <1>6, <1>7, <1>8, <1>9, Zenon DEF Next, RequireAuth

\* A token whose logout or refresh was answered is one that was presented.
LEMMA GivenUpTokens == ASSUME SessionInv PROVE GivenUp \subseteq DOMAIN tokens
BY DEF SessionInv, Presented, GivenUp

\* Every step keeps the types.
LEMMA TypeNext == SessionInv /\ [Next]_vars => TypeOK'
<1> SUFFICES ASSUME SessionInv, [Next]_vars PROVE TypeOK'
  OBVIOUS
<1>0. /\ tok \in [Requests -> {0} \cup DOMAIN tokens]
      /\ prior \in [Requests -> SUBSET DOMAIN tokens]
      /\ redis \in BOOLEAN
  BY DEF SessionInv, TypeOK
<1>1. tokens' \in Seq(Token) /\ DOMAIN tokens \subseteq DOMAIN tokens'
  BY TokensKept
<1>2. DOMAIN blacklist' \subseteq DOMAIN tokens' /\ \A t \in DOMAIN blacklist' : blacklist'[t] \in Nat
  BY <1>1, BlacklistStep, TokenTypes DEF SessionInv
<1>3. CacheTypeOK'
  BY StoreStep, StoreTypes DEF SessionInv, TypeOK
<1>4. now' \in 0..MaxTime
  BY Clock
<1>5. redis' \in BOOLEAN
  BY <1>0 DEF Next, vars, sessionVars
<1>6. Flow'
  BY FlowNext DEF SessionInv
<1>7. tok' \in [Requests -> {0} \cup DOMAIN tokens] /\ prior' \in [Requests -> SUBSET DOMAIN tokens]
  <2>1. ASSUME NEW r \in Requests, Parse(r)
        PROVE  tok' \in [Requests -> {0} \cup DOMAIN tokens] /\ prior' \in [Requests -> SUBSET DOMAIN tokens]
    BY <1>0, <2>1, GivenUpTokens DEF Parse
  <2>2. CASE UNCHANGED <<tok, prior>>
    BY <1>0, <2>2
  <2>3. (\E r \in Requests : Parse(r)) \/ UNCHANGED <<tok, prior>>
    BY Zenon DEF Next, vars, sessionVars, RequireAuth, Login, IsRevoked, Logout, Rotate, Issue, GetByID, ChangeUser, Tick
  <2> QED BY <2>1, <2>2, <2>3
<1>8. tok' \in [Requests -> {0} \cup DOMAIN tokens'] /\ prior' \in [Requests -> SUBSET DOMAIN tokens']
  BY <1>1, <1>7
<1> QED BY <1>1, <1>2, <1>3, <1>4, <1>5, <1>6, <1>8 DEF TypeOK, Flow

\* A request is where it was, with the token it had.
Same(s) == pc'[s] = pc[s] /\ op'[s] = op[s] /\ tok'[s] = tok[s] /\ prior'[s] = prior[s]

\* A step of one request leaves the others alone.
LEMMA OthersWait ==
    ASSUME TypeOK, [Next]_vars
    PROVE  \/ \A s \in Requests : Same(s)
           \/ \E r \in Requests : /\ Login(r) \/ Parse(r) \/ IsRevoked(r) \/ Logout(r) \/ Rotate(r) \/ Issue(r) \/ GetByID(r)
                                  /\ \A s \in Requests \ {r} : Same(s)
<1> USE DEF Same, Goto
<1>0. /\ pc \in [Requests -> {"new", "check", "revoke", "issue", "user", "ok", "denied"}]
      /\ op \in [Requests -> {"none", "login", "me", "logout", "refresh"}]
      /\ tok \in [Requests -> {0} \cup DOMAIN tokens]
      /\ prior \in [Requests -> SUBSET DOMAIN tokens]
  BY DEF TypeOK
<1>1. ASSUME NEW r \in Requests, Login(r) \/ Parse(r) PROVE \A s \in Requests \ {r} : Same(s)
  BY <1>0, <1>1 DEF Login, Parse
<1>2. ASSUME NEW r \in Requests, IsRevoked(r) \/ Logout(r) \/ Rotate(r) PROVE \A s \in Requests \ {r} : Same(s)
  BY <1>0, <1>2 DEF IsRevoked, Logout, Rotate
<1>3. ASSUME NEW r \in Requests, Issue(r) \/ GetByID(r) PROVE \A s \in Requests \ {r} : Same(s)
  BY <1>0, <1>3 DEF Issue, GetByID, Answer
<1>4. CASE (\E a \in Writers : ChangeUser(a)) \/ Tick \/ UNCHANGED vars
  BY <1>4 DEF ChangeUser, Tick, vars, sessionVars
<1> QED BY <1>1, <1>2, <1>3, <1>4, Zenon DEF Next, RequireAuth

\* Requests present returned tokens, and only Me and Refresh look up the user.
LEMMA PresentedNext == SessionInv /\ [Next]_vars => Presented'
<1> SUFFICES ASSUME SessionInv, [Next]_vars, NEW s \in Requests
             PROVE  /\ op'[s] \in {"me", "logout", "refresh"} => tok'[s] \in DOMAIN tokens
                    /\ pc'[s] = "user" => op'[s] \in {"me", "refresh"}
                    /\ pc'[s] = "new" => prior'[s] = {}
  BY TokensKept DEF Presented
<1> USE DEF Goto
<1>0. TypeOK /\ Presented
  BY DEF SessionInv
<1>1. CASE Same(s)
  BY <1>0, <1>1 DEF Presented, Same
<1>2. CASE Login(s) \/ Parse(s)
  BY <1>0, <1>2 DEF TypeOK, Login, Parse
<1>3. CASE IsRevoked(s)
  BY <1>0, <1>3 DEF TypeOK, Presented, IsRevoked
<1>4. CASE Logout(s) \/ Rotate(s)
  BY <1>0, <1>4 DEF TypeOK, Presented, Logout, Rotate
<1>5. CASE Issue(s)
  BY <1>0, <1>5 DEF TypeOK, Presented, Issue
<1>6. CASE GetByID(s)
  BY <1>0, <1>6 DEF TypeOK, Presented, GetByID, Answer
<1> QED BY <1>0, <1>1, <1>2, <1>3, <1>4, <1>5, <1>6, OthersWait

\* While no call of Redis has failed, what is revoked stays blocked.
LEMMA KeptNext == SessionInv /\ [Next]_vars /\ ~failed' => Kept'
<1> SUFFICES ASSUME SessionInv, [Next]_vars, ~failed' PROVE Kept'
  OBVIOUS
<1> USE DEF Goto
<1>0. TypeOK /\ Presented
  BY DEF SessionInv
<1>f. failed' = failed
  BY Zenon DEF Next, vars, sessionVars, RequireAuth, Login, Parse, IsRevoked, Logout, Rotate, Revoke, Fails, Issue, GetByID, ChangeUser, Tick
<1>k. Kept
  BY <1>f DEF SessionInv
<1>1. \A r \in Requests : prior[r] \subseteq DOMAIN tokens
  BY <1>0 DEF TypeOK
<1>b. \A t \in DOMAIN tokens : (~Unexpired(t) => (~Unexpired(t))') /\ (Blocked(t) => Blocked(t)')
  BY BlockedKept
<1>2. ASSUME NEW s \in Requests, s \in Revokers' PROVE Blocked(tok[s])'
  <2>t. PICK t : t = tok[s]
    OBVIOUS
  <2>0. op'[s] \in {"logout", "refresh"} /\ pc'[s] \in {"ok", "issue", "user"}
        /\ (op'[s] = "logout" => pc'[s] = "ok")
    BY <1>2 DEF Revokers
  <2>1. CASE s \in Revokers /\ tok'[s] = t
    <3>1. t \in DOMAIN tokens /\ Blocked(t)
      BY <1>0, <1>k, <2>1, <2>t DEF Presented, Revokers, Kept
    <3>2. Blocked(t)'
      BY <1>b, <3>1
    <3> QED BY <2>1, <3>2 DEF Blocked, Unexpired
  <2>2. CASE Same(s)
    BY <2>0, <2>1, <2>2, <2>t DEF Same, Revokers
  <2>3. CASE Login(s) \/ Parse(s) \/ IsRevoked(s)
    BY <1>0, <2>0, <2>3 DEF TypeOK, Login, Parse, IsRevoked
  <2>4. CASE Logout(s) \/ Rotate(s)
    <3>1. t \in DOMAIN tokens /\ Revoke(t) /\ UNCHANGED <<tokens, now, tok>>
      BY <1>0, <2>0, <2>4, <2>t DEF TypeOK, Presented, Logout, Rotate
    <3>2. Blocked(t)'
      BY <3>1, Revoked
    <3> QED BY <2>t, <3>1, <3>2 DEF Blocked, Unexpired
  <2>5. CASE Issue(s) \/ GetByID(s)
    <3>1. pc[s] \in {"issue", "user"} /\ op[s] = "refresh" /\ tok'[s] = t
      BY <1>0, <2>0, <2>5, <2>t, Zenon DEF Presented, Issue, GetByID
    <3> QED BY <2>1, <3>1 DEF Revokers
  <2> QED BY <1>0, <2>2, <2>3, <2>4, <2>5, OthersWait
<1>3. ASSUME NEW s \in Requests, NEW t \in prior'[s] PROVE t \in DOMAIN tokens /\ Blocked(t)'
  <2>1. CASE t \in prior[s]
    BY <1>1, <1>b, <1>k, <2>1 DEF Kept
  <2>2. CASE t \in GivenUp
    <3>1. t \in DOMAIN tokens /\ Blocked(t)
      BY <1>k, <2>2, GivenUpTokens DEF Kept, GivenUp, Revokers
    <3> QED BY <1>b, <3>1
  <2>3. CASE Parse(s)
    BY <1>0, <1>3, <2>2, <2>3 DEF TypeOK, Parse
  <2>4. CASE Same(s) \/ prior' = prior
    BY <1>3, <2>1, <2>4 DEF Same
  <2>5. ASSUME NEW r \in Requests, Login(r) \/ IsRevoked(r) \/ Logout(r) \/ Rotate(r) \/ Issue(r) \/ GetByID(r)
        PROVE  prior' = prior
    BY <2>5, Zenon DEF Login, IsRevoked, Logout, Rotate, Issue, GetByID
  <2> QED BY <1>0, <2>3, <2>4, <2>5, OthersWait
<1>4. ASSUME NEW s \in Requests, pc'[s] \notin {"new", "check", "denied"}, tok'[s] \in prior'[s]
      PROVE  ~Unexpired(tok[s])'
  <2>t. PICK t : t = tok[s]
    OBVIOUS
  <2>1. CASE t \in prior[s] /\ tok'[s] = t /\ ~Unexpired(t)
    <3>1. (~Unexpired(t))'
      BY <1>1, <1>b, <2>1
    <3> QED BY <2>1, <3>1 DEF Unexpired
  <2>2. CASE Same(s)
    BY <1>4, <1>k, <2>1, <2>2, <2>t DEF Same, Kept
  <2>3. CASE Login(s) \/ Parse(s)
    BY <1>0, <1>4, <2>3 DEF TypeOK, Presented, Login, Parse
  <2>4. CASE IsRevoked(s)
    <3>1. tok'[s] = t /\ prior' = prior /\ ~Listed(t)
      BY <1>0, <1>4, <1>f, <2>4, <2>t DEF TypeOK, IsRevoked, Fails
    <3>2. t \in DOMAIN tokens /\ Blocked(t) /\ t \in prior[s]
      BY <1>1, <1>4, <1>k, <3>1 DEF Kept
    <3>3. ~Unexpired(t)
      BY <3>1, <3>2, Numbers, TokenTypes DEF SessionInv, Blocked, Listed, Unexpired
    <3> QED BY <2>1, <3>1, <3>2, <3>3
  <2>5. CASE Logout(s) \/ Rotate(s) \/ Issue(s) \/ GetByID(s)
    <3>1. tok'[s] = t /\ prior' = prior /\ pc[s] \in {"revoke", "issue", "user"}
      BY <2>5, <2>t, Zenon DEF Logout, Rotate, Issue, GetByID
    <3> QED BY <1>4, <1>k, <2>1, <2>t, <3>1 DEF Kept
  <2> QED BY <1>0, <2>2, <2>3, <2>4, <2>5, OthersWait
<1> QED BY <1>2, <1>3, <1>4 DEF Kept, Revokers

\* An entry of the cache has at least a tick left, and CacheTTL at most.
LEMMA EntryLeft ==
    ASSUME TypeOK, entry # None
    PROVE  entry \in Entry /\ entry.left \in Nat /\ 1 <= entry.left /\ entry.left <= CacheTTL
<1>1. entry \in Entry
  BY DEF TypeOK, CacheTypeOK
<1> QED BY <1>1, Numbers DEF Entry

\* Only a read in flight moves the time from which a deleted user's session
\* runs out, and it moves it to the present.
LEMMA SettledNext ==
    ASSUME SessionInv, [Next]_vars
    PROVE  /\ settled' \in {settled, now} /\ settled <= settled' /\ settled' \in Nat
           /\ row' = None /\ row # None => settled' = now
<1>1. settled' \in {settled, now}
  BY Zenon DEF Next, vars, sessionVars, RequireAuth, Login, Parse, IsRevoked, Logout, Rotate, Issue, GetByID,
         ChangeUser, UpdateUser, DeleteUser, Tick, Settle
<1>2. row' = None /\ row # None => settled' = now
  <2>1. ASSUME NEW r \in Requests, Login(r) \/ RequireAuth(r) \/ Logout(r) \/ Rotate(r) \/ Issue(r) PROVE row' = row
    BY <2>1 DEF Login, RequireAuth, Parse, IsRevoked, Logout, Rotate, Issue, cacheVars
  <2>2. ASSUME NEW r \in Requests, GetByID(r) PROVE row' = row
    BY <2>2, Zenon DEF GetByID, cacheVars, Get, Load, Fill
  <2>3. ASSUME NEW a \in Writers, ChangeUser(a) PROVE row' = row \/ row' # None \/ settled' = now
    BY <2>3 DEF ChangeUser, UpdateUser, DeleteUser, invalidate, Settle
  <2>4. CASE Tick \/ UNCHANGED vars
    BY <2>4 DEF Tick, vars, cacheVars
  <2> QED BY <2>1, <2>2, <2>3, <2>4 DEF Next
<1> QED BY <1>1, <1>2, Numbers DEF SessionInv, Dated

\* A cache entry of a deleted user does not outlast the time given to it.
LEMMA EntryNext ==
    ASSUME SessionInv, [Next]_vars, row' = None, entry' # None
    PROVE  now' + entry'.left <= settled' + CacheTTL
<1>0. /\ settled' \in {settled, now} /\ settled <= settled' /\ settled' \in Nat
      /\ row # None => settled' = now
  BY SettledNext
<1>1. TypeOK /\ now \in Nat /\ settled \in Nat /\ settled <= now /\ CacheTTL \in Nat \ {0}
  BY Numbers DEF SessionInv, Dated
<1>2. row = None /\ entry # None => now + entry.left <= settled + CacheTTL
  BY DEF SessionInv, Dated
<1>3. entry # None => entry \in Entry /\ entry.left \in Nat /\ 1 <= entry.left /\ entry.left <= CacheTTL
  BY <1>1, EntryLeft
<1>4. CASE entry # None /\ now' = now /\ entry'.left = entry.left
  <2>1. CASE row = None
    BY <1>0, <1>1, <1>2, <1>3, <1>4, <2>1
  <2>2. CASE row # None
    BY <1>0, <1>1, <1>3, <1>4, <2>2
  <2> QED BY <2>1, <2>2
<1>5. ASSUME NEW r \in Requests, Login(r) \/ RequireAuth(r) \/ Logout(r) \/ Rotate(r) \/ Issue(r) PROVE entry' = entry /\ now' = now
  BY <1>5 DEF Login, RequireAuth, Parse, IsRevoked, Logout, Rotate, Issue, cacheVars
<1>6. ASSUME NEW r \in Requests, GetByID(r) PROVE now' + entry'.left <= settled' + CacheTTL
  <2>1. now' = now
    BY <1>6, Zenon DEF GetByID
  <2>2. CASE entry' = entry
    BY <1>4, <2>1, <2>2
  <2>3. CASE Fill(r) /\ Settle(row = None) /\ entry' # entry
    <3>1. PICK b : b = (loaded[r] # row)
      OBVIOUS
    <3>2. entry' = [value |-> loaded[r], left |-> CacheTTL, suspect |-> b]
      BY <2>3, <3>1 DEF Fill
    <3>3. entry'.left = CacheTTL
      BY <3>2
    <3>4. settled' = now
      BY <2>3, Zenon DEF Fill, Settle
    <3> QED BY <1>1, <2>1, <3>3, <3>4
  <2> QED BY <1>6, <2>2, <2>3, Zenon DEF GetByID, cacheVars, Get, Load
<1>7. ASSUME NEW a \in Writers, ChangeUser(a) PROVE now' + entry'.left <= settled' + CacheTTL
  <2>1. now' = now
    BY <1>7 DEF ChangeUser
  <2>2. entry # None /\ entry'.left = entry.left
    BY <1>3, <1>7, Zenon DEF ChangeUser, UpdateUser, DeleteUser, Write, invalidate, Entry
  <2> QED BY <1>4, <2>1, <2>2
<1>8. CASE Tick
  <2>1. entry # None /\ entry'.left = entry.left - 1 /\ now' = now + 1 /\ settled' = settled /\ row = None
    BY <1>3, <1>8, Older DEF Tick
  <2> QED BY <1>1, <1>2, <1>3, <2>1
<1>9. CASE UNCHANGED vars
  BY <1>4, <1>9 DEF vars, cacheVars
<1> QED BY <1>4, <1>5, <1>6, <1>7, <1>8, <1>9 DEF Next

\* A pair returned after the deletion was signed while an entry of the cache,
\* or a read from before the deletion, was still good.
LEMMA LateTokens ==
    ASSUME SessionInv, [Next]_vars, row' = None, tokens' # tokens
    PROVE  now < settled' + CacheTTL
<1>1. TypeOK /\ now \in Nat /\ settled \in Nat /\ CacheTTL \in Nat \ {0}
  BY Numbers DEF SessionInv
<1>2. ASSUME NEW r \in Requests, Issue(r) PROVE settled' = now
  BY <1>2 DEF Issue, Settle, cacheVars
<1>3. ASSUME NEW r \in Requests, GetByID(r) PROVE now < settled' + CacheTTL
  <2>1. CASE entry # None /\ UNCHANGED <<cacheVars, settled>>
    <3>1. now + entry.left <= settled + CacheTTL /\ entry.left \in Nat /\ 1 <= entry.left
      BY <1>1, <2>1, EntryLeft DEF SessionInv, Dated, cacheVars
    <3> QED BY <1>1, <2>1, <3>1
  <2>2. CASE Fill(r) /\ Settle(row = None)
    <3>1. settled' = now
      BY <2>2, Zenon DEF Fill, Settle
    <3> QED BY <1>1, <3>1
  <2> QED BY <1>3, <2>1, <2>2 DEF GetByID, Answer
<1>4. \/ \E r \in Requests : Issue(r) \/ GetByID(r)
      \/ tokens' = tokens
  BY Zenon DEF Next, vars, sessionVars, RequireAuth, Login, Parse, IsRevoked, Logout, Rotate, ChangeUser, Tick
<1> QED BY <1>1, <1>2, <1>3, <1>4

\* What is signed sooner expires sooner.
LEMMA Sooner ==
    ASSUME NEW m \in Nat, NEW n \in Nat, NEW bound \in Nat, NEW later \in Nat, NEW life \in Nat,
           m <= n, n <= later
    PROVE  m + life <= later + life /\ (n < bound => m + life < bound + life)
OBVIOUS

\* Every step keeps the dates in order, and the end of a deleted user's session.
LEMMA DatedNext == SessionInv /\ [Next]_vars => Dated' /\ DeletedUserRunsOut'
<1> SUFFICES ASSUME SessionInv, [Next]_vars PROVE Dated' /\ DeletedUserRunsOut'
  OBVIOUS
<1>t. TypeOK /\ \A k : Lifetime(k) \in Nat
  BY Numbers DEF SessionInv
<1>0. /\ now \in Nat /\ now' \in Nat /\ now <= now' /\ settled \in Nat /\ settled <= now
      /\ CacheTTL \in Nat /\ CacheTTL > 0
  BY Numbers, Clock DEF SessionInv, Dated
<1>1. /\ settled' \in {settled, now} /\ settled <= settled' /\ settled' \in Nat
      /\ row' = None /\ row # None => settled' = now
  BY SettledNext
<1>2. settled' + CacheTTL \in Nat
  <2>1. settled' \in Nat /\ CacheTTL \in Nat
    BY <1>0, <1>1
  <2>2. \A m, n \in Nat : m + n \in Nat
    OBVIOUS
  <2> QED BY <2>1, <2>2, Zenon
<1>3. ASSUME NEW r \in Requests PROVE signed'[r] <= now'
  <2>1. signed[r] \in Nat /\ signed[r] <= now
    BY <1>t, Numbers DEF SessionInv, Dated
  <2>2. signed'[r] = signed[r] \/ signed'[r] = now
    BY <1>t, Zenon DEF TypeOK, Next, vars, sessionVars, RequireAuth, Login, Parse, IsRevoked, Logout, Rotate, Issue,
                GetByID, ChangeUser, Tick
  <2> QED BY <1>0, <2>1, <2>2
<1>4. ASSUME NEW t \in DOMAIN tokens', NEW L, L = Lifetime(tokens'[t].kind)
      PROVE  /\ tokens'[t].exp <= now' + L
             /\ row' = None => tokens'[t].exp < settled' + CacheTTL + L
  <2>1. L \in Nat
    BY <1>t, <1>4
  <2>2. CASE t \in DOMAIN tokens
    <3>1. tokens'[t] = tokens[t] /\ tokens[t].exp \in Nat /\ tokens[t].exp <= now + L
      BY <1>t, <1>4, <2>2, TokensKept, TokenTypes DEF SessionInv, Dated
    <3>2. row = None => tokens[t].exp < settled + CacheTTL + L
      BY <1>4, <2>2, <3>1 DEF SessionInv, DeletedUserRunsOut, Lifetime
    <3> QED BY <1>0, <1>1, <2>1, <3>1, <3>2
  <2>3. CASE t \notin DOMAIN tokens
    <3>1. PICK time \in Nat : time <= now /\ tokens'[t].exp = time + Lifetime(tokens'[t].kind)
      BY <2>3, NewTokens
    <3>2. time \in Nat /\ time <= now /\ tokens'[t].exp = time + L
      BY <1>4, <3>1
    <3>3. row' = None => now < settled' + CacheTTL
      BY <2>3, LateTokens
    <3>4. time + L <= now' + L /\ (now < settled' + CacheTTL => time + L < settled' + CacheTTL + L)
      BY <1>0, <1>2, <2>1, <3>2, Sooner, Zenon
    <3> QED BY <3>2, <3>3, <3>4
  <2> QED BY <2>2, <2>3
<1>5. settled' <= now'
  BY <1>0, <1>1
<1>6. DeletedUserRunsOut'
  BY <1>4 DEF DeletedUserRunsOut, Lifetime
<1> QED BY <1>3, <1>4, <1>5, <1>6, EntryNext DEF Dated

\* The user has just registered: nothing is revoked and nothing is old.
LEMMA InitInv == Init => SessionInv
<1> SUFFICES ASSUME Init PROVE SessionInv
  OBVIOUS
<1>1. /\ tokens \in Seq(Token) /\ DOMAIN tokens = 1..2
      /\ \A t \in DOMAIN tokens : tokens[t].exp = Lifetime(tokens[t].kind) /\ tokens[t].exp \in Nat
  <2>1. PICK a, b : a = [kind |-> "access", exp |-> AccessTTL] /\ b = [kind |-> "refresh", exp |-> RefreshTTL]
    BY Zenon
  <2>2. /\ a \in Token /\ a.exp = Lifetime(a.kind) /\ a.exp \in Nat
        /\ b \in Token /\ b.exp = Lifetime(b.kind) /\ b.exp \in Nat
    BY <2>1, AuthSessionAssumption DEF Token, Lifetime
  <2>3. tokens = <<a, b>>
    BY <2>1, AuthSessionAssumption DEF Init, issueTokens, Signed
  <2>4. tokens \in Seq(Token) /\ DOMAIN tokens = 1..2 /\ tokens[1] = a /\ tokens[2] = b
    BY <2>2, <2>3
  <2>5. \A t \in DOMAIN tokens : tokens[t] = a \/ tokens[t] = b
    BY <2>4
  <2> QED BY <2>2, <2>4, <2>5
<1>2. TypeOK
  <2>1. CacheTypeOK
    BY CachedUserStoreAssumption DEF Init, CacheInit, CacheTypeOK, Row
  <2>2. DOMAIN blacklist = {}
    BY DEF Init
  <2>3. /\ redis \in BOOLEAN /\ failed \in BOOLEAN
        /\ pc \in [Requests -> {"new", "check", "revoke", "issue", "user", "ok", "denied"}]
        /\ op \in [Requests -> {"none", "login", "me", "logout", "refresh"}]
    BY Zenon DEF Init
  <2>4. /\ tok \in [Requests -> {0} \cup DOMAIN tokens]
        /\ prior \in [Requests -> SUBSET DOMAIN tokens]
    BY DEF Init
  <2>5. signed \in [Requests -> 0..MaxTime] /\ now \in 0..MaxTime /\ settled \in 0..MaxTime
    BY AuthSessionAssumption DEF Init
  <2> QED BY <1>1, <2>1, <2>2, <2>3, <2>4, <2>5 DEF TypeOK
<1>3. Presented /\ Exact /\ Kept
  BY DEF Init, Presented, Exact, Kept, Revokers
<1>4. Dated
  BY <1>1, AuthSessionAssumption, CachedUserStoreAssumption DEF Init, CacheInit, Dated
<1>5. DeletedUserRunsOut
  <2>1. CacheTTL \in Nat \ {0} /\ settled = 0
    BY CachedUserStoreAssumption DEF Init
  <2> QED BY <1>1, <2>1 DEF DeletedUserRunsOut, Lifetime
<1> QED BY <1>2, <1>3, <1>4, <1>5 DEF SessionInv

\* The invariant holds in every reachable state.
THEOREM SessionInvariance == Spec => []SessionInv
<1>1. SessionInv /\ [Next]_vars => SessionInv'
  <2> SUFFICES ASSUME SessionInv, [Next]_vars PROVE SessionInv'
    OBVIOUS
  <2>1. Exact'
    BY BlacklistStep, TokensKept DEF Exact
  <2> QED BY <2>1, TypeNext, PresentedNext, KeptNext, DatedNext DEF SessionInv
<1> QED BY <1>1, InitInv, PTL DEF Spec

\* A token whose logout or refresh was answered before a request arrived does
\* not pass RequireAuth in it while it is valid, in memory and on Redis, unless
\* a call of Redis has failed.
THEOREM GivenUpRejected == Spec => []GivenUpTokensAreRejected
<1>1. SessionInv => GivenUpTokensAreRejected
  BY DEF SessionInv, Kept, GivenUpTokensAreRejected
<1> QED BY <1>1, SessionInvariance, PTL

\* However often a deleted user's session is refreshed, and whether or not the
\* invalidation worked, no token of it outlives one cache entry and one token,
\* counted from the deletion or the last use of a read in flight then.
THEOREM SessionEnds == Spec => []DeletedUserRunsOut
<1>1. SessionInv => DeletedUserRunsOut
  BY DEF SessionInv
<1> QED BY <1>1, SessionInvariance, PTL
=============================================================================
