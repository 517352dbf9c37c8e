---------------------------- MODULE PasswordReset ---------------------------
(***************************************************************************)
(* ForgotPassword and ResetPassword (handler/auth.go) over the reset-token *)
(* stores (handler/reset_tokens.go, in memory, and                         *)
(* handler/reset_tokens_redis.go), composed with the user store, which     *)
(* other requests go on writing to.  Consuming a token and writing the     *)
(* password are separate steps of concurrent requests.  The hash that a    *)
(* reset writes is identified with the request.                            *)
(***************************************************************************)
EXTENDS UserStore

CONSTANTS
    Resets,      \* reset requests, each served once
    Tokens,      \* the random tokens Issue may draw, all different
    TTL,         \* the reset token's lifetime in ticks
    MaxTime,     \* how far the clock runs (bound)
    Faults       \* what may fail: "set", "getdel" (Redis), "hash", "update"

ASSUME PasswordResetAssumption ==
    /\ Resets \subseteq Hashes
    /\ TTL \in Nat
    /\ MaxTime \in Nat
    /\ Faults \subseteq {"set", "getdel", "hash", "update"}

VARIABLES
    redis,      \* main built redisResetTokenStore (REDIS_URL is set)
    entries,    \* the token store: token -> user id and expiry
    given,      \* tokens returned to the client
    pc,         \* each reset request: new, update, ok, denied, failed
    tok,        \* the token it presented, once it has
    userID,     \* the user Consume returned; 0 is none
    now,
    owner       \* history: the user each token was issued for; 0 is none

vars == <<storeVars, redis, entries, given, pc, tok, userID, now, owner>>
resetVars == <<redis, entries, given, pc, tok, userID, now, owner>>

Init ==
    /\ StoreInit
    /\ redis \in BOOLEAN
    /\ entries = [t \in {} |-> 0]
    /\ given = {}
    /\ pc = [r \in Resets |-> "new"]
    /\ tok = [r \in Resets |-> {}]
    /\ userID = [r \in Resets |-> 0]
    /\ now = 0
    /\ owner = [t \in Tokens |-> 0]

\* Only calls of Redis fail among those of the token store.
Fails(call) == redis /\ call \in Faults

Stored == DOMAIN entries

\* Mutant: Consume does not delete.
Keep_All(S) == UNCHANGED entries

Keep(S) == entries' = [t \in S |-> entries[t]]

Deadline == now + TTL

\* On a Redis error the answer carries an empty token, and the stored one, if
\* any, is never presented.
Issue(t, id) ==
    \/ /\ entries' = [u \in Stored \cup {t} |->
                         IF u = t THEN [user |-> id, exp |-> Deadline] ELSE entries[u]]
       /\ given' = given \cup {t}
       /\ owner' = [owner EXCEPT ![t] = id]
    \/ Fails("set") /\ UNCHANGED <<entries, given, owner>>

\* GetByEmail finds the first user with the e-mail; without one nothing
\* changes.
ForgotPassword(t, email) ==
    /\ t \notin Stored \cup given
    /\ \E i \in First(WithEmail(email)) : Issue(t, users[i].id)
    /\ UNCHANGED <<storeVars, redis, pc, tok, userID, now>>

\* Redis drops a key as soon as its time is up.
Redeemable(t) ==
    t \in Stored /\ IF redis THEN now < entries[t].exp ELSE now <= entries[t].exp

\* Consume deletes the token first and then looks at its expiry.  A lost GETDEL
\* reply leaves the token gone or not.
Consume(r) ==
    /\ pc[r] = "new"
    /\ \E t \in given :
        /\ tok' = [tok EXCEPT ![r] = {t}]
        /\ \/ /\ Redeemable(t)
              /\ pc' = [pc EXCEPT ![r] = "update"]
              /\ userID' = [userID EXCEPT ![r] = entries[t].user]
              /\ Keep(Stored \ {t})
           \/ /\ ~Redeemable(t)
              /\ pc' = [pc EXCEPT ![r] = "denied"]
              /\ Keep(Stored \ {t})
              /\ UNCHANGED userID
           \/ /\ Fails("getdel")
              /\ Keep(Stored) \/ Keep(Stored \ {t})
              /\ pc' = [pc EXCEPT ![r] = "denied"]
              /\ UNCHANGED userID
    /\ UNCHANGED <<storeVars, redis, given, now, owner>>

\* HashPassword (which refuses long passwords) and store.UpdatePassword: either
\* may fail after the token is spent, the latter also because the user is gone.
ResetPassword(r) ==
    /\ pc[r] = "update"
    /\ \/ /\ UpdatePassword(userID[r], r)
          /\ pc' = [pc EXCEPT ![r] = "ok"]
       \/ /\ userID[r] \notin Ids \/ Faults \cap {"hash", "update"} # {}
          /\ pc' = [pc EXCEPT ![r] = "failed"]
          /\ UNCHANGED storeVars
    /\ UNCHANGED <<redis, entries, given, tok, userID, now, owner>>

Tick ==
    /\ now < MaxTime
    /\ now' = now + 1
    /\ UNCHANGED <<storeVars, redis, entries, given, pc, tok, userID, owner>>

\* What the handlers of /users and /auth/register do to the store meanwhile.
WriteUsers ==
    /\ \/ \E email \in Emails, hash \in Hashes \ Resets : Create(email, hash)
       \/ \E id \in 1..MaxUsers, email \in Emails : Update(id, email)
       \/ \E id \in 1..MaxUsers : Delete(id)
    /\ UNCHANGED resetVars

Next ==
    \/ WriteUsers
    \/ \E t \in Tokens, email \in Emails : ForgotPassword(t, email)
    \/ \E r \in Resets : Consume(r) \/ ResetPassword(r)
    \/ Tick

Spec == Init /\ [][Next]_vars

-----------------------------------------------------------------------------
\* Every variable has the type the code gives it.
TypeOK ==
    /\ StoreTypeOK
    /\ redis \in BOOLEAN
    /\ Stored \subseteq Tokens
    /\ \A t \in Stored : entries[t] \in [user : 1..MaxUsers, exp : Nat]
    /\ given \subseteq Tokens
    /\ pc \in [Resets -> {"new", "update", "ok", "denied", "failed"}]
    /\ tok \in [Resets -> SUBSET Tokens]
    /\ userID \in [Resets -> 0..MaxUsers]
    /\ now \in Nat
    /\ owner \in [Tokens -> 0..MaxUsers]

\* "The reset token is single-use" (docs/REFERENCE.md): however reset requests
\* interleave and whichever calls fail, no two of them change a password with
\* the same token.
TokenChangesOnce ==
    \A r, s \in Resets : pc[r] = "ok" /\ pc[s] = "ok" /\ tok[r] = tok[s] => r = s

\* A reset changes the password of the user its token was issued for, however
\* users are created, moved and deleted between the three requests.
ResetsReachTheirUser ==
    \A i \in DOMAIN users : \A r \in Resets :
        users[i].hash = r => pc[r] = "ok" /\ \A t \in tok[r] : owner[t] = users[i].id
=============================================================================
