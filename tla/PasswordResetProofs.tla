------------------------ MODULE PasswordResetProofs -------------------------
(***************************************************************************)
(* Proofs about PasswordReset over UserStore, for any number of users,     *)
(* tokens and requests, any lifetime and any failing calls: a reset token  *)
(* changes one password, that of the user it was issued for, because ids   *)
(* are never reused and redeeming takes the token out of the store.        *)
(***************************************************************************)
EXTENDS PasswordReset, SequenceTheorems, TLAPS

\* The ids handed out so far are those below nextID.
HandedOut ==
    /\ nextID <= MaxUsers + 1
    /\ \A i \in DOMAIN users : users[i].id \in 1..(nextID - 1)
    /\ \A d \in deleted : d < nextID

StoreInv == StoreTypeOK /\ HandedOut /\ IdsAreNeverReused

\* The requests whose token Consume accepted.
Redeemed == {r \in Resets : pc[r] \in {"update", "ok", "failed"}}

\* A token accepted by Consume has left the store for good, no two requests had
\* the same one, and store, request and history agree whose it is.
Tickets ==
    /\ \A t \in Stored : entries[t].user = owner[t]
    /\ \A r \in Redeemed : \E t \in given : /\ tok[r] = {t}
                                            /\ t \notin Stored
                                            /\ owner[t] = userID[r]
    /\ \A r, s \in Redeemed : tok[r] = tok[s] => r = s

IInv == TypeOK /\ StoreInv /\ Tickets /\ ResetsReachTheirUser
-----------------------------------------------------------------------------
(* The user store.                                                          *)

\* Deleting from the slice shifts what is behind and keeps the order.
LEMMA RemoveFacts ==
    ASSUME NEW S, NEW s \in Seq(S), NEW i \in 1..Len(s)
    PROVE  /\ RemoveAt(s, i) \in Seq(S)
           /\ Len(RemoveAt(s, i)) = Len(s) - 1
           /\ \A j \in 1..(Len(s) - 1) : RemoveAt(s, i)[j] = IF j < i THEN s[j] ELSE s[j + 1]
<1> DEFINE a == SubSeq(s, 1, i - 1)
           b == SubSeq(s, i + 1, Len(s))
<1>0. Len(s) \in Nat /\ i \in Nat /\ 1 <= i /\ i <= Len(s)
  OBVIOUS
<1>1. a \in Seq(S) /\ Len(a) = i - 1 /\ \A j \in 1..(i - 1) : a[j] = s[j]
  <2>1. \A j \in 1..(i - 1) : s[j] \in S
    BY <1>0
  <2> QED BY <1>0, <2>1, SubSeqProperties
<1>2. b \in Seq(S) /\ Len(b) = Len(s) - i /\ \A j \in 1..(Len(s) - i) : b[j] = s[i + j]
  <2>1. \A j \in (i + 1)..Len(s) : s[j] \in S
    BY <1>0
  <2> QED BY <1>0, <2>1, SubSeqProperties
<1>3. RemoveAt(s, i) = a \o b
  BY DEF RemoveAt
<1> HIDE DEF a, b
<1>4. /\ a \o b \in Seq(S) /\ Len(a \o b) = Len(a) + Len(b)
      /\ \A j \in 1..(Len(a) + Len(b)) : (a \o b)[j] = IF j <= Len(a) THEN a[j] ELSE b[j - Len(a)]
  BY <1>1, <1>2, ConcatProperties, Zenon
<1>5. ASSUME NEW j \in 1..(Len(s) - 1)
      PROVE  (a \o b)[j] = IF j < i THEN s[j] ELSE s[j + 1]
  <2>1. CASE j < i
    <3>1. j \in 1..(i - 1) /\ j \in 1..(Len(a) + Len(b)) /\ j <= Len(a)
      BY <1>0, <1>1, <1>2, <2>1
    <3> QED BY <1>1, <1>4, <2>1, <3>1
  <2>2. CASE ~(j < i)
    <3>1. /\ j - Len(a) \in 1..(Len(s) - i) /\ j \in 1..(Len(a) + Len(b)) /\ ~(j <= Len(a))
          /\ i + (j - Len(a)) = j + 1
      BY <1>0, <1>1, <1>2, <2>2
    <3> QED BY <1>2, <1>4, <2>2, <3>1, Zenon
  <2> QED BY <2>1, <2>2, Zenon
<1>6. Len(a \o b) = Len(s) - 1
  BY <1>0, <1>1, <1>2, <1>4
<1> QED BY <1>3, <1>4, <1>5, <1>6

\* Replacing one element of a sequence leaves a sequence.
LEMMA ReplaceInSeq ==
    ASSUME NEW S, NEW s \in Seq(S), NEW i \in DOMAIN s, NEW e \in S
    PROVE  [s EXCEPT ![i] = e] \in Seq(S)
OBVIOUS

\* What a write leaves alone: a user after it has the id and the hash of one
\* before it, unless the hash is not that of a reset.
Carries ==
    \A i \in DOMAIN users' :
        \/ users'[i].hash \notin Resets
        \/ \E j \in DOMAIN users : users[j].id = users'[i].id /\ users[j].hash = users'[i].hash

\* A new user is the last of the slice and has the next id.
LEMMA CreateInv ==
    ASSUME StoreInv, NEW email \in Emails, NEW hash \in Hashes \ Resets, Create(email, hash)
    PROVE  StoreInv' /\ Carries
<1> DEFINE u == [id |-> nextID, email |-> email, hash |-> hash]
<1>0. users \in Seq(User) /\ nextID \in Nat \ {0} /\ u \in User /\ MaxUsers \in Nat
  BY UserStoreAssumption DEF StoreInv, StoreTypeOK, User
<1>1. /\ users' = Append(users, u) /\ u.id = nextID /\ u.email = email /\ u.hash = hash
      /\ nextID' = nextID + 1 /\ nextID <= MaxUsers /\ UNCHANGED deleted
  BY DEF Create
<1> HIDE DEF u
<1>2. /\ users' \in Seq(User) /\ Len(users') = Len(users) + 1 /\ Len(users) \in Nat
      /\ DOMAIN users = 1..Len(users) /\ DOMAIN users' = 1..Len(users')
      /\ \A i \in 1..Len(users) : users'[i] = users[i]
      /\ users'[Len(users) + 1] = u
  BY <1>0, <1>1, AppendProperties
<1>3. StoreTypeOK'
  BY <1>0, <1>1, <1>2 DEF StoreInv, StoreTypeOK
<1>4. HandedOut'
  <2>1. \A i \in DOMAIN users' : users'[i].id \in 1..(nextID' - 1)
    BY <1>0, <1>1, <1>2 DEF StoreInv, HandedOut
  <2>2. ASSUME NEW d \in deleted' PROVE d < nextID'
    <3>1. d \in Nat /\ d < nextID
      BY <1>1 DEF StoreInv, HandedOut, StoreTypeOK
    <3> QED BY <1>0, <1>1, <3>1
  <2> QED BY <1>0, <1>1, <2>1, <2>2 DEF HandedOut
<1>5. IdsAreNeverReused'
  <2>1. \A i \in DOMAIN users : users[i].id < u.id
    BY <1>0, <1>1 DEF StoreInv, HandedOut
  <2>2. \A i, j \in DOMAIN users' : i < j => users'[i].id < users'[j].id
    BY <1>2, <2>1 DEF StoreInv, IdsAreNeverReused
  <2>3. ASSUME NEW i \in DOMAIN users' PROVE users'[i].id \notin deleted
    <3>1. CASE i = Len(users) + 1
      BY <1>0, <1>1, <1>2, <3>1 DEF StoreInv, HandedOut
    <3>2. CASE i \in DOMAIN users
      BY <1>2, <3>2 DEF StoreInv, IdsAreNeverReused, Ids
    <3> QED BY <1>2, <3>1, <3>2
  <2> QED BY <1>1, <2>2, <2>3 DEF IdsAreNeverReused, Ids
<1>6. Carries
  BY <1>1, <1>2 DEF Carries
<1> QED BY <1>3, <1>4, <1>5, <1>6 DEF StoreInv

\* An update keeps ids and hashes.
LEMMA UpdateInv ==
    ASSUME StoreInv, NEW id \in Nat, NEW email \in Emails, Update(id, email)
    PROVE  StoreInv' /\ Carries
<1>0. users \in Seq(User) /\ DOMAIN users = 1..Len(users) /\ Len(users) \in Nat
  BY DEF StoreInv, StoreTypeOK
<1>1. PICK i \in First(WithId(id) \cup WithEmail(email)) :
        users[i].id = id /\ users' = [users EXCEPT ![i].email = email]
  BY Zenon DEF Update
<1>2. /\ i \in DOMAIN users
      /\ nextID' = nextID /\ deleted' = deleted
  BY DEF First, WithId, WithEmail, Update
<1>3. users[i] \in User
  BY <1>0, <1>2
<1>4. /\ users' \in Seq(User) /\ DOMAIN users' = DOMAIN users
      /\ \A j \in DOMAIN users : users'[j].id = users[j].id /\ users'[j].hash = users[j].hash
  <2>1. [users[i] EXCEPT !.email = email] \in User
    BY <1>3 DEF User
  <2>2. users' = [users EXCEPT ![i] = [users[i] EXCEPT !.email = email]]
    BY <1>1
  <2>3. users' \in Seq(User)
    BY <1>0, <1>2, <2>1, <2>2, ReplaceInSeq
  <2> QED BY <1>0, <1>2, <1>3, <2>2, <2>3 DEF User
<1>5. StoreTypeOK'
  BY <1>2, <1>4 DEF StoreInv, StoreTypeOK
<1>6. HandedOut'
  BY <1>2, <1>4 DEF StoreInv, HandedOut
<1>7. IdsAreNeverReused'
  BY <1>2, <1>4 DEF StoreInv, IdsAreNeverReused, Ids
<1>8. Carries
  BY <1>4 DEF Carries
<1> QED BY <1>5, <1>6, <1>7, <1>8 DEF StoreInv

\* A new password keeps ids.  The user it is for is the only one
\* with the id.
LEMMA UpdatePasswordInv ==
    ASSUME StoreInv, NEW id, NEW hash \in Hashes, UpdatePassword(id, hash)
    PROVE  /\ StoreInv'
           /\ \A i \in DOMAIN users' :
                \/ users'[i].hash = hash /\ users'[i].id = id
                \/ \E j \in DOMAIN users : users[j].id = users'[i].id /\ users[j].hash = users'[i].hash
<1>0. users \in Seq(User) /\ DOMAIN users = 1..Len(users) /\ Len(users) \in Nat
  BY DEF StoreInv, StoreTypeOK
<1>1. PICK i \in First(WithId(id)) : users' = [users EXCEPT ![i].hash = hash]
  BY Zenon DEF UpdatePassword
<1>2. i \in DOMAIN users /\ users[i].id = id /\ UNCHANGED <<nextID, deleted>>
  BY DEF First, WithId, UpdatePassword
<1>3. users[i] \in User
  BY <1>0, <1>2
<1>4. /\ users' \in Seq(User) /\ DOMAIN users' = DOMAIN users
      /\ \A j \in DOMAIN users : users'[j].id = users[j].id
      /\ \A j \in DOMAIN users \ {i} : users'[j].hash = users[j].hash
      /\ users'[i].hash = hash
  <2>1. [users[i] EXCEPT !.hash = hash] \in User
    BY <1>3 DEF User
  <2>2. users' = [users EXCEPT ![i] = [users[i] EXCEPT !.hash = hash]]
    BY <1>1
  <2>3. users' \in Seq(User)
    BY <1>0, <1>2, <2>1, <2>2, ReplaceInSeq
  <2> QED BY <1>0, <1>2, <1>3, <2>2, <2>3 DEF User
<1>5. StoreTypeOK'
  BY <1>2, <1>4 DEF StoreInv, StoreTypeOK
<1>6. HandedOut'
  BY <1>2, <1>4 DEF StoreInv, HandedOut
<1>7. IdsAreNeverReused'
  BY <1>2, <1>4 DEF StoreInv, IdsAreNeverReused, Ids
<1> QED BY <1>2, <1>4, <1>5, <1>6, <1>7 DEF StoreInv

\* A deleted user's id is gone with it, since nobody else has it.
LEMMA DeleteInv ==
    ASSUME StoreInv, NEW id \in Nat, Delete(id)
    PROVE  StoreInv' /\ Carries
<1>0. users \in Seq(User) /\ DOMAIN users = 1..Len(users) /\ Len(users) \in Nat
  BY DEF StoreInv, StoreTypeOK
<1>1. PICK i \in First(WithId(id)) : users' = RemoveAt(users, i)
  BY DEF Delete
<1>2. /\ i \in 1..Len(users) /\ users[i].id = id
      /\ UNCHANGED nextID /\ deleted' = deleted \cup {id}
  BY <1>0 DEF First, WithId, Delete
<1>3. /\ users' \in Seq(User) /\ DOMAIN users' = 1..(Len(users) - 1)
      /\ \A j \in 1..(Len(users) - 1) : users'[j] = IF j < i THEN users[j] ELSE users[j + 1]
  <2>1. users' \in Seq(User) /\ Len(users') = Len(users) - 1
        /\ \A j \in 1..(Len(users) - 1) : users'[j] = IF j < i THEN users[j] ELSE users[j + 1]
    BY <1>0, <1>1, <1>2, RemoveFacts, Zenon
  <2> QED BY <2>1
<1> DEFINE old[j \in 1..(Len(users) - 1)] == IF j < i THEN j ELSE j + 1
<1>4. /\ \A j \in DOMAIN users' : old[j] \in DOMAIN users \ {i} /\ users'[j] = users[old[j]]
      /\ \A j, k \in DOMAIN users' : j < k => old[j] < old[k]
  BY <1>0, <1>2, <1>3
<1> HIDE DEF old
<1>5. StoreTypeOK'
  BY <1>2, <1>3 DEF StoreInv, StoreTypeOK
<1>6. HandedOut'
  <2>1. id < nextID
    BY <1>0, <1>2 DEF StoreInv, HandedOut, StoreTypeOK
  <2> QED BY <1>2, <1>4, <2>1 DEF StoreInv, HandedOut
<1>7. IdsAreNeverReused'
  <2>1. \A j, k \in DOMAIN users' : j < k => users'[j].id < users'[k].id
    BY <1>4 DEF StoreInv, IdsAreNeverReused
  <2>2. ASSUME NEW k \in DOMAIN users \ {i} PROVE users[k].id # id
    <3>1. users[k] \in User /\ users[i] \in User
      BY <1>0, <1>2
    <3>2. users[k].id \in Nat /\ users[i].id \in Nat
      BY <3>1 DEF User
    <3>3. k < i \/ i < k
      BY <1>0, <1>2
    <3>4. users[k].id < users[i].id \/ users[i].id < users[k].id
      BY <1>0, <1>2, <3>3 DEF StoreInv, IdsAreNeverReused
    <3> QED BY <1>2, <3>2, <3>4
  <2>3. \A j \in DOMAIN users' : users'[j].id \notin deleted'
    BY <1>2, <1>4, <2>2 DEF StoreInv, IdsAreNeverReused, Ids
  <2> QED BY <2>1, <2>3 DEF IdsAreNeverReused, Ids
<1>8. Carries
  BY <1>4 DEF Carries
<1> QED BY <1>5, <1>6, <1>7, <1>8 DEF StoreInv

-----------------------------------------------------------------------------
(* Tokens and requests.                                                     *)

\* No user, no token, no request.
LEMMA InitIInv == Init => IInv
<1> SUFFICES ASSUME Init PROVE IInv
  OBVIOUS
<1> USE DEF Init, StoreInit
<1>1. DOMAIN users = {} /\ users \in Seq(User) /\ Stored = {} /\ Redeemed = {}
  BY EmptySeq DEF Stored, Redeemed
<1>2. TypeOK
  BY <1>1, UserStoreAssumption DEF TypeOK, StoreTypeOK
<1>3. StoreInv
  BY <1>1, UserStoreAssumption
  DEF StoreInv, StoreTypeOK, HandedOut, IdsAreNeverReused, Ids
<1>4. Tickets /\ ResetsReachTheirUser
  BY <1>1 DEF Tickets, ResetsReachTheirUser
<1> QED BY <1>2, <1>3, <1>4 DEF IInv

\* Other requests write to the store and to nothing else, and no hash of theirs
\* is that of a reset.
LEMMA WriteUsersIInv ==
    ASSUME IInv, WriteUsers
    PROVE  IInv'
<1>1. StoreInv' /\ Carries
  <2>1. 1..MaxUsers \subseteq Nat
    BY UserStoreAssumption
  <2> QED BY <2>1, CreateInv, UpdateInv, DeleteInv DEF IInv, WriteUsers
<1>2. UNCHANGED <<redis, entries, given, pc, tok, userID, now, owner>>
  BY DEF WriteUsers, resetVars
<1>3. TypeOK'
  BY <1>1, <1>2 DEF IInv, TypeOK, Stored, StoreInv
<1>4. Tickets'
  BY <1>2 DEF IInv, Tickets, Stored, Redeemed
<1>5. ResetsReachTheirUser'
  BY <1>1, <1>2 DEF IInv, ResetsReachTheirUser, Carries
<1> QED BY <1>1, <1>3, <1>4, <1>5 DEF IInv

\* A token is issued for a user who exists, and is none that was given before.
LEMMA ForgotPasswordIInv ==
    ASSUME IInv, NEW t \in Tokens, NEW email \in Emails, ForgotPassword(t, email)
    PROVE  IInv'
<1>1. /\ UNCHANGED <<users, nextID, deleted, redis, pc, tok, userID, now>>
      /\ t \notin Stored \cup given
  BY DEF ForgotPassword, storeVars
<1>2. PICK i \in DOMAIN users : Issue(t, users[i].id)
  BY DEF ForgotPassword, First, WithEmail
<1>3. StoreInv'
  BY <1>1, Zenon DEF IInv, StoreInv, StoreTypeOK, HandedOut, IdsAreNeverReused, Ids
<1>4. Redeemed' = Redeemed
  BY <1>1 DEF Redeemed
<1>5. CASE UNCHANGED <<entries, given, owner>>
  <2>1. TypeOK'
    BY <1>1, <1>3, <1>5 DEF IInv, StoreInv, TypeOK, Stored
  <2>2. Tickets' /\ ResetsReachTheirUser'
    BY <1>1, <1>4, <1>5 DEF IInv, Tickets, ResetsReachTheirUser, Stored
  <2> QED BY <1>3, <2>1, <2>2 DEF IInv
<1>6. CASE /\ entries' = [u \in Stored \cup {t} |->
                             IF u = t THEN [user |-> users[i].id, exp |-> Deadline] ELSE entries[u]]
           /\ given' = given \cup {t}
           /\ owner' = [owner EXCEPT ![t] = users[i].id]
  <2>1. users[i].id \in 1..MaxUsers /\ Deadline \in Nat
    BY PasswordResetAssumption, UserStoreAssumption
    DEF IInv, TypeOK, StoreInv, StoreTypeOK, HandedOut, Deadline
  <2>2. /\ Stored' = Stored \cup {t}
        /\ entries'[t] = [user |-> users[i].id, exp |-> Deadline]
        /\ \A u \in Stored : u # t /\ entries'[u] = entries[u]
    BY <1>1, <1>6 DEF Stored
  <2>3. /\ owner'[t] = users[i].id /\ owner' \in [Tokens -> 0..MaxUsers]
        /\ \A u \in Tokens \ {t} : owner'[u] = owner[u]
    BY <1>6, <2>1, UserStoreAssumption DEF IInv, TypeOK
  <2>4. TypeOK'
    <3>1. \A u \in Stored' : entries'[u] \in [user : 1..MaxUsers, exp : Nat]
      BY <2>1, <2>2 DEF IInv, TypeOK
    <3> QED BY <1>1, <1>3, <1>6, <2>2, <2>3, <3>1, Zenon DEF IInv, StoreInv, TypeOK
  <2>5. given \subseteq Tokens \ {t} /\ Stored \subseteq Tokens \ {t}
    BY <1>1 DEF IInv, TypeOK
  <2>6. Tickets'
    <3>1. \A u \in Stored' : entries'[u].user = owner'[u]
      BY <2>2, <2>3, <2>5 DEF IInv, Tickets
    <3>2. ASSUME NEW r \in Redeemed
          PROVE  \E u \in given' : tok'[r] = {u} /\ u \notin Stored' /\ owner'[u] = userID'[r]
      <4>1. PICK u \in given : tok[r] = {u} /\ u \notin Stored /\ owner[u] = userID[r]
        BY DEF IInv, Tickets
      <4> QED BY <1>1, <1>6, <2>2, <2>3, <2>5, <4>1
    <3> QED BY <1>1, <1>4, <3>1, <3>2 DEF IInv, Tickets
  <2>7. ResetsReachTheirUser'
    <3>1. ASSUME NEW k \in DOMAIN users, NEW r \in Resets, users[k].hash = r
          PROVE  pc[r] = "ok" /\ \A u \in tok[r] : owner'[u] = users[k].id
      <4>1. pc[r] = "ok" /\ \A u \in tok[r] : owner[u] = users[k].id
        BY <3>1 DEF IInv, ResetsReachTheirUser
      <4>2. PICK u \in given : tok[r] = {u}
        BY <4>1 DEF IInv, Tickets, Redeemed
      <4> QED BY <2>3, <2>5, <4>1, <4>2
    <3> QED BY <1>1, <3>1 DEF ResetsReachTheirUser
  <2> QED BY <1>3, <2>4, <2>6, <2>7 DEF IInv
<1> QED BY <1>2, <1>5, <1>6 DEF Issue

\* What Consume leaves in the store is what was there.
LEMMA KeepFacts ==
    ASSUME NEW S \in SUBSET Stored, Keep(S)
    PROVE  Stored' = S /\ \A t \in S : entries'[t] = entries[t]
BY DEF Keep, Stored

\* Consume takes the token it accepts out of the store, so no other request
\* has it or will; a refusal gives nothing to anybody.
LEMMA ConsumeIInv ==
    ASSUME IInv, NEW r \in Resets, Consume(r)
    PROVE  IInv'
<1>1. /\ pc[r] = "new"
      /\ UNCHANGED <<users, nextID, deleted, redis, given, now, owner>>
  BY DEF Consume, storeVars
<1>2. PICK t \in given :
        /\ tok' = [tok EXCEPT ![r] = {t}]
        /\ \/ /\ Redeemable(t)
              /\ pc' = [pc EXCEPT ![r] = "update"]
              /\ userID' = [userID EXCEPT ![r] = entries[t].user]
              /\ Keep(Stored \ {t})
           \/ /\ Keep(Stored) \/ Keep(Stored \ {t})
              /\ pc' = [pc EXCEPT ![r] = "denied"]
              /\ UNCHANGED userID
  BY Zenon DEF Consume
<1>3. /\ Stored' \subseteq Stored
      /\ \A u \in Stored' : entries'[u] = entries[u]
      /\ pc'[r] = "update" => t \notin Stored'
  BY <1>2, KeepFacts DEF IInv, TypeOK
<1>4. /\ \A s \in Resets \ {r} : pc'[s] = pc[s] /\ tok'[s] = tok[s] /\ userID'[s] = userID[s]
      /\ tok'[r] = {t}
      /\ \/ pc'[r] = "update" /\ t \in Stored /\ userID'[r] = entries[t].user
         \/ pc'[r] = "denied"
  BY <1>2 DEF IInv, TypeOK, Redeemable
<1>5. StoreInv'
  BY <1>1 DEF IInv, StoreInv, StoreTypeOK, HandedOut, IdsAreNeverReused, Ids
<1>6. TypeOK'
  <2>1. t \in Tokens
    BY DEF IInv, TypeOK
  <2>2. Redeemable(t) => entries[t].user \in 0..MaxUsers
    BY UserStoreAssumption DEF IInv, TypeOK, Redeemable
  <2>3. /\ pc' \in [Resets -> {"new", "update", "ok", "denied", "failed"}]
        /\ tok' \in [Resets -> SUBSET Tokens]
        /\ userID' \in [Resets -> 0..MaxUsers]
    BY <1>2, <2>1, <2>2 DEF IInv, TypeOK
  <2> QED BY <1>1, <1>3, <1>5, <2>3 DEF IInv, StoreInv, TypeOK
<1>7. Tickets'
  <2>1. Redeemed \subseteq Redeemed' /\ Redeemed' \subseteq Redeemed \cup {r} /\ r \notin Redeemed
    BY <1>1, <1>4 DEF Redeemed
  <2>2. \A u \in Stored' : entries'[u].user = owner'[u]
    BY <1>1, <1>3 DEF IInv, Tickets
  <2>3. ASSUME NEW s \in Redeemed
        PROVE  /\ \E u \in given' : tok'[s] = {u} /\ u \notin Stored' /\ owner'[u] = userID'[s]
               /\ t \in Stored => tok'[s] # {t}
    <3>1. s \in Resets \ {r}
      BY <2>1 DEF Redeemed
    <3>2. PICK u \in given : tok[s] = {u} /\ u \notin Stored /\ owner[u] = userID[s]
      BY DEF IInv, Tickets
    <3> QED BY <1>1, <1>3, <1>4, <3>1, <3>2
  <2>4. CASE r \in Redeemed'
    <3>1. pc'[r] = "update" /\ t \in Stored /\ userID'[r] = owner[t] /\ t \notin Stored'
      BY <1>3, <1>4, <2>4 DEF Redeemed, IInv, Tickets
    <3>2. \A s \in Redeemed' : \E u \in given' : tok'[s] = {u} /\ u \notin Stored' /\ owner'[u] = userID'[s]
      BY <1>1, <1>4, <2>1, <2>3, <3>1
    <3>3. \A s, q \in Redeemed : s # r /\ q # r /\ (tok'[s] = tok'[q] => s = q)
      BY <1>4, <2>1 DEF IInv, Tickets, Redeemed
    <3>4. \A s, q \in Redeemed' : tok'[s] = tok'[q] => s = q
      BY <1>4, <2>1, <2>3, <3>1, <3>3
    <3> QED BY <2>2, <3>2, <3>4 DEF Tickets
  <2>5. CASE r \notin Redeemed'
    <3>1. Redeemed' = Redeemed
      BY <2>1, <2>5
    <3>2. \A s, q \in Redeemed : tok'[s] = tok'[q] => s = q
      BY <1>4, <2>1 DEF IInv, Tickets, Redeemed
    <3> QED BY <2>2, <2>3, <3>1, <3>2 DEF Tickets
  <2> QED BY <2>4, <2>5
<1>8. ResetsReachTheirUser'
  BY <1>1, <1>4 DEF IInv, ResetsReachTheirUser
<1> QED BY <1>5, <1>6, <1>7, <1>8 DEF IInv

\* The password written is that of the user the token was issued for.
LEMMA ResetPasswordIInv ==
    ASSUME IInv, NEW r \in Resets, ResetPassword(r)
    PROVE  IInv'
<1>1. /\ pc[r] = "update" /\ r \in Redeemed
      /\ UNCHANGED <<redis, entries, given, tok, userID, now, owner>>
  BY DEF ResetPassword, Redeemed
<1>2. PICK t \in given : tok[r] = {t} /\ owner[t] = userID[r]
  BY <1>1 DEF IInv, Tickets
<1>3. /\ pc'[r] \in {"ok", "failed"} /\ \A s \in Resets \ {r} : pc'[s] = pc[s]
      /\ pc' \in [Resets -> {"new", "update", "ok", "denied", "failed"}]
  BY DEF ResetPassword, IInv, TypeOK
<1>4. Stored' = Stored /\ Redeemed' = Redeemed
  BY <1>1, <1>3 DEF Stored, Redeemed
<1>5. Tickets'
  BY <1>1, <1>4 DEF IInv, Tickets
<1>6. \A i \in DOMAIN users : users[i].hash # r
  BY <1>1 DEF IInv, ResetsReachTheirUser
<1>7. StoreInv' /\ ResetsReachTheirUser'
  <2>1. CASE UpdatePassword(userID[r], r) /\ pc'[r] = "ok"
    <3>1. /\ StoreInv'
          /\ \A i \in DOMAIN users' :
                \/ users'[i].hash = r /\ users'[i].id = userID[r]
                \/ \E j \in DOMAIN users : users[j].id = users'[i].id /\ users[j].hash = users'[i].hash
      BY <2>1, UpdatePasswordInv, PasswordResetAssumption DEF IInv
    <3>2. ASSUME NEW i \in DOMAIN users', NEW s \in Resets, users'[i].hash = s
          PROVE  pc'[s] = "ok" /\ \A u \in tok[s] : owner[u] = users'[i].id
      <4>1. CASE s = r
        BY <1>2, <1>6, <2>1, <3>1, <3>2, <4>1
      <4>2. CASE s # r
        <5>1. PICK j \in DOMAIN users : users[j].id = users'[i].id /\ users[j].hash = s
          BY <3>1, <3>2, <4>2
        <5> QED BY <1>3, <4>2, <5>1 DEF IInv, ResetsReachTheirUser
      <4> QED BY <4>1, <4>2
    <3> QED BY <1>1, <3>1, <3>2 DEF ResetsReachTheirUser
  <2>2. CASE UNCHANGED storeVars
    <3>1. UNCHANGED <<users, nextID, deleted>>
      BY <2>2 DEF storeVars
    <3>2. StoreInv'
      BY <3>1 DEF IInv, StoreInv, StoreTypeOK, HandedOut, IdsAreNeverReused, Ids
    <3>3. ResetsReachTheirUser'
      BY <1>1, <1>3, <1>6, <3>1 DEF IInv, ResetsReachTheirUser
    <3> QED BY <3>2, <3>3
  <2> QED BY <2>1, <2>2 DEF ResetPassword, IInv, TypeOK
<1>8. TypeOK'
  BY <1>1, <1>3, <1>4, <1>7 DEF IInv, StoreInv, TypeOK
<1> QED BY <1>5, <1>7, <1>8 DEF IInv

\* Every step keeps the invariant.
LEMMA NextIInv == IInv /\ [Next]_vars => IInv'
<1> SUFFICES ASSUME IInv, [Next]_vars PROVE IInv'
  OBVIOUS
<1>1. CASE Tick \/ UNCHANGED vars
  <2>1. /\ UNCHANGED <<users, nextID, deleted, redis, entries, given, pc, tok, userID, owner>>
        /\ now' \in Nat
    BY <1>1 DEF Tick, vars, storeVars, IInv, TypeOK
  <2>2. StoreInv'
    BY <2>1 DEF IInv, StoreInv, StoreTypeOK, HandedOut, IdsAreNeverReused, Ids
  <2>3. TypeOK'
    BY <2>1, <2>2 DEF IInv, StoreInv, TypeOK, Stored
  <2>4. Tickets' /\ ResetsReachTheirUser'
    BY <2>1 DEF IInv, Tickets, ResetsReachTheirUser, Stored, Redeemed
  <2> QED BY <2>2, <2>3, <2>4 DEF IInv
<1>2. CASE WriteUsers
  BY <1>2, WriteUsersIInv
<1>3. CASE \E t \in Tokens, email \in Emails : ForgotPassword(t, email)
  BY <1>3, ForgotPasswordIInv
<1>4. CASE \E r \in Resets : Consume(r) \/ ResetPassword(r)
  BY <1>4, ConsumeIInv, ResetPasswordIInv
<1> QED BY <1>1, <1>2, <1>3, <1>4 DEF Next

\* The invariant holds in every reachable state.
THEOREM ResetInvariance == Spec => []IInv
BY InitIInv, NextIInv, PTL DEF Spec

\* No token changes two passwords, however many requests present it at once.
THEOREM SingleUse == Spec => []TokenChangesOnce
<1>1. IInv => TokenChangesOnce
  BY DEF IInv, Tickets, Redeemed, TokenChangesOnce
<1> QED BY <1>1, ResetInvariance, PTL

\* A reset changes the password of the user who asked for it and of nobody
\* else, whatever happens to the accounts in the meantime.
THEOREM RightUser == Spec => []ResetsReachTheirUser
<1>1. IInv => ResetsReachTheirUser
  BY DEF IInv
<1> QED BY <1>1, ResetInvariance, PTL

\* The slice of users stays sorted by id and no deleted id comes back.
THEOREM FreshIds == Spec => []IdsAreNeverReused
<1>1. IInv => IdsAreNeverReused
  BY DEF IInv, StoreInv
<1> QED BY <1>1, ResetInvariance, PTL
=============================================================================
