------------------------------ MODULE UserStore -----------------------------
(***************************************************************************)
(* MemoryUserStore (store/user_store.go): a slice of users under a mutex,  *)
(* so each method is one step.  A user is an id, an e-mail and a password  *)
(* hash; names are left out.  PasswordReset completes it to a system.      *)
(***************************************************************************)
EXTENDS Naturals, Sequences, SequencesExt

CONSTANTS
    Emails,      \* the e-mail addresses clients send
    Hashes,      \* password hashes
    MaxUsers     \* how many users are ever created (bound)

ASSUME UserStoreAssumption == MaxUsers \in Nat

VARIABLES
    users,       \* the slice, in insertion order
    nextID,
    deleted      \* history: the ids of deleted users

storeVars == <<users, nextID, deleted>>

User == [id : Nat, email : Emails, hash : Hashes]

StoreInit == users = <<>> /\ nextID = 1 /\ deleted = {}

Ids == {users[i].id : i \in DOMAIN users}

\* The range loop stops at the first of the positions it looks for.
First(S) == {i \in S : \A j \in S : i <= j}

WithId(id) == {i \in DOMAIN users : users[i].id = id}
WithEmail(email) == {i \in DOMAIN users : users[i].email = email}

\* Mutant: the id is the new length of the slice.
Create_Count(email, hash) ==
    /\ nextID <= MaxUsers
    /\ WithEmail(email) = {}
    /\ users' = Append(users, [id |-> Len(users) + 1, email |-> email, hash |-> hash])
    /\ nextID' = nextID + 1
    /\ UNCHANGED deleted

\* Refused when some user has the e-mail.
Create(email, hash) ==
    /\ nextID <= MaxUsers
    /\ WithEmail(email) = {}
    /\ users' = Append(users, [id |-> nextID, email |-> email, hash |-> hash])
    /\ nextID' = nextID + 1
    /\ UNCHANGED deleted

\* One pass over the slice that stops at the user itself: only the users in
\* front of it are asked whether they have the new e-mail.
Update(id, email) ==
    /\ \E i \in First(WithId(id) \cup WithEmail(email)) :
        /\ users[i].id = id
        /\ users' = [users EXCEPT ![i].email = email]
    /\ UNCHANGED <<nextID, deleted>>

\* Mutant: the id is taken for an index.
UpdatePassword_Index(id, hash) ==
    /\ id \in DOMAIN users
    /\ users' = [users EXCEPT ![id].hash = hash]
    /\ UNCHANGED <<nextID, deleted>>

UpdatePassword(id, hash) ==
    /\ \E i \in First(WithId(id)) : users' = [users EXCEPT ![i].hash = hash]
    /\ UNCHANGED <<nextID, deleted>>

Delete(id) ==
    /\ \E i \in First(WithId(id)) : users' = RemoveAt(users, i)
    /\ deleted' = deleted \cup {id}
    /\ UNCHANGED nextID

-----------------------------------------------------------------------------
\* Every variable has the type the code gives it.
StoreTypeOK ==
    /\ users \in Seq(User)
    /\ nextID \in Nat \ {0}
    /\ deleted \subseteq Nat

\* Through any sequence of writes List returns the users in the order of their
\* ids, as the SELECT ... ORDER BY id of PostgresUserStore does, so GetByID has
\* at most one answer; and a deleted id never names a user again, so a token or
\* a cache entry of a deleted user cannot come to mean somebody else.
IdsAreNeverReused ==
    /\ \A i, j \in DOMAIN users : i < j => users[i].id < users[j].id
    /\ deleted \cap Ids = {}

\* "If a second user is created with the same email, or an update uses another
\* user's email, the API returns 409 Conflict" (docs/REFERENCE.md): no two users
\* have the same e-mail.
EmailsAreUnique ==
    \A i, j \in DOMAIN users : users[i].email = users[j].email => i = j
=============================================================================
